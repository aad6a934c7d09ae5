-------------------------- MODULE Lifecycle_proofs --------------------------
(***************************************************************************)
(* Proofs about Lifecycle, for every value of its constants.               *)
(*                                                                         *)
(* ClosedByThreeGreens is not inductive: it says nothing of the counter a  *)
(* transition reads, nor of why a promotion that renames history leaves    *)
(* counted runs alone.  IInv adds both: the counter is backed by that many *)
(* green runs (StreakInv), and an id of an older release is never bound to *)
(* a definition, because only a promotion of this release lets a           *)
(* verification past bind (CodesInv, ClassedInv, VerifierInv).             *)
(*                                                                         *)
(* The other properties follow from IInv and one addition each: RunsCounted *)
(* (run ids are bounded, so the green runs of a finding are finitely many), *)
(* LegacyFirst (imported outcomes come first) and BytesInv (the bytes on    *)
(* disk only get newer).                                                    *)
(*                                                                         *)
(* FollowsStreaks needs to know what the rows say of the logs that the     *)
(* history holds (LogsInv), and that no row of an older release is left in *)
(* a group once its error finding can be verified (CleanInv): such a row   *)
(* could survive a promotion in the place of the one with the runs.  The   *)
(* logs are computed along the history, so what a longer or a renamed one  *)
(* reads as is proved by induction on its length (InductionOnNat).         *)
(***************************************************************************)
EXTENDS Lifecycle, SequenceTheorems, FiniteSetTheorems, WellFoundedInduction, TLAPS

Past == {"bound", "running", "recording", "recorded"}

\* A verification is for one finding; past bind it holds one binding, and the
\* finding has an id of this release.
VerifierInv ==
    \A v \in Verifiers :
        /\ verifier[v].pc # "idle" => \E id \in Ids : verifier[v].finding = {id}
        /\ verifier[v].pc \in Past =>
              /\ verifier[v].finding \subseteq CurrentIds
              /\ \E b \in Bindings : verifier[v].binding = {b}
        /\ verifier[v].pc \in {"recording", "recorded"} => verifier[v].run # 0

\* What this release promoted has an id of this release.
ClassedInv == findings.classed => findings.ids \subseteq CurrentIds

\* No run is recorded for an id of an older release.
CodesInv ==
    \A id \in Ids \ CurrentIds : evidence[id].binding = {} /\ RunsOf(id) = {}

\* Before the import there is no evidence, and index.db is as it was found.
UnimportedInv ==
    /\ cache.kind = "absent" => cache = AbsentCache
    /\ cache.kind = "legacy" => cache = LegacyCache
    /\ ~imported => /\ cache.kind # "current"
                    /\ history = <<>>
                    /\ \A id \in Ids : evidence[id] = NoRow
                    /\ \A v \in Verifiers : verifier[v].pc = "idle"
                    /\ \A p \in Promoters : snapshot[p] = {}

\* The counter of a bound row is backed by green runs at the end of the history.
StreakInv ==
    \A id \in Ids : evidence[id].binding # {} =>
        /\ evidence[id].state = "closed" => evidence[id].passes >= 3
        /\ evidence[id].passes >= 1 => \E k \in RunsOf(id) : GreenSince(id, k)
        /\ evidence[id].passes >= 2 =>
              \E j, k \in RunsOf(id) : j < k /\ GreenSince(id, j)
        /\ evidence[id].passes >= 3 =>
              \E i, j, k \in RunsOf(id) : i < j /\ j < k /\ GreenSince(id, i)

IInv == TypeOK /\ VerifierInv /\ ClassedInv /\ CodesInv /\ UnimportedInv /\ StreakInv

-----------------------------------------------------------------------------
(* Type correctness.                                                        *)

LEMMA ConstantTypes ==
    /\ Len(LegacyHistory) \in Nat
    /\ CurrentIds \subseteq Ids
    /\ Issues \subseteq CurrentIds
    /\ 0 \in Bytes
    /\ Idle \in Verifications
    /\ NoFindings \in Promoted
    /\ AbsentCache \in Caches /\ LegacyCache \in Caches
<1>1. <<>> \in Seq(Records) /\ Len(LegacyHistory) \in Nat
  BY LegacyAssumption
<1>2. CurrentIds \subseteq Ids /\ Issues \subseteq CurrentIds /\ 0 \in Bytes
  BY ConstantsAssumption DEF Ids, CurrentIds, Bytes, Issues
<1>3. Idle \in Verifications /\ NoFindings \in Promoted
  BY <1>2 DEF Idle, NoFindings, Verifications, Promoted
<1>4. AbsentCache \in Caches /\ LegacyCache \in Caches
  BY <1>1, LegacyAssumption DEF AbsentCache, LegacyCache, Caches
<1> QED
  BY <1>1, <1>2, <1>3, <1>4

LEMMA InitType == Init => TypeOK
<1> SUFFICES ASSUME Init PROVE TypeOK
  OBVIOUS
<1> USE ConstantTypes
<1>1. history \in Seq(Records) /\ evidence \in [Ids -> Rows \cup {NoRow}]
  BY DEF Init
<1>2. cache \in Caches /\ calls \in SUBSET Issues /\ indexed \in BOOLEAN
  BY DEF Init
<1>3. findings \in Promoted
  <2>1. CASE findings = NoFindings
    BY <2>1
  <2>2. CASE findings # NoFindings
    <3>1. PICK classed \in BOOLEAN, ids \in SUBSET Ids :
             findings = [present |-> TRUE, classed |-> classed, ids |-> ids, basis |-> calls]
      BY <2>2 DEF Init
    <3> QED
      BY <1>2, <3>1 DEF Promoted
  <2> QED
    BY <2>1, <2>2
<1>4. verifier \in [Verifiers -> Verifications]
  BY DEF Init
<1>5. target \in Bytes /\ clock \in Nat /\ imported \in BOOLEAN
  BY DEF Init
<1>6. snapshot \in [Promoters -> SUBSET (SUBSET Issues)]
  BY DEF Init
<1> QED
  BY <1>1, <1>2, <1>3, <1>4, <1>5, <1>6 DEF TypeOK

LEMMA AttachType == TypeOK /\ Attach => TypeOK'
<1> SUFFICES ASSUME TypeOK, Attach PROVE TypeOK'
  OBVIOUS
<1> USE DEF TypeOK
<1>1. evidence' \in [Ids -> Rows \cup {NoRow}]
  BY DEF Attach, Caches
<1>2. history' \in Seq(Records)
  <2>1. history \in Seq(Records) /\ cache.log \in Seq(Records)
    BY DEF Caches
  <2>2. history \o cache.log \in Seq(Records)
    BY <2>1
  <2> QED
    BY <2>1, <2>2 DEF Attach
<1> QED
  BY <1>1, <1>2 DEF Attach, indexVars

LEMMA VerificationType ==
  ASSUME TypeOK, NEW v \in Verifiers,
         \/ \E id \in Ids, case \in Cases : Prepare(v, id, case)
         \/ Bind(v) \/ Launch(v) \/ Exit(v)
         \/ \E passed \in BOOLEAN : Finish(v, passed) \/ Replay(v, passed)
  PROVE  TypeOK'
<1> USE ConstantTypes DEF TypeOK
<1>1. CASE \E id \in Ids, case \in Cases : Prepare(v, id, case)
  <2>1. PICK id \in Ids, case \in Cases : Prepare(v, id, case)
    BY <1>1
  <2>2. [Idle EXCEPT !.pc = "prepared", !.finding = {id}, !.case = {case}] \in Verifications
    BY DEF Verifications, Idle
  <2> QED
    BY <2>1, <2>2 DEF Prepare, indexVars
<1>2. CASE Bind(v)
  <2>1. PICK id \in verifier[v].finding, case \in verifier[v].case :
           verifier' = [verifier EXCEPT ![v] =
                          [@ EXCEPT !.pc = "bound", !.binding = {<<case, target>>}]]
    BY <1>2 DEF Bind
  <2>2. <<case, target>> \in Bindings
    BY DEF Bindings, Verifications
  <2>3. verifier' \in [Verifiers -> Verifications]
    BY <2>1, <2>2, ZenonT(30) DEF Verifications
  <2> QED
    BY <1>2, <2>3 DEF Bind, indexVars
<1>3. CASE Launch(v)
  <2>1. verifier' \in [Verifiers -> Verifications]
    BY <1>3, ZenonT(30) DEF Launch, Verifications
  <2> QED
    BY <1>3, <2>1 DEF Launch, indexVars
<1>4. CASE Exit(v)
  BY <1>4 DEF Exit, indexVars
<1>5. CASE \E passed \in BOOLEAN : Finish(v, passed) \/ Replay(v, passed)
  <2>1. PICK passed \in BOOLEAN : Finish(v, passed) \/ Replay(v, passed)
    BY <1>5
  <2>2. CASE Finish(v, passed)
    <3>1. clock + 1 \in Nat /\ verifier[v] \in Verifications
      OBVIOUS
    <3>2. [verifier[v] EXCEPT !.pc = "recording", !.passed = passed, !.run = clock + 1]
             \in Verifications
      BY <3>1 DEF Verifications
    <3> QED
      BY <2>2, <3>1, <3>2 DEF Finish, indexVars
  <2>3. CASE Replay(v, passed)
    <3>1. [verifier[v] EXCEPT !.pc = "recording", !.passed = passed] \in Verifications
      BY DEF Verifications
    <3> QED
      BY <2>3, <3>1 DEF Replay, indexVars
  <2> QED
    BY <2>1, <2>2, <2>3
<1> QED
  BY <1>1, <1>2, <1>3, <1>4, <1>5

\* What a transition writes is a row, and its counter is the streak.
LEMMA TransitionType ==
  ASSUME NEW row \in Rows, NEW b \in Bindings, NEW passed \in BOOLEAN
  PROVE  /\ Transition(row, b, passed).state \in States
         /\ Transition(row, b, passed).passes \in 0 .. MaxPasses
  BY ConstantsAssumption DEF Transition, StateAfter, Streak, Same, Rows, States

\* The entry and the row that record writes.
EntryOf(v, id) ==
    [finding |-> id, binding |-> verifier[v].binding, passed |-> verifier[v].passed,
     run |-> verifier[v].run, on |-> verifier[v].on]

LEMMA RecordCases ==
  ASSUME TypeOK, VerifierInv, NEW v \in Verifiers, Record(v)
  PROVE  \/ UNCHANGED <<evidence, history, cache>>
         \/ \E id \in CurrentIds, b \in Bindings :
               /\ id \in verifier[v].finding
               /\ evidence[id] \in Rows
               /\ EntryOf(v, id) \in Records
               /\ verifier[v].binding = {b}
               /\ verifier[v].run # 0 /\ RunsNamed(verifier[v].run) = {}
               /\ evidence' = [evidence EXCEPT ![id] =
                     [state |-> StateAfter(evidence[id], b, verifier[v].passed),
                      passes |-> Streak(evidence[id], b, verifier[v].passed),
                      binding |-> {b}, updated |-> verifier[v].run]]
               /\ history' = Append(history, EntryOf(v, id))
               /\ cache' = ProjectResult(id, verifier[v].run, evidence', history')
<1>1. PICK id \in verifier[v].finding :
         /\ Exists(id)
         /\ IF RunsNamed(verifier[v].run) # {}
            THEN UNCHANGED <<evidence, history, cache>>
            ELSE RecordNew(id, EntryOf(v, id))
  BY DEF Record, EntryOf
<1>2. id \in CurrentIds /\ id \in Ids /\ verifier[v].run # 0
  BY ConstantTypes DEF Record, VerifierInv, Past
<1>3. PICK b \in Bindings : verifier[v].binding = {b}
  BY DEF Record, VerifierInv, Past
<1>4. evidence[id] \in Rows
  BY <1>1, <1>2 DEF TypeOK, Exists
<1>5. EntryOf(v, id) \in Records
  BY <1>2 DEF EntryOf, TypeOK, Verifications, Records
<1>6. (CHOOSE c \in EntryOf(v, id).binding : TRUE) = b /\ EntryOf(v, id).binding = {b}
  BY <1>3 DEF EntryOf
<1>7. CASE RunsNamed(verifier[v].run) # {}
  BY <1>1, <1>7
<1>8. CASE RunsNamed(verifier[v].run) = {}
  <2>1. RecordNew(id, EntryOf(v, id))
    BY <1>1, <1>8
  <2> QED
    BY <1>2, <1>3, <1>4, <1>5, <1>6, <1>8, <2>1 DEF RecordNew, Transition, EntryOf
<1> QED
  BY <1>7, <1>8

LEMMA RecordType ==
  ASSUME TypeOK, VerifierInv, NEW v \in Verifiers, Record(v)
  PROVE  TypeOK'
<1> USE DEF TypeOK
<1>1. verifier' \in [Verifiers -> Verifications]
  <2>1. [verifier[v] EXCEPT !.pc = "recorded"] \in Verifications
    BY DEF Verifications
  <2> QED
    BY <2>1 DEF Record
<1>2. CASE UNCHANGED <<evidence, history, cache>>
  BY <1>1, <1>2 DEF Record, indexVars
<1>3. CASE ~UNCHANGED <<evidence, history, cache>>
  <2>1. PICK id \in CurrentIds, b \in Bindings :
           /\ evidence[id] \in Rows
           /\ EntryOf(v, id) \in Records
           /\ evidence' = [evidence EXCEPT ![id] =
                 [state |-> StateAfter(evidence[id], b, verifier[v].passed),
                  passes |-> Streak(evidence[id], b, verifier[v].passed),
                  binding |-> {b}, updated |-> verifier[v].run]]
           /\ history' = Append(history, EntryOf(v, id))
           /\ cache' = ProjectResult(id, verifier[v].run, evidence', history')
    BY <1>3, RecordCases
  <2>2. verifier[v].passed \in BOOLEAN /\ verifier[v].run \in Nat
    BY DEF Verifications
  <2>3. [state |-> StateAfter(evidence[id], b, verifier[v].passed),
         passes |-> Streak(evidence[id], b, verifier[v].passed),
         binding |-> {b}, updated |-> verifier[v].run] \in Rows
    BY <2>1, <2>2, TransitionType DEF Transition, Rows
  <2>4. evidence' \in [Ids -> Rows \cup {NoRow}] /\ id \in Ids
    BY <2>1, <2>3, ConstantTypes
  <2>5. history' \in Seq(Records)
    BY <2>1
  <2>6. RowOfRun(history', verifier[v].run) \in Records
    <3>1. Len(history') \in 1 .. Len(history')
      BY <2>1
    <3>2. history'[Len(history')].run = verifier[v].run
      BY <2>1 DEF EntryOf
    <3>3. (CHOOSE k \in 1 .. Len(history') : history'[k].run = verifier[v].run)
             \in 1 .. Len(history')
      BY <3>1, <3>2
    <3> QED
      BY <2>5, <3>3 DEF RowOfRun
  <2>7. cache' \in Caches
    <3>1. Projection(evidence', history') \in Caches
      BY <2>4, <2>5 DEF Projection, Caches
    <3>2. [cache.rows EXCEPT ![id] = evidence'[id]] \in [Ids -> Rows \cup {NoRow}]
      BY <2>4 DEF Caches
    <3>3. Append(cache.log, RowOfRun(history', verifier[v].run)) \in Seq(Records)
      BY <2>6 DEF Caches
    <3>4. Projection([cache.rows EXCEPT ![id] = evidence'[id]],
                     Append(cache.log, RowOfRun(history', verifier[v].run))) \in Caches
      BY <3>2, <3>3 DEF Projection, Caches
    <3> QED
      BY <2>1, <3>1, <3>4 DEF ProjectResult
  <2> QED
    BY <1>1, <2>4, <2>5, <2>7 DEF Record, indexVars
<1> QED
  BY <1>2, <1>3

\* What a promotion commits, with its choices named.
PromotionOf(p, issues, qualifying, survivor) ==
    /\ issues \in snapshot[p] /\ qualifying \subseteq issues
    /\ survivor \in [{id \in issues : id[2] = "error" /\ Rekeyed(id[1]) # {}} -> Ids]
    /\ \A id \in DOMAIN survivor : survivor[id] \in Latest(Rekeyed(id[1]))
    /\ evidence' = [id \in Ids |->
                       IF id \in qualifying /\ MigratedRow(id, survivor) = NoRow
                       THEN FreshRow ELSE MigratedRow(id, survivor)]
    /\ history' = [k \in 1 .. Len(history) |-> MigratedRecord(history[k], survivor)]
    /\ findings' = [present |-> TRUE, classed |-> TRUE,
                    ids |-> qualifying, basis |-> issues]
    /\ cache' = Projection(evidence', history')

LEMMA PromotionType ==
  ASSUME TypeOK, NEW p \in Promoters, NEW issues, NEW qualifying, NEW survivor,
         PromoteCommit(p), PromotionOf(p, issues, qualifying, survivor)
  PROVE  TypeOK'
<1> USE DEF TypeOK
<1> USE ConstantTypes
<1>1. issues \subseteq Issues /\ issues \subseteq Ids
  BY DEF PromotionOf
<1>2. \A id \in Ids : MigratedRow(id, survivor) \in Rows \cup {NoRow}
  BY DEF PromotionOf, MigratedRow
<1>3. FreshRow \in Rows
  BY ConstantsAssumption DEF FreshRow, Rows, States
<1>4. evidence' \in [Ids -> Rows \cup {NoRow}]
  BY <1>2, <1>3 DEF PromotionOf
<1>5. history' \in Seq(Records)
  <2>1. \A k \in 1 .. Len(history) : MigratedRecord(history[k], survivor) \in Records
    <3>1. SUFFICES ASSUME NEW k \in 1 .. Len(history)
                   PROVE  MigratedRecord(history[k], survivor) \in Records
      OBVIOUS
    <3>2. history[k] \in Records
      OBVIOUS
    <3>3. CASE MigratedRecord(history[k], survivor) = history[k]
      BY <3>2, <3>3
    <3>4. CASE MigratedRecord(history[k], survivor) # history[k]
      <4>1. ErrorId(history[k].finding[1]) \in DOMAIN survivor
        BY <3>4 DEF MigratedRecord
      <4>2. ErrorId(history[k].finding[1]) \in Ids
        BY <1>1, <4>1 DEF PromotionOf
      <4> QED
        BY <3>2, <4>2, <3>4 DEF MigratedRecord, Records
    <3> QED
      BY <3>3, <3>4
  <2>2. Len(history) \in Nat
    OBVIOUS
  <2> QED
    BY <2>1, <2>2, IsASeq DEF PromotionOf
<1>6. cache' \in Caches
  BY <1>4, <1>5 DEF PromotionOf, Projection, Caches
<1>7. findings' \in Promoted
  BY <1>1 DEF PromotionOf, Promoted
<1> QED
  BY <1>4, <1>5, <1>6, <1>7 DEF PromoteCommit

LEMMA PromoteChoices ==
  ASSUME NEW p \in Promoters, PromoteCommit(p)
  PROVE  \E issues, qualifying, survivor : PromotionOf(p, issues, qualifying, survivor)
  BY DEF PromoteCommit, PromotionOf

LEMMA SurroundingsType ==
  ASSUME TypeOK,
         \/ \E p \in Promoters : PromoteRead(p) \/ PromoteAbort(p)
         \/ IndexRefresh \/ DeleteIndex \/ Rebuild
  PROVE  TypeOK'
  BY ConstantTypes
  DEF TypeOK, PromoteRead, PromoteAbort, IndexRefresh, DeleteIndex, Rebuild, indexVars

LEMMA TypeStep == TypeOK /\ VerifierInv /\ [Next]_vars => TypeOK'
<1> SUFFICES ASSUME TypeOK, VerifierInv, [Next]_vars PROVE TypeOK'
  OBVIOUS
<1>1. CASE Attach
  BY <1>1, AttachType
<1>2. ASSUME NEW v \in Verifiers, Verification(v) PROVE TypeOK'
  BY <1>2, VerificationType, RecordType DEF Verification
<1>3. ASSUME NEW p \in Promoters, Promotion(p) PROVE TypeOK'
  <2>1. CASE PromoteCommit(p)
    BY <2>1, PromoteChoices, PromotionType
  <2> QED
    BY <1>3, <2>1, SurroundingsType DEF Promotion
<1>4. CASE IndexRefresh \/ DeleteIndex \/ Rebuild
  BY <1>4, SurroundingsType
<1>5. CASE UNCHANGED vars
  BY <1>5 DEF vars, TypeOK
<1> QED
  BY <1>1, <1>2, <1>3, <1>4, <1>5 DEF Next

-----------------------------------------------------------------------------
(* The strengthening.                                                       *)

LEMMA InitIInv == Init => IInv
<1> SUFFICES ASSUME Init PROVE IInv
  OBVIOUS
<1>1. TypeOK
  BY InitType
<1>2. VerifierInv
  BY DEF Init, VerifierInv, Idle, Past
<1>3. ClassedInv
  <2>1. CASE findings = NoFindings
    BY <2>1 DEF ClassedInv, NoFindings
  <2>2. CASE findings # NoFindings
    <3>1. PICK classed \in BOOLEAN, ids \in SUBSET Ids :
             /\ classed => ids \subseteq calls
             /\ findings = [present |-> TRUE, classed |-> classed, ids |-> ids, basis |-> calls]
      BY <2>2 DEF Init
    <3> QED
      BY <1>1, <3>1, ConstantTypes DEF ClassedInv, TypeOK
  <2> QED
    BY <2>1, <2>2
<1>4. (\A id \in Ids : evidence[id] = NoRow) /\ history = <<>>
  BY DEF Init
<1>5. CodesInv /\ StreakInv
  BY <1>4 DEF CodesInv, StreakInv, RunsOf, NoRow
<1>6. UnimportedInv
  <2>1. cache = AbsentCache \/ cache = LegacyCache
    BY DEF Init
  <2>2. (\A v \in Verifiers : verifier[v].pc = "idle") /\ \A p \in Promoters : snapshot[p] = {}
    BY DEF Init, Idle
  <2> QED
    BY <1>4, <2>1, <2>2 DEF UnimportedInv, AbsentCache, LegacyCache
<1> QED
  BY <1>1, <1>2, <1>3, <1>5, <1>6 DEF IInv

LEMMA VerifierStep == TypeOK /\ VerifierInv /\ ClassedInv /\ [Next]_vars => VerifierInv'
<1> SUFFICES ASSUME TypeOK, VerifierInv, ClassedInv, [Next]_vars PROVE VerifierInv'
  OBVIOUS
<1>1. CASE UNCHANGED verifier
  BY <1>1 DEF VerifierInv
<1>2. ASSUME NEW v \in Verifiers, Verification(v) PROVE VerifierInv'
  <2> USE DEF VerifierInv, Past
  <2>1. ASSUME NEW w \in Verifiers, w # v PROVE verifier'[w] = verifier[w]
    BY <1>2, <2>1
    DEF Verification, Prepare, Bind, Launch, Finish, Replay, Record, Exit, TypeOK
  <2>2. /\ verifier'[v].pc # "idle" => \E id \in Ids : verifier'[v].finding = {id}
        /\ verifier'[v].pc \in Past =>
              /\ verifier'[v].finding \subseteq CurrentIds
              /\ \E b \in Bindings : verifier'[v].binding = {b}
        /\ verifier'[v].pc \in {"recording", "recorded"} => verifier'[v].run # 0
    <3>1. CASE \E id \in Ids, case \in Cases : Prepare(v, id, case)
      BY <3>1 DEF Prepare, TypeOK, Idle
    <3>2. CASE Bind(v)
      <4>1. PICK id \in verifier[v].finding, case \in verifier[v].case :
               /\ findings.classed /\ id \in findings.ids
               /\ verifier' = [verifier EXCEPT ![v] =
                     [@ EXCEPT !.pc = "bound", !.binding = {<<case, target>>}]]
        BY <3>2 DEF Bind
      <4>2. id \in CurrentIds /\ verifier[v].pc = "prepared"
        BY <3>2, <4>1 DEF ClassedInv, Bind
      <4>3. <<case, target>> \in Bindings
        BY DEF Bindings, Verifications, TypeOK
      <4>4. PICK f \in Ids : verifier[v].finding = {f}
        BY <4>2
      <4>5. verifier'[v] = [verifier[v] EXCEPT !.pc = "bound", !.binding = {<<case, target>>}]
        BY <4>1 DEF TypeOK
      <4>6. verifier'[v].finding = {id} /\ verifier'[v].binding = {<<case, target>>}
            /\ verifier'[v].pc = "bound"
        BY <4>4, <4>5 DEF TypeOK, Verifications
      <4> QED
        BY <4>2, <4>3, <4>4, <4>6
    <3>3. CASE Launch(v) \/ Record(v) \/ \E passed \in BOOLEAN : Replay(v, passed)
      <4>1. /\ verifier[v].pc \in {"bound", "recording", "recorded"}
            /\ verifier'[v].pc \in {"recording", "recorded"} =>
                  verifier[v].pc \in {"recording", "recorded"}
            /\ verifier'[v].run = verifier[v].run
            /\ verifier'[v].finding = verifier[v].finding
            /\ verifier'[v].binding = verifier[v].binding
        <5>1. CASE Launch(v)
          BY <5>1 DEF Launch, TypeOK, Verifications
        <5>2. CASE Record(v)
          BY <5>2 DEF Record, TypeOK, Verifications
        <5>3. CASE \E passed \in BOOLEAN : Replay(v, passed)
          BY <5>3 DEF Replay, TypeOK, Verifications
        <5> QED
          BY <3>3, <5>1, <5>2, <5>3
      <4>2. /\ \E id \in Ids : verifier[v].finding = {id}
            /\ verifier[v].finding \subseteq CurrentIds
            /\ \E b \in Bindings : verifier[v].binding = {b}
        BY <4>1
      <4>3. verifier'[v].pc \in {"recording", "recorded"} => verifier'[v].run # 0
        BY <4>1
      <4> QED
        BY <4>1, <4>2, <4>3, Zenon
    <3>4. CASE \E passed \in BOOLEAN : Finish(v, passed)
      <4>1. PICK passed \in BOOLEAN : Finish(v, passed)
        BY <3>4
      <4>2. clock + 1 # 0 /\ verifier[v] \in Verifications /\ verifier[v].pc = "running"
        BY <4>1 DEF Finish, TypeOK
      <4>3. verifier'[v] = [verifier[v] EXCEPT !.pc = "recording", !.passed = passed,
                                              !.run = clock + 1]
        BY <4>1 DEF Finish, TypeOK
      <4>4. /\ verifier'[v].pc = "recording" /\ verifier'[v].run = clock + 1
            /\ verifier'[v].finding = verifier[v].finding
            /\ verifier'[v].binding = verifier[v].binding
        BY <4>2, <4>3 DEF Verifications
      <4>5. /\ \E id \in Ids : verifier[v].finding = {id}
            /\ verifier[v].finding \subseteq CurrentIds
            /\ \E b \in Bindings : verifier[v].binding = {b}
        BY <4>2
      <4>6. verifier'[v].run # 0
        BY <4>2, <4>4
      <4> QED
        BY <4>4, <4>5, <4>6, Zenon
    <3>5. CASE Exit(v)
      BY <3>5 DEF Exit, TypeOK, Idle
    <3> QED
      BY <1>2, <3>1, <3>2, <3>3, <3>4, <3>5 DEF Verification
  <2> QED
    BY <2>1, <2>2
<1> QED
  BY <1>1, <1>2
  DEF Next, vars, Attach, Promotion, PromoteRead, PromoteCommit, PromoteAbort,
      IndexRefresh, DeleteIndex, Rebuild

LEMMA ClassedStep == TypeOK /\ ClassedInv /\ [Next]_vars => ClassedInv'
<1> SUFFICES ASSUME TypeOK, ClassedInv, [Next]_vars PROVE ClassedInv'
  OBVIOUS
<1>1. CASE UNCHANGED findings
  BY <1>1 DEF ClassedInv
<1>2. CASE IndexRefresh \/ DeleteIndex
  BY <1>2 DEF IndexRefresh, DeleteIndex, NoFindings, ClassedInv
<1>3. ASSUME NEW p \in Promoters, PromoteCommit(p) PROVE ClassedInv'
  <2>1. PICK issues, qualifying :
           /\ issues \in snapshot[p] /\ qualifying \subseteq issues
           /\ findings' = [present |-> TRUE, classed |-> TRUE, ids |-> qualifying, basis |-> issues]
    BY <1>3 DEF PromoteCommit
  <2>2. issues \subseteq CurrentIds
    BY <2>1, ConstantTypes DEF TypeOK
  <2> QED
    BY <2>1, <2>2 DEF ClassedInv
<1> QED
  BY <1>1, <1>2, <1>3
  DEF Next, vars, indexVars, Attach, Verification, Prepare, Bind, Launch, Finish, Replay,
      Record, Exit, Promotion, PromoteRead, PromoteAbort, Rebuild

LEMMA UnimportedStep == TypeOK /\ UnimportedInv /\ [Next]_vars => UnimportedInv'
<1> SUFFICES ASSUME TypeOK, UnimportedInv, [Next]_vars PROVE UnimportedInv'
  OBVIOUS
<1>1. CASE UNCHANGED <<imported, cache, history, evidence, verifier, snapshot>>
  BY <1>1 DEF UnimportedInv
<1>2. CASE Attach
  BY <1>2 DEF Attach, UnimportedInv
<1>3. ASSUME imported, imported' = imported, cache'.kind = "current" PROVE UnimportedInv'
  BY <1>3 DEF UnimportedInv
<1>4. ASSUME NEW v \in Verifiers, Verification(v) PROVE UnimportedInv'
  <2>1. imported /\ imported' = imported
    BY <1>4
    DEF Verification, Prepare, Bind, Launch, Finish, Replay, Record, Exit, UnimportedInv
  <2>2. CASE UNCHANGED cache
    BY <2>1, <2>2 DEF UnimportedInv
  <2>3. CASE cache' # cache
    <3>1. Record(v)
      BY <1>4, <2>3 DEF Verification, Prepare, Bind, Launch, Finish, Replay, Exit
    <3>2. cache'.kind = "current"
      BY <2>3, <3>1 DEF Record, RecordNew, ProjectResult, Projection
    <3> QED
      BY <1>3, <2>1, <3>2
  <2> QED
    BY <2>2, <2>3
<1>5. ASSUME NEW p \in Promoters, Promotion(p) PROVE UnimportedInv'
  <2>1. CASE PromoteRead(p) \/ PromoteAbort(p)
    BY <2>1 DEF PromoteRead, PromoteAbort, UnimportedInv
  <2>2. CASE PromoteCommit(p)
    BY <1>3, <2>2 DEF PromoteCommit, Projection, UnimportedInv
  <2> QED
    BY <1>5, <2>1, <2>2 DEF Promotion
<1>6. CASE DeleteIndex
  BY <1>6 DEF DeleteIndex, AbsentCache, UnimportedInv
<1> QED
  BY <1>1, <1>2, <1>4, <1>5, <1>6 DEF Next, vars, IndexRefresh, Rebuild

\* The import brings in rows without a definition and outcomes without a run.
LEMMA AttachRuns ==
  ASSUME TypeOK, UnimportedInv, Attach
  PROVE  \A id \in Ids : evidence'[id].binding = {} /\ RunsOf(id)' = {}
<1> USE LegacyAssumption DEF Attach
<1>1. /\ history = <<>> /\ cache.kind # "current"
      /\ \A id \in Ids : evidence[id] = NoRow
  BY DEF UnimportedInv
<1>2. CASE cache.kind = "absent"
  BY <1>1, <1>2 DEF RunsOf, NoRow
<1>3. CASE cache = LegacyCache
  <2>1. history' = LegacyHistory
    BY <1>1, <1>3, ConcatEmptySeq DEF LegacyCache
  <2>2. \A id \in Ids : evidence'[id] = LegacyRows[id]
    BY <1>1, <1>3 DEF LegacyCache, Exists
  <2> QED
    BY <2>1, <2>2 DEF RunsOf
<1> QED
  BY <1>1, <1>2, <1>3 DEF UnimportedInv, TypeOK, Caches

\* A record adds the new run to its finding and to no other.
LEMMA RecordRuns ==
  ASSUME TypeOK, NEW id \in Ids, NEW entry \in Records,
         entry.finding = id, entry.run # 0, history' = Append(history, entry)
  PROVE  /\ RunsOf(id)' = RunsOf(id) \cup {Len(history) + 1}
         /\ history'[Len(history) + 1] = entry
         /\ \A other \in Ids \ {id} : RunsOf(other)' = RunsOf(other)
         /\ \A k \in 1 .. Len(history) : history'[k] = history[k]
         /\ RunsOf(id) \subseteq 1 .. Len(history) /\ Len(history) \in Nat
<1>1. /\ Len(history) \in Nat /\ Len(history') = Len(history) + 1
      /\ history'[Len(history) + 1] = entry
      /\ \A k \in 1 .. Len(history) : history'[k] = history[k]
  BY DEF TypeOK
<1>2. 1 .. Len(history') = (1 .. Len(history)) \cup {Len(history) + 1}
  BY <1>1
<1>3. RunsOf(id) \subseteq 1 .. Len(history)
  BY DEF RunsOf
<1>4. RunsOf(id)' = RunsOf(id) \cup {Len(history) + 1}
  BY <1>1, <1>2 DEF RunsOf
<1>5. \A other \in Ids \ {id} : RunsOf(other)' = RunsOf(other)
  BY <1>1, <1>2 DEF RunsOf
<1> QED
  BY <1>1, <1>3, <1>4, <1>5

\* A promotion renames outcomes of older releases only, and no run.
LEMMA PromotionRecords ==
  ASSUME TypeOK, CodesInv, NEW p \in Promoters, PromoteCommit(p)
  PROVE  /\ Len(history) \in Nat /\ Len(history') = Len(history)
         /\ \A k \in 1 .. Len(history) :
               /\ history'[k].run = history[k].run
               /\ history'[k] # history[k] =>
                     /\ history[k].run = 0 /\ history[k].finding \in Ids \ CurrentIds
                     /\ history'[k] = [history[k] EXCEPT !.finding = ErrorId(@[1])]
<1>1. PICK issues, qualifying, survivor : PromotionOf(p, issues, qualifying, survivor)
  BY PromoteChoices
<1>2. /\ Len(history) \in Nat /\ Len(history') = Len(history)
      /\ \A k \in 1 .. Len(history) :
            history[k] \in Records /\ history'[k] = MigratedRecord(history[k], survivor)
  BY <1>1 DEF PromotionOf, TypeOK
<1>3. ASSUME NEW k \in 1 .. Len(history), history'[k] # history[k]
      PROVE  /\ history[k].run = 0 /\ history'[k].run = history[k].run
             /\ history[k].finding \in Ids \ CurrentIds
             /\ history'[k] = [history[k] EXCEPT !.finding = ErrorId(@[1])]
  <2> DEFINE r == history[k]
  <2>1. /\ r.finding \in Rekeyed(r.finding[1])
        /\ history'[k] = [r EXCEPT !.finding = ErrorId(r.finding[1])]
    BY <1>2, <1>3 DEF MigratedRecord
  <2>2. r \in Records /\ history'[k].run = r.run
    BY <1>2, <2>1 DEF Records
  <2>3. r.finding # ErrorId(r.finding[1])
    BY <1>3, <2>1, <2>2 DEF Records
  <2>4. r.finding \in Ids \ CurrentIds
    BY <2>1, <2>3 DEF Rekeyed, CurrentIds, Ids, ErrorId, SemanticId
  <2>5. r.run = 0
    BY <2>4 DEF CodesInv, RunsOf
  <2> QED
    BY <2>1, <2>2, <2>4, <2>5
<1> QED
  BY <1>2, <1>3

\* A promotion renames no recorded run, and a row that is bound to a definition
\* after it was there before, under the same id.
LEMMA PromotionRuns ==
  ASSUME TypeOK, CodesInv, NEW p \in Promoters, PromoteCommit(p)
  PROVE  \A id \in Ids :
            /\ RunsOf(id)' = RunsOf(id)
            /\ \A k \in RunsOf(id) : history'[k] = history[k]
            /\ evidence'[id].binding # {} => evidence'[id] = evidence[id]
<1>1. PICK issues, qualifying, survivor : PromotionOf(p, issues, qualifying, survivor)
  BY PromoteChoices
<1>2. /\ Len(history) \in Nat /\ Len(history') = Len(history)
      /\ \A k \in 1 .. Len(history) :
            /\ history[k].run # 0 => history'[k] = history[k]
            /\ history'[k].run = history[k].run
  BY PromotionRecords
<1>3. ASSUME NEW id \in Ids, evidence'[id].binding # {}
      PROVE  evidence'[id] = evidence[id]
  <2>1. evidence'[id] = MigratedRow(id, survivor)
    BY <1>1, <1>3 DEF PromotionOf, FreshRow
  <2>2. CASE id \in DOMAIN survivor
    <3>1. /\ survivor[id] \in Rekeyed(id[1]) /\ id[2] = "error"
          /\ evidence'[id] = evidence[survivor[id]]
      BY <1>1, <2>1, <2>2 DEF PromotionOf, MigratedRow, Latest
    <3>2. survivor[id] \in CurrentIds
      BY <1>3, <3>1 DEF CodesInv, Rekeyed
    <3>3. survivor[id] = id
      BY <3>1, <3>2 DEF Rekeyed, CurrentIds, Ids, SemanticId
    <3> QED
      BY <3>1, <3>3
  <2>3. CASE id \notin DOMAIN survivor
    BY <1>3, <2>1, <2>3 DEF MigratedRow, NoRow
  <2> QED
    BY <2>2, <2>3
<1> QED
  BY <1>2, <1>3 DEF RunsOf

LEMMA CodesStep == IInv /\ [Next]_vars => CodesInv'
<1> SUFFICES ASSUME IInv, [Next]_vars PROVE CodesInv'
  OBVIOUS
<1> USE DEF IInv
<1>1. CASE UNCHANGED <<evidence, history>>
  BY <1>1 DEF CodesInv, RunsOf
<1>2. CASE Attach
  BY <1>2, AttachRuns DEF CodesInv
<1>3. ASSUME NEW v \in Verifiers, Record(v) PROVE CodesInv'
  <2>1. CASE UNCHANGED <<evidence, history>>
    BY <1>1, <2>1
  <2>2. CASE ~UNCHANGED <<evidence, history>>
    <3>1. PICK id \in CurrentIds :
             /\ EntryOf(v, id) \in Records /\ verifier[v].run # 0
             /\ \A other \in Ids \ {id} : evidence'[other] = evidence[other]
             /\ history' = Append(history, EntryOf(v, id))
      BY <1>3, <2>2, RecordCases DEF TypeOK
    <3>2. \A other \in Ids \ {id} : RunsOf(other)' = RunsOf(other)
      BY <3>1, RecordRuns, ConstantTypes DEF EntryOf
    <3> QED
      BY <3>1, <3>2 DEF CodesInv
  <2> QED
    BY <2>1, <2>2
<1>4. ASSUME NEW p \in Promoters, PromoteCommit(p) PROVE CodesInv'
  BY <1>4, PromotionRuns DEF CodesInv
<1> QED
  BY <1>1, <1>2, <1>3, <1>4
  DEF Next, vars, Verification, Prepare, Bind, Launch, Finish, Replay, Exit, Promotion,
      PromoteRead, PromoteAbort, IndexRefresh, DeleteIndex, Rebuild

\* StreakInv for one finding.
Backed(id) ==
    /\ evidence[id].state = "closed" => evidence[id].passes >= 3
    /\ evidence[id].passes >= 1 => \E k \in RunsOf(id) : GreenSince(id, k)
    /\ evidence[id].passes >= 2 => \E j, k \in RunsOf(id) : j < k /\ GreenSince(id, j)
    /\ evidence[id].passes >= 3 =>
          \E i, j, k \in RunsOf(id) : i < j /\ j < k /\ GreenSince(id, i)

\* A finding whose runs and whose row stay as they are stays backed.
LEMMA BackedUnchanged ==
  ASSUME NEW id \in Ids, Backed(id), evidence'[id] = evidence[id],
         RunsOf(id)' = RunsOf(id), \A k \in RunsOf(id) : history'[k] = history[k]
  PROVE  Backed(id)'
<1>1. \A k \in RunsOf(id) : GreenSince(id, k) => GreenSince(id, k)'
  BY DEF GreenSince
<1> QED
  BY <1>1 DEF Backed

\* The recorded finding is backed by its new run and, where the streak goes on,
\* by the runs that backed it before.
LEMMA BackedRecord ==
  ASSUME TypeOK, NEW id \in Ids, NEW b \in Bindings, NEW entry \in Records,
         evidence[id] \in Rows, entry.binding = {b}, entry.finding = id, entry.run # 0,
         evidence[id].binding # {} => Backed(id),
         history' = Append(history, entry),
         evidence' = [evidence EXCEPT ![id] =
             [state |-> StateAfter(evidence[id], b, entry.passed),
              passes |-> Streak(evidence[id], b, entry.passed),
              binding |-> {b}, updated |-> entry.run]]
  PROVE  Backed(id)'
<1> DEFINE row == evidence[id]
<1>0. PICK n : n = Len(history) + 1
  OBVIOUS
<1>1. /\ RunsOf(id)' = RunsOf(id) \cup {n} /\ history'[n] = entry
      /\ \A k \in 1 .. Len(history) : history'[k] = history[k]
      /\ RunsOf(id) \subseteq 1 .. Len(history) /\ Len(history) \in Nat
  BY <1>0, RecordRuns
<1>2. /\ evidence'[id].state = StateAfter(row, b, entry.passed)
      /\ evidence'[id].passes = Streak(row, b, entry.passed)
      /\ evidence'[id].binding = {b}
  BY DEF TypeOK
<1>3. row.passes \in Nat /\ entry.passed \in BOOLEAN
  BY DEF Rows, Records
<1>4. CASE ~entry.passed
  <2>1. evidence'[id].passes = 0 /\ evidence'[id].state # "closed"
    BY <1>2, <1>4 DEF Streak, StateAfter
  <2> QED
    BY <2>1 DEF Backed
<1>5. CASE entry.passed
  <2>1. evidence'[id].state = "closed" => evidence'[id].passes >= 3
    <3>1. ~(Streak(row, b, entry.passed) >= 3) =>
             StateAfter(row, b, entry.passed) = "verifying"
      BY <1>5 DEF StateAfter
    <3> QED
      BY <1>2, <3>1
  <2>2. GreenSince(id, n)'
    <3>1. \A r \in RunsOf(id)' : r >= n => r = n
      BY <1>0, <1>1
    <3>2. history'[n].passed /\ history'[n].binding = evidence'[id].binding
      BY <1>1, <1>2, <1>5
    <3> QED
      BY <3>1, <3>2, Zenon DEF GreenSince
  <2>3. ASSUME evidence'[id].passes >= 2
        PROVE  /\ Backed(id) /\ row.binding = {b}
               /\ row.passes >= 1
               /\ evidence'[id].passes >= 3 => row.passes >= 2
    <3>1. MaxPasses \in Nat /\ MaxPasses >= 3
      BY ConstantsAssumption
    <3>2. row.binding = {b}
      BY <1>2, <1>5, <2>3 DEF Streak, Same
    <3>3. evidence'[id].passes = IF row.passes < MaxPasses THEN row.passes + 1 ELSE MaxPasses
      BY <1>2, <1>5, <3>2 DEF Streak, Same
    <3>4. Backed(id)
      BY <3>2
    <3> HIDE DEF row
    <3>5. row.passes >= 1 /\ (evidence'[id].passes >= 3 => row.passes >= 2)
      BY <1>3, <2>3, <3>1, <3>3
    <3> QED
      BY <3>2, <3>4, <3>5
  <2>4. ASSUME row.binding = {b}, NEW k \in RunsOf(id), GreenSince(id, k)
        PROVE  GreenSince(id, k)'
    BY <1>0, <1>1, <1>2, <1>5, <2>4, ZenonT(30) DEF GreenSince
  <2>5. ASSUME evidence'[id].passes >= 2
        PROVE  \E j, k \in RunsOf(id)' : j < k /\ GreenSince(id, j)'
    <3>1. PICK j \in RunsOf(id) : GreenSince(id, j)
      BY <2>3, <2>5 DEF Backed
    <3>2. j \in RunsOf(id)' /\ n \in RunsOf(id)' /\ j < n /\ GreenSince(id, j)'
      BY <1>0, <1>1, <2>3, <2>4, <2>5, <3>1
    <3> QED
      BY <3>2
  <2>6. ASSUME evidence'[id].passes >= 3
        PROVE  \E i, j, k \in RunsOf(id)' : i < j /\ j < k /\ GreenSince(id, i)'
    <3>1. evidence'[id].passes >= 2
      BY <1>2, <1>3, <2>6, ConstantsAssumption DEF Streak
    <3>2. PICK i, j \in RunsOf(id) : i < j /\ GreenSince(id, i)
      BY <2>3, <2>6, <3>1 DEF Backed
    <3>3. /\ i \in RunsOf(id)' /\ j \in RunsOf(id)' /\ n \in RunsOf(id)'
          /\ j < n /\ GreenSince(id, i)'
      BY <1>0, <1>1, <2>3, <2>4, <3>1, <3>2
    <3> QED
      BY <3>2, <3>3
  <2>7. \E k \in RunsOf(id)' : GreenSince(id, k)'
    BY <1>1, <2>2
  <2> QED
    BY <2>1, <2>5, <2>6, <2>7, Zenon DEF Backed
<1> QED
  BY <1>3, <1>4, <1>5

LEMMA StreakStep == IInv /\ [Next]_vars => StreakInv'
<1> SUFFICES ASSUME IInv, [Next]_vars PROVE StreakInv'
  OBVIOUS
<1> USE DEF IInv
<1>1. SUFFICES ASSUME NEW f \in Ids, evidence'[f].binding # {} PROVE Backed(f)'
  BY DEF StreakInv, Backed
<1>2. evidence[f].binding # {} => Backed(f)
  BY DEF StreakInv, Backed
<1>3. CASE UNCHANGED <<evidence, history>>
  BY <1>1, <1>2, <1>3, BackedUnchanged DEF RunsOf
<1>4. CASE Attach
  BY <1>1, <1>4, AttachRuns
<1>5. ASSUME NEW v \in Verifiers, Record(v) PROVE Backed(f)'
  <2>1. CASE UNCHANGED <<evidence, history>>
    BY <1>3, <2>1
  <2>2. CASE ~UNCHANGED <<evidence, history>>
    <3>1. PICK id \in CurrentIds, b \in Bindings :
             /\ evidence[id] \in Rows
             /\ EntryOf(v, id) \in Records
             /\ verifier[v].binding = {b}
             /\ verifier[v].run # 0
             /\ evidence' = [evidence EXCEPT ![id] =
                   [state |-> StateAfter(evidence[id], b, verifier[v].passed),
                    passes |-> Streak(evidence[id], b, verifier[v].passed),
                    binding |-> {b}, updated |-> verifier[v].run]]
             /\ history' = Append(history, EntryOf(v, id))
      BY <1>5, <2>2, RecordCases
    <3>2. /\ id \in Ids /\ EntryOf(v, id).finding = id /\ EntryOf(v, id).run # 0
          /\ EntryOf(v, id).binding = {b} /\ EntryOf(v, id).passed = verifier[v].passed
          /\ EntryOf(v, id).run = verifier[v].run
      BY <3>1, ConstantTypes DEF EntryOf
    <3>3. CASE f = id
      BY <1>2, <3>1, <3>2, <3>3, BackedRecord
    <3>4. CASE f # id
      <4>1. evidence'[f] = evidence[f]
        BY <3>1, <3>4 DEF TypeOK
      <4>2. RunsOf(f)' = RunsOf(f) /\ \A k \in RunsOf(f) : history'[k] = history[k]
        BY <3>1, <3>2, <3>4, RecordRuns DEF RunsOf
      <4> QED
        BY <1>1, <1>2, <4>1, <4>2, BackedUnchanged
    <3> QED
      BY <3>3, <3>4
  <2> QED
    BY <2>1, <2>2
<1>6. ASSUME NEW p \in Promoters, PromoteCommit(p) PROVE Backed(f)'
  <2>1. /\ RunsOf(f)' = RunsOf(f) /\ \A k \in RunsOf(f) : history'[k] = history[k]
        /\ evidence'[f] = evidence[f]
    BY <1>1, <1>6, PromotionRuns
  <2> QED
    BY <1>1, <1>2, <2>1, BackedUnchanged
<1> QED
  BY <1>3, <1>4, <1>5, <1>6
  DEF Next, vars, Verification, Prepare, Bind, Launch, Finish, Replay, Exit, Promotion,
      PromoteRead, PromoteAbort, IndexRefresh, DeleteIndex, Rebuild

-----------------------------------------------------------------------------
(* What the history holds.                                                  *)

\* How a step changes the history: an import fills it, a record adds its run,
\* and a promotion renames outcomes of older releases.
LEMMA HistorySteps ==
  ASSUME IInv, [Next]_vars, ~UNCHANGED history
  PROVE  \/ history = <<>> /\ history' = LegacyHistory /\ clock' = clock
         \/ \E v \in Verifiers :
               /\ Record(v) /\ verifier[v].run # 0 /\ RunsNamed(verifier[v].run) = {}
               /\ \E id \in Ids :
                     EntryOf(v, id) \in Records /\ history' = Append(history, EntryOf(v, id))
         \/ \E p \in Promoters : PromoteCommit(p)
<1> USE DEF IInv
<1>1. CASE Attach
  <2>1. history = <<>> /\ cache = LegacyCache
    BY <1>1 DEF Attach, UnimportedInv, TypeOK, Caches
  <2>2. history' = history \o LegacyHistory /\ clock' = clock
    BY <1>1, <2>1 DEF Attach, LegacyCache
  <2> QED
    BY <2>1, <2>2, LegacyAssumption, ConcatEmptySeq
<1>2. ASSUME NEW v \in Verifiers, Record(v)
      PROVE  /\ verifier[v].run # 0 /\ RunsNamed(verifier[v].run) = {}
             /\ \E id \in Ids :
                   EntryOf(v, id) \in Records /\ history' = Append(history, EntryOf(v, id))
  BY <1>2, RecordCases, ConstantTypes
<1> QED
  BY <1>1, <1>2
  DEF Next, vars, Verification, Prepare, Bind, Launch, Finish, Replay, Exit, Promotion,
      PromoteRead, PromoteAbort, IndexRefresh, DeleteIndex, Rebuild

\* The history is appended to only by records, whose entry is its last.
LEMMA Appended ==
  ASSUME TypeOK, NEW entry, history' = Append(history, entry)
  PROVE  /\ Len(history) \in Nat /\ Len(history') = Len(history) + 1
         /\ history'[Len(history) + 1] = entry
         /\ \A k \in 1 .. Len(history) : history'[k] = history[k]
         /\ 1 .. Len(history') = (1 .. Len(history)) \cup {Len(history) + 1}
<1>1. /\ Len(history) \in Nat /\ Len(history') = Len(history) + 1
      /\ history'[Len(history) + 1] = entry
      /\ \A k \in 1 .. Len(history) : history'[k] = history[k]
  BY DEF TypeOK
<1> QED
  BY <1>1

\* Outcomes without a run are the first ones, as many as were imported.
LegacyFirst == \A k \in 1 .. Len(history) : history[k].run = 0 => k <= Len(LegacyHistory)

LEMMA LegacyFirstStep == IInv /\ LegacyFirst /\ [Next]_vars => LegacyFirst'
<1> SUFFICES ASSUME IInv, LegacyFirst, [Next]_vars PROVE LegacyFirst'
  OBVIOUS
<1>0. TypeOK /\ CodesInv
  BY DEF IInv
<1>1. CASE UNCHANGED history
  BY <1>1 DEF LegacyFirst
<1>2. CASE history' = LegacyHistory
  BY <1>2, LegacyAssumption DEF LegacyFirst
<1>3. ASSUME NEW v \in Verifiers, NEW id \in Ids, verifier[v].run # 0,
             history' = Append(history, EntryOf(v, id))
      PROVE  LegacyFirst'
  BY <1>0, <1>3, Appended DEF LegacyFirst, EntryOf
<1>4. ASSUME NEW p \in Promoters, PromoteCommit(p) PROVE LegacyFirst'
  BY <1>0, <1>4, PromotionRecords DEF LegacyFirst
<1> QED
  BY <1>1, <1>2, <1>3, <1>4, HistorySteps

\* Run ids are handed out in order, so there are only so many.
RunsCounted ==
    /\ \A v \in Verifiers : verifier[v].run <= clock
    /\ \A k \in 1 .. Len(history) : history[k].run <= clock

LEMMA RunsCountedStep == IInv /\ RunsCounted /\ [Next]_vars => RunsCounted'
<1> SUFFICES ASSUME IInv, RunsCounted, [Next]_vars PROVE RunsCounted'
  OBVIOUS
<1>0. TypeOK /\ clock \in Nat /\ Len(history) \in Nat /\ verifier \in [Verifiers -> Verifications]
  BY DEF IInv, TypeOK
<1>a. \A v \in Verifiers : verifier[v].run \in Nat /\ verifier[v].run <= clock
  BY <1>0 DEF Verifications, RunsCounted
<1>b. \A k \in 1 .. Len(history) : history[k].run \in Nat /\ history[k].run <= clock
  <2>1. \A k \in 1 .. Len(history) : history[k] \in Records
    BY <1>0 DEF TypeOK
  <2>2. \A k \in 1 .. Len(history) : history[k].run \in Nat
    BY <2>1 DEF Records
  <2> QED
    BY <2>2 DEF RunsCounted
<1>1. clock' \in Nat /\ clock <= clock' /\ \A v \in Verifiers : verifier'[v].run <= clock'
  <2>1. CASE UNCHANGED <<verifier, clock>>
    BY <1>0, <1>a, <2>1
  <2>2. ASSUME NEW v \in Verifiers, Verification(v)
        PROVE  clock' \in Nat /\ clock <= clock' /\ \A w \in Verifiers : verifier'[w].run <= clock'
    <3>1. ASSUME NEW passed \in BOOLEAN, Finish(v, passed)
          PROVE  /\ clock' = clock + 1 /\ verifier'[v].run = clock + 1
                 /\ \A w \in Verifiers \ {v} : verifier'[w] = verifier[w]
      BY <1>0, <3>1 DEF Finish, Verifications
    <3>2. ASSUME ~\E passed \in BOOLEAN : Finish(v, passed)
          PROVE  /\ clock' = clock /\ verifier'[v].run \in {0, verifier[v].run}
                 /\ \A w \in Verifiers \ {v} : verifier'[w] = verifier[w]
      <4>1. CASE \E id \in Ids, case \in Cases : Prepare(v, id, case)
        BY <1>0, <4>1 DEF Prepare, Idle
      <4>2. CASE Bind(v) \/ Launch(v) \/ Record(v)
        BY <1>0, <4>2, ZenonT(30) DEF Bind, Launch, Record, Verifications
      <4>3. CASE \E passed \in BOOLEAN : Replay(v, passed)
        BY <1>0, <4>3 DEF Replay, Verifications
      <4>4. CASE Exit(v)
        BY <1>0, <4>4 DEF Exit, Idle
      <4> QED
        BY <2>2, <3>2, <4>1, <4>2, <4>3, <4>4 DEF Verification
    <3>3. CASE \E passed \in BOOLEAN : Finish(v, passed)
      BY <1>0, <1>a, <3>1, <3>3
    <3>4. CASE ~\E passed \in BOOLEAN : Finish(v, passed)
      BY <1>0, <1>a, <3>2, <3>4
    <3> QED
      BY <3>3, <3>4
  <2> QED
    BY <2>1, <2>2
    DEF Next, vars, Attach, Promotion, PromoteRead, PromoteCommit, PromoteAbort, IndexRefresh,
        DeleteIndex, Rebuild
<1>2. CASE UNCHANGED history
  <2>1. \A k \in 1 .. Len(history) : history[k].run <= clock'
    BY <1>0, <1>1, <1>b
  <2> QED
    BY <1>1, <1>2, <2>1 DEF RunsCounted
<1>3. CASE history' = LegacyHistory
  BY <1>0, <1>1, <1>3, LegacyAssumption DEF RunsCounted
<1>4. ASSUME NEW v \in Verifiers, NEW id \in Ids, Record(v),
             history' = Append(history, EntryOf(v, id))
      PROVE  RunsCounted'
  <2>1. /\ verifier[v].run <= clock'
        /\ \A k \in 1 .. Len(history) : history[k].run <= clock'
    BY <1>0, <1>1, <1>a, <1>b
  <2>2. EntryOf(v, id).run = verifier[v].run
    BY DEF EntryOf
  <2>3. ASSUME NEW k \in 1 .. Len(history') PROVE history'[k].run <= clock'
    <3>1. CASE k \in 1 .. Len(history)
      BY <1>0, <1>4, <2>1, <3>1, Appended
    <3>2. CASE k = Len(history) + 1
      BY <1>0, <1>4, <2>1, <2>2, <3>2, Appended
    <3> QED
      BY <1>0, <1>4, <3>1, <3>2, Appended
  <2> QED
    BY <1>1, <2>3 DEF RunsCounted
<1>5. ASSUME NEW p \in Promoters, PromoteCommit(p) PROVE RunsCounted'
  <2>1. CodesInv
    BY DEF IInv
  <2>2. Len(history') = Len(history) /\ \A k \in 1 .. Len(history) : history'[k].run = history[k].run
    BY <1>0, <1>5, <2>1, PromotionRecords
  <2>3. \A k \in 1 .. Len(history) : history[k].run <= clock'
    BY <1>0, <1>1, <1>b
  <2> QED
    BY <1>1, <2>2, <2>3 DEF RunsCounted
<1> QED
  BY <1>2, <1>3, <1>4, <1>5, HistorySteps

\* No step loses an outcome, and a promotion renames only those of older
\* releases, to the error finding of their group.
LEMMA RetainedStep ==
  ASSUME IInv, [Next]_vars, NEW k \in 1 .. Len(history)
  PROVE  /\ k <= Len(history')
         /\ history'[k] # history[k] =>
               /\ history[k].run = 0 /\ history[k].finding[2] \in Codes
               /\ history'[k] = [history[k] EXCEPT !.finding = ErrorId(@[1])]
<1>0. TypeOK /\ CodesInv /\ Len(history) \in Nat
  BY DEF IInv, TypeOK
<1>1. CASE UNCHANGED history
  BY <1>0, <1>1
<1>2. CASE history = <<>>
  BY <1>2
<1>3. ASSUME NEW v \in Verifiers, NEW id \in Ids, history' = Append(history, EntryOf(v, id))
      PROVE  k <= Len(history') /\ history'[k] = history[k]
  BY <1>0, <1>3, Appended
<1>4. ASSUME NEW p \in Promoters, PromoteCommit(p)
      PROVE  /\ k <= Len(history')
             /\ history'[k] # history[k] =>
                   /\ history[k].run = 0 /\ history[k].finding[2] \in Codes
                   /\ history'[k] = [history[k] EXCEPT !.finding = ErrorId(@[1])]
  <2>1. \A id \in Ids \ CurrentIds : id[2] \in Codes
    BY DEF Ids, CurrentIds
  <2> QED
    BY <1>0, <1>4, <2>1, PromotionRecords
<1> QED
  BY <1>1, <1>2, <1>3, <1>4, HistorySteps

-----------------------------------------------------------------------------
(* The bytes a run is evidence about.                                       *)

\* A target is only ever rebuilt to newer bytes, so a run whose bound bytes are
\* still on disk after it was executed from them.
BytesInv ==
    /\ EvidenceRanOnBoundBytes
    /\ \A v \in Verifiers : \A b \in verifier[v].binding :
          /\ verifier[v].pc \in {"bound", "running"} => b[2] <= target
          /\ verifier[v].pc = "running" => b[2] <= verifier[v].on /\ verifier[v].on <= target
          /\ verifier[v].pc \in {"recording", "recorded"} => b[2] = verifier[v].on

\* What BytesInv says of one verification.
BytesOf(v) ==
    \A b \in verifier[v].binding :
        /\ verifier[v].pc \in {"bound", "running"} => b[2] <= target
        /\ verifier[v].pc = "running" => b[2] <= verifier[v].on /\ verifier[v].on <= target
        /\ verifier[v].pc \in {"recording", "recorded"} => b[2] = verifier[v].on

LEMMA BytesVerification ==
  ASSUME IInv, NEW v \in Verifiers, Verification(v), \A w \in Verifiers : BytesOf(w)
  PROVE  \A w \in Verifiers : BytesOf(w)'
<1>0. TypeOK /\ verifier \in [Verifiers -> Verifications] /\ target \in Nat
  BY DEF IInv, TypeOK, Bytes
<1>1. target' = target /\ \A w \in Verifiers \ {v} : verifier'[w] = verifier[w]
  BY <1>0 DEF Verification, Prepare, Bind, Launch, Finish, Replay, Record, Exit
<1>2. \A w \in Verifiers \ {v} : BytesOf(w)'
  BY <1>1 DEF BytesOf
<1>3. /\ verifier[v].on \in Nat
      /\ \A b \in verifier[v].binding : b[2] \in Nat
  BY <1>0 DEF Verifications, Bindings, Bytes
<1>4. CASE \E id \in Ids, case \in Cases : Prepare(v, id, case)
  <2>1. verifier'[v].binding = {}
    BY <1>0, <1>4 DEF Prepare, Idle
  <2> QED
    BY <2>1, <1>2 DEF BytesOf
<1>5. CASE Exit(v)
  <2>1. verifier'[v].binding = {}
    BY <1>0, <1>5 DEF Exit, Idle
  <2> QED
    BY <2>1, <1>2 DEF BytesOf
<1>6. CASE Bind(v)
  <2>1. verifier'[v].pc = "bound" /\ \E case \in Cases : verifier'[v].binding = {<<case, target>>}
    BY <1>0, <1>6 DEF Bind, Verifications
  <2> QED
    BY <1>0, <1>1, <1>2, <2>1 DEF BytesOf
<1>7. CASE Launch(v)
  <2>1. /\ verifier[v].pc = "bound" /\ verifier'[v].pc = "running"
        /\ verifier'[v].on = target /\ verifier'[v].binding = verifier[v].binding
    BY <1>0, <1>7 DEF Launch, Verifications
  <2> QED
    BY <1>0, <1>1, <1>2, <2>1 DEF BytesOf
<1>8. CASE \E passed \in BOOLEAN : Finish(v, passed)
  <2>1. /\ verifier[v].pc = "running" /\ verifier'[v].pc = "recording"
        /\ verifier'[v].on = verifier[v].on /\ verifier'[v].binding = verifier[v].binding
        /\ \A b \in verifier[v].binding : b[2] = target
    BY <1>0, <1>8 DEF Finish, BytesUnchanged, Verifications
  <2> QED
    BY <1>0, <1>2, <1>3, <2>1 DEF BytesOf
<1>9. CASE Record(v) \/ \E passed \in BOOLEAN : Replay(v, passed)
  <2>1. /\ verifier[v].pc \in {"recording", "recorded"}
        /\ verifier'[v].pc \in {"recording", "recorded"}
        /\ verifier'[v].on = verifier[v].on /\ verifier'[v].binding = verifier[v].binding
    BY <1>0, <1>9, ZenonT(30) DEF Record, Replay, Verifications
  <2> QED
    BY <1>2, <2>1 DEF BytesOf
<1> QED
  BY <1>4, <1>5, <1>6, <1>7, <1>8, <1>9 DEF Verification

LEMMA BytesHistory ==
  ASSUME IInv, BytesInv, [Next]_vars
  PROVE  EvidenceRanOnBoundBytes'
<1>0. TypeOK /\ CodesInv /\ Len(history) \in Nat
  BY DEF IInv, TypeOK
<1>1. CASE UNCHANGED history
  BY <1>1 DEF BytesInv, EvidenceRanOnBoundBytes
<1>2. CASE history' = LegacyHistory
  BY <1>2, LegacyAssumption DEF EvidenceRanOnBoundBytes
<1>3. ASSUME NEW v \in Verifiers, NEW id \in Ids, Record(v),
             history' = Append(history, EntryOf(v, id))
      PROVE  EvidenceRanOnBoundBytes'
  <2>1. \A b \in EntryOf(v, id).binding : b[2] = EntryOf(v, id).on
    BY <1>3 DEF BytesInv, Record, EntryOf
  <2>2. ASSUME NEW k \in 1 .. Len(history'), history'[k].run # 0
        PROVE  \A b \in history'[k].binding : b[2] = history'[k].on
    <3>1. CASE k \in 1 .. Len(history)
      BY <1>0, <1>3, <2>2, <3>1, Appended DEF BytesInv, EvidenceRanOnBoundBytes
    <3>2. CASE k = Len(history) + 1
      BY <1>0, <1>3, <2>1, <3>2, Appended
    <3> QED
      BY <1>0, <1>3, <3>1, <3>2, Appended
  <2> QED
    BY <2>2 DEF EvidenceRanOnBoundBytes
<1>4. ASSUME NEW p \in Promoters, PromoteCommit(p) PROVE EvidenceRanOnBoundBytes'
  <2>1. /\ Len(history') = Len(history)
        /\ \A k \in 1 .. Len(history) : history'[k].run # 0 => history'[k] = history[k]
    BY <1>0, <1>4, PromotionRecords
  <2> QED
    BY <2>1 DEF BytesInv, EvidenceRanOnBoundBytes
<1> QED
  BY <1>1, <1>2, <1>3, <1>4, HistorySteps

LEMMA BytesStep == IInv /\ BytesInv /\ [Next]_vars => BytesInv'
<1> SUFFICES ASSUME IInv, BytesInv, [Next]_vars PROVE BytesInv'
  OBVIOUS
<1>1. EvidenceRanOnBoundBytes'
  BY BytesHistory
<1>2. \A w \in Verifiers : BytesOf(w)
  BY DEF BytesInv, BytesOf
<1>3. \A w \in Verifiers : BytesOf(w)'
  <2>1. ASSUME NEW v \in Verifiers, Verification(v) PROVE \A w \in Verifiers : BytesOf(w)'
    BY <1>2, <2>1, BytesVerification
  <2>2. CASE UNCHANGED <<verifier, target>>
    BY <1>2, <2>2 DEF BytesOf
  <2>3. CASE Rebuild
    <3>1. /\ verifier \in [Verifiers -> Verifications] /\ target \in Nat /\ target' \in Nat
          /\ target < target' /\ verifier' = verifier
      BY <2>3 DEF Rebuild, IInv, TypeOK, Bytes
    <3>2. \A w \in Verifiers : /\ verifier[w].on \in Nat
                               /\ \A b \in verifier[w].binding : b[2] \in Nat
      BY <3>1 DEF Verifications, Bindings, Bytes
    <3> QED
      BY <1>2, <3>1, <3>2 DEF BytesOf
  <2> QED
    BY <2>1, <2>2, <2>3
    DEF Next, vars, Attach, Promotion, PromoteRead, PromoteCommit, PromoteAbort, IndexRefresh,
        DeleteIndex
<1> QED
  BY <1>1, <1>3 DEF BytesInv, BytesOf

-----------------------------------------------------------------------------
(* The projection in index.db.                                              *)

LEMMA CacheStep == IInv /\ CacheAgrees /\ [Next]_vars => CacheAgrees'
<1> SUFFICES ASSUME IInv, CacheAgrees, [Next]_vars PROVE CacheAgrees'
  OBVIOUS
<1>0. TypeOK /\ VerifierInv /\ UnimportedInv
  BY DEF IInv
<1>1. CASE UNCHANGED <<evidence, history, cache>>
  BY <1>1 DEF CacheAgrees
<1>2. CASE Attach
  BY <1>0, <1>2 DEF Attach, UnimportedInv, CacheAgrees
<1>3. ASSUME NEW v \in Verifiers, Record(v) PROVE CacheAgrees'
  <2>1. CASE UNCHANGED <<evidence, history, cache>>
    BY <1>1, <2>1
  <2>2. ASSUME NEW id \in CurrentIds, NEW row,
               EntryOf(v, id) \in Records, RunsNamed(verifier[v].run) = {},
               evidence' = [evidence EXCEPT ![id] = row],
               history' = Append(history, EntryOf(v, id)),
               cache' = ProjectResult(id, verifier[v].run, evidence', history')
        PROVE  CacheAgrees'
    <3>1. CASE cache.kind # "current"
      BY <2>2, <3>1 DEF ProjectResult, Projection, CacheAgrees
    <3>2. CASE cache.kind = "current"
      <4>1. cache.rows = evidence /\ cache.log = history
        BY <3>2 DEF CacheAgrees
      <4>2. [cache.rows EXCEPT ![id] = evidence'[id]] = evidence'
        BY <1>0, <2>2, <4>1, ConstantTypes DEF TypeOK
      <4>3. \A k \in 1 .. Len(history') : history'[k].run = verifier[v].run <=> k = Len(history) + 1
        BY <1>0, <2>2, Appended DEF RunsNamed, EntryOf
      <4>4. /\ Len(history) + 1 \in 1 .. Len(history')
            /\ history'[Len(history) + 1] = EntryOf(v, id)
        BY <1>0, <2>2, Appended
      <4>5. RowOfRun(history', verifier[v].run) = EntryOf(v, id)
        BY <4>3, <4>4 DEF RowOfRun
      <4> QED
        BY <2>2, <3>2, <4>1, <4>2, <4>5 DEF ProjectResult, Projection, CacheAgrees
    <3> QED
      BY <3>1, <3>2
  <2> QED
    BY <1>0, <1>3, <2>1, <2>2, RecordCases
<1>4. ASSUME NEW p \in Promoters, PromoteCommit(p) PROVE CacheAgrees'
  BY <1>4 DEF PromoteCommit, Projection, CacheAgrees
<1>5. CASE DeleteIndex
  BY <1>5 DEF DeleteIndex, AbsentCache, CacheAgrees
<1> QED
  BY <1>1, <1>2, <1>3, <1>4, <1>5
  DEF Next, vars, Verification, Prepare, Bind, Launch, Finish, Replay, Exit, Promotion,
      PromoteRead, PromoteAbort, IndexRefresh, Rebuild

-----------------------------------------------------------------------------
(* Pass credit.                                                             *)

\* The green runs recorded for a finding and the definition it is bound to.
Credited(id) ==
    {history[k].run : k \in {r \in RunsOf(id) :
        history[r].passed /\ history[r].binding = evidence[id].binding}}

\* Run ids are bounded by the clock, so there are finitely many green runs.
LEMMA CreditedFinite ==
  ASSUME TypeOK, RunsCounted, NEW id \in Ids
  PROVE  IsFiniteSet(Credited(id)) /\ Cardinality(Credited(id)) \in Nat
<1>1. clock \in Nat /\ \A k \in 1 .. Len(history) : history[k] \in Records
  BY DEF TypeOK
<1>2. \A k \in RunsOf(id) : history[k].run \in Nat /\ history[k].run <= clock
  BY <1>1 DEF RunsOf, RunsCounted, Records
<1>3. Credited(id) \in SUBSET Nat /\ \A run \in Credited(id) : run <= clock
  BY <1>2 DEF Credited
<1>4. IsFiniteSet(Credited(id))
  BY <1>1, <1>3, FS_BoundedSetOfNaturals
<1> QED
  BY <1>4, FS_CardinalityType

LEMMA CreditUnchanged ==
  ASSUME NEW id \in Ids, evidence'[id] = evidence[id],
         RunsOf(id)' = RunsOf(id), \A k \in RunsOf(id) : history'[k] = history[k]
  PROVE  Credited(id)' = Credited(id)
  BY DEF Credited

\* A green run adds itself to the runs of its definition, once.
LEMMA CreditRecord ==
  ASSUME TypeOK, RunsCounted, NEW id \in Ids, NEW b \in Bindings, NEW entry \in Records,
         evidence[id] \in Rows, entry.binding = {b}, entry.finding = id, entry.run # 0,
         RunsNamed(entry.run) = {},
         evidence[id].binding # {} => evidence[id].passes <= Cardinality(Credited(id)),
         history' = Append(history, entry),
         evidence' = [evidence EXCEPT ![id] =
             [state |-> StateAfter(evidence[id], b, entry.passed),
              passes |-> Streak(evidence[id], b, entry.passed),
              binding |-> {b}, updated |-> entry.run]]
  PROVE  evidence'[id].passes <= Cardinality(Credited(id)')
<1> DEFINE row == evidence[id]
           kept == {history[k].run : k \in {r \in RunsOf(id) :
                       history[r].passed /\ history[r].binding = {b}}}
<1>1. PICK n : n = Len(history) + 1
  OBVIOUS
<1>2. /\ RunsOf(id)' = RunsOf(id) \cup {n} /\ history'[n] = entry
      /\ \A k \in RunsOf(id) : history'[k] = history[k]
      /\ \A k \in RunsOf(id) : history[k].run # entry.run
  BY <1>1, RecordRuns DEF RunsNamed, RunsOf
<1>3. evidence'[id].passes = Streak(row, b, entry.passed) /\ evidence'[id].binding = {b}
  BY DEF TypeOK
<1>4. row.passes \in Nat /\ entry.passed \in BOOLEAN /\ MaxPasses \in Nat
  BY ConstantsAssumption DEF Rows, Records
<1>5. IsFiniteSet(kept) /\ Cardinality(kept) \in Nat
  <2>1. clock \in Nat /\ \A k \in 1 .. Len(history) : history[k] \in Records
    BY DEF TypeOK
  <2>2. \A k \in RunsOf(id) : history[k].run \in Nat /\ history[k].run <= clock
    BY <2>1 DEF RunsOf, RunsCounted, Records
  <2>3. kept \in SUBSET Nat /\ \A run \in kept : run <= clock
    BY <2>2
  <2>4. IsFiniteSet(kept)
    <3> HIDE DEF kept
    <3> QED
      BY <2>1, <2>3, FS_BoundedSetOfNaturals
  <2> QED
    <3> HIDE DEF kept
    <3> QED
      BY <2>4, FS_CardinalityType
<1>6. Credited(id)' = IF entry.passed THEN kept \cup {entry.run} ELSE kept
  <2> DEFINE green == {r \in RunsOf(id) : history[r].passed /\ history[r].binding = {b}}
             greenNow == {r \in RunsOf(id)' : history'[r].passed /\ history'[r].binding = {b}}
  <2>1. greenNow = IF entry.passed THEN green \cup {n} ELSE green
    <3>1. CASE entry.passed
      BY <1>2, <3>1, ZenonT(30)
    <3>2. CASE ~entry.passed
      BY <1>2, <3>2
    <3> QED
      BY <3>1, <3>2
  <2>2. \A k \in green : history'[k].run = history[k].run
    BY <1>2
  <2>3. kept = {history[k].run : k \in green}
    OBVIOUS
  <2>4. Credited(id)' = {history'[k].run : k \in greenNow}
    BY <1>3 DEF Credited
  <2> HIDE DEF green, greenNow, kept
  <2>5. {history'[k].run : k \in green} = {history[k].run : k \in green}
    BY <2>2
  <2>6. {history'[k].run : k \in green \cup {n}} = {history'[k].run : k \in green} \cup {history'[n].run}
    OBVIOUS
  <2>7. CASE entry.passed
    <3>1. greenNow = green \cup {n}
      BY <2>1, <2>7
    <3>2. Credited(id)' = {history[k].run : k \in green} \cup {history'[n].run}
      BY <2>4, <2>5, <2>6, <3>1
    <3> QED
      BY <1>2, <2>3, <2>7, <3>2
  <2>8. CASE ~entry.passed
    <3>1. greenNow = green
      BY <2>1, <2>8
    <3> QED
      BY <2>3, <2>4, <2>5, <2>8, <3>1
  <2> QED
    BY <1>4, <2>7, <2>8
<1>7. entry.run \notin kept
  BY <1>2
<1>8. row.binding = {b} => row.passes <= Cardinality(kept)
  BY DEF Credited
<1> HIDE DEF kept
<1>9. CASE ~entry.passed
  <2>1. Streak(row, b, entry.passed) = 0 /\ Credited(id)' = kept
    BY <1>6, <1>9 DEF Streak
  <2> QED
    BY <1>3, <1>5, <2>1
<1>10. CASE entry.passed
  <2>1. Cardinality(Credited(id)') = Cardinality(kept) + 1
    BY <1>5, <1>6, <1>7, <1>10, FS_AddElement
  <2>2. Streak(row, b, entry.passed) <= Cardinality(kept) + 1
    <3>1. CASE row.binding = {b}
      <4>1. Streak(row, b, entry.passed) <= row.passes + 1
        BY <1>4, <1>10, <3>1 DEF Streak, Same, Rows
      <4>2. row.passes <= Cardinality(kept)
        BY <1>8, <3>1
      <4>3. Streak(row, b, entry.passed) \in Nat
        BY <1>4, <1>10 DEF Streak, Same
      <4> QED
        BY <1>4, <1>5, <4>1, <4>2, <4>3
    <3>2. CASE row.binding # {b}
      <4>1. Streak(row, b, entry.passed) = 1
        BY <1>10, <3>2 DEF Streak, Same
      <4> QED
        BY <1>5, <4>1
    <3> QED
      BY <3>1, <3>2
  <2> QED
    BY <1>3, <2>1, <2>2
<1> QED
  BY <1>4, <1>9, <1>10

LEMMA CreditStep == IInv /\ RunsCounted /\ CreditHasRuns /\ [Next]_vars => CreditHasRuns'
<1> SUFFICES ASSUME IInv, RunsCounted, CreditHasRuns, [Next]_vars,
                    NEW f \in Ids, evidence'[f].binding # {}
             PROVE  evidence'[f].passes <= Cardinality(Credited(f)')
  BY DEF CreditHasRuns, Credited
<1>0. TypeOK /\ VerifierInv /\ CodesInv /\ UnimportedInv
  BY DEF IInv
<1>1. \A id \in Ids : evidence[id].binding # {} => evidence[id].passes <= Cardinality(Credited(id))
  BY DEF CreditHasRuns, Credited
<1>2. CASE UNCHANGED <<evidence, history>>
  <2>1. Credited(f)' = Credited(f)
    BY <1>2, CreditUnchanged DEF RunsOf
  <2> QED
    BY <1>1, <1>2, <2>1
<1>3. CASE Attach
  BY <1>0, <1>3, AttachRuns
<1>4. ASSUME NEW v \in Verifiers, Record(v),
             NEW id \in CurrentIds, NEW b \in Bindings,
             evidence[id] \in Rows, EntryOf(v, id) \in Records,
             verifier[v].binding = {b}, verifier[v].run # 0, RunsNamed(verifier[v].run) = {},
             evidence' = [evidence EXCEPT ![id] =
                   [state |-> StateAfter(evidence[id], b, verifier[v].passed),
                    passes |-> Streak(evidence[id], b, verifier[v].passed),
                    binding |-> {b}, updated |-> verifier[v].run]],
             history' = Append(history, EntryOf(v, id))
      PROVE  evidence'[f].passes <= Cardinality(Credited(f)')
  <2>1. /\ id \in Ids /\ EntryOf(v, id).finding = id /\ EntryOf(v, id).run = verifier[v].run
        /\ EntryOf(v, id).binding = {b} /\ EntryOf(v, id).passed = verifier[v].passed
    BY <1>4, ConstantTypes DEF EntryOf
  <2>2. CASE f = id
    BY <1>0, <1>1, <1>4, <2>1, <2>2, CreditRecord
  <2>3. CASE f # id
    <3>1. evidence'[f] = evidence[f]
      BY <1>0, <1>4, <2>3 DEF TypeOK
    <3>2. RunsOf(f)' = RunsOf(f) /\ \A k \in RunsOf(f) : history'[k] = history[k]
      BY <1>0, <1>4, <2>1, <2>3, RecordRuns DEF RunsOf
    <3> QED
      BY <1>1, <3>1, <3>2, CreditUnchanged
  <2> QED
    BY <2>2, <2>3
<1>5. ASSUME NEW v \in Verifiers, Record(v)
      PROVE  evidence'[f].passes <= Cardinality(Credited(f)')
  BY <1>0, <1>2, <1>4, <1>5, RecordCases
<1>6. ASSUME NEW p \in Promoters, PromoteCommit(p)
      PROVE  evidence'[f].passes <= Cardinality(Credited(f)')
  <2>1. /\ RunsOf(f)' = RunsOf(f) /\ \A k \in RunsOf(f) : history'[k] = history[k]
        /\ evidence'[f] = evidence[f]
    BY <1>0, <1>6, PromotionRuns
  <2> QED
    BY <1>1, <2>1, CreditUnchanged
<1> QED
  BY <1>2, <1>3, <1>5, <1>6
  DEF Next, vars, Verification, Prepare, Bind, Launch, Finish, Replay, Exit, Promotion,
      PromoteRead, PromoteAbort, IndexRefresh, DeleteIndex, Rebuild

-----------------------------------------------------------------------------
(* Reading the history as logs: a fold, taken one record at a time.         *)

\* Induction over the numbers: the least counterexample has a predecessor.
LEMMA InductionOnNat ==
  ASSUME NEW S, 0 \in S, \A n \in Nat : n \in S => n + 1 \in S
  PROVE  \A n \in Nat : n \in S
<1> DEFINE T == Nat \ S
<1> SUFFICES ASSUME T # {} PROVE FALSE
  OBVIOUS
<1>1. IsWellFoundedOn(OpToRel(<, Nat), Nat)
  BY NatLessThanWellFounded, Zenon
<1>2. PICK x \in T : \A y \in T : ~(<<y, x>> \in OpToRel(<, Nat))
  <2> HIDE DEF T
  <2>1. T \subseteq Nat
    BY DEF T
  <2> QED
    BY <1>1, <2>1, WFMin, Zenon
<1>3. x \in Nat /\ x # 0
  BY <1>2
<1>4. x - 1 \in Nat /\ x - 1 < x /\ (x - 1) + 1 = x
  BY <1>3
<1>5. x - 1 \notin T
  BY <1>2, <1>3, <1>4 DEF OpToRel
<1> QED
  BY <1>2, <1>4, <1>5

\* f reads the first m outcomes of s.
Reads(f, s, m) ==
    f = [k \in 0 .. m |-> IF k = 0 THEN NoLogs ELSE Logged(f[k - 1], s[k])]

\* There is such a function, whatever is read.
LEMMA ReadsExist ==
  ASSUME NEW s, NEW n \in Nat
  PROVE  \E f : Reads(f, s, n)
<1> DEFINE Good == {m \in Nat : \E f : Reads(f, s, m)}
<1> HIDE DEF NoLogs
<1>1. 0 \in Good
  <2>1. 0 .. 0 = {0}
    OBVIOUS
  <2>2. Reads([k \in {0} |-> NoLogs], s, 0)
    BY <2>1 DEF Reads
  <2> QED
    BY <2>2
<1>2. ASSUME NEW m \in Nat, m \in Good PROVE m + 1 \in Good
  <2>1. PICK f : Reads(f, s, m)
    BY <1>2
  <2>2. \A k \in 0 .. m : f[k] = IF k = 0 THEN NoLogs ELSE Logged(f[k - 1], s[k])
    BY <2>1 DEF Reads
  <2> DEFINE h == [k \in 0 .. m + 1 |-> IF k <= m THEN f[k] ELSE Logged(f[m], s[k])]
  <2>3. ASSUME NEW k \in 0 .. m + 1
        PROVE  h[k] = IF k = 0 THEN NoLogs ELSE Logged(h[k - 1], s[k])
    <3>1. CASE k = 0
      <4>1. h[k] = f[k] /\ k \in 0 .. m
        BY <3>1
      <4> QED
        BY <2>2, <3>1, <4>1
    <3>2. CASE k # 0 /\ k <= m
      <4>1. h[k] = f[k] /\ h[k - 1] = f[k - 1] /\ k \in 0 .. m
        BY <3>2
      <4> HIDE DEF h
      <4> QED
        BY <2>2, <3>2, <4>1
    <3>3. CASE k = m + 1
      <4>1. h[k] = Logged(f[m], s[k]) /\ h[k - 1] = f[m] /\ k # 0
        BY <3>3
      <4> HIDE DEF h
      <4> QED
        BY <4>1
    <3> QED
      BY <3>1, <3>2, <3>3
  <2>4. h = [k \in 0 .. m + 1 |-> h[k]]
    OBVIOUS
  <2>5. Reads(h, s, m + 1)
    <3> HIDE DEF h
    <3>1. [k \in 0 .. m + 1 |-> h[k]]
          = [k \in 0 .. m + 1 |-> IF k = 0 THEN NoLogs ELSE Logged(h[k - 1], s[k])]
      BY <2>3, Zenon
    <3> QED
      BY <2>4, <3>1, Zenon DEF Reads
  <2> HIDE DEF h
  <2> QED
    BY <1>2, <2>5
<1>3. n \in Good
  <2> HIDE DEF Good
  <2> QED
    BY <1>1, <1>2, InductionOnNat
<1> QED
  BY <1>3

\* The log of every finding after the first k outcomes of a history.
Reading(h, s, n) ==
    /\ h[0] = NoLogs
    /\ \A k \in 1 .. n : h[k] = Logged(h[k - 1], s[k])
    /\ h[n] = LogsOf(s)

LEMMA ReadingExists ==
  ASSUME NEW s \in Seq(Records)
  PROVE  \E h : Reading(h, s, Len(s))
<1> DEFINE n == Len(s)
           E(f) == f = [k \in 0 .. n |-> IF k = 0 THEN NoLogs ELSE Logged(f[k - 1], s[k])]
           after == CHOOSE f : E(f)
<1>1. n \in Nat
  OBVIOUS
<1>2. LogsOf(s) = after[n]
  BY Zenon DEF LogsOf
<1>3. \E f : E(f)
  <2>1. PICK f : Reads(f, s, n)
    BY <1>1, ReadsExist
  <2> QED
    BY <2>1, Zenon DEF Reads
<1>4. E(after)
  BY <1>3, Zenon
<1> HIDE DEF after
<1>5. \A k \in 0 .. n : after[k] = IF k = 0 THEN NoLogs ELSE Logged(after[k - 1], s[k])
  BY <1>4
<1>6. 0 \in 0 .. n /\ \A k \in 1 .. n : k \in 0 .. n /\ k # 0
  BY <1>1
<1>7. Reading(after, s, n)
  BY <1>2, <1>5, <1>6 DEF Reading
<1> QED
  BY <1>7

\* An outcome counts in the same way in two places.
Alike(r, q) == r = q \/ (r.run = 0 /\ q.run = 0)

\* Histories that begin alike read alike.
LEMMA ReadAlike ==
  ASSUME NEW s, NEW t, NEW n \in Nat, NEW m \in Nat, NEW h, NEW g,
         Reading(h, s, n), Reading(g, t, m), NEW l \in Nat, l <= n, l <= m,
         \A k \in 1 .. l : Alike(s[k], t[k])
  PROVE  h[l] = g[l]
<1> DEFINE S == {k \in Nat : k <= l => h[k] = g[k]}
<1>1. 0 \in S
  BY DEF Reading
<1>2. ASSUME NEW k \in Nat, k \in S PROVE k + 1 \in S
  <2> SUFFICES ASSUME k + 1 <= l PROVE h[k + 1] = g[k + 1]
    OBVIOUS
  <2>1. h[k] = g[k] /\ k + 1 \in 1 .. n /\ k + 1 \in 1 .. m /\ k + 1 \in 1 .. l /\ (k + 1) - 1 = k
    BY <1>2
  <2>2. h[k + 1] = Logged(h[k], s[k + 1]) /\ g[k + 1] = Logged(g[k], t[k + 1])
    BY <2>1 DEF Reading
  <2>3. Alike(s[k + 1], t[k + 1])
    BY <2>1
  <2>4. CASE s[k + 1] = t[k + 1]
    BY <2>1, <2>2, <2>4
  <2>5. CASE s[k + 1].run = 0 /\ t[k + 1].run = 0
    BY <2>1, <2>2, <2>5 DEF Logged
  <2> QED
    BY <2>3, <2>4, <2>5 DEF Alike
<1>3. l \in S
  <2> HIDE DEF S
  <2> QED
    BY <1>1, <1>2, InductionOnNat
<1> QED
  BY <1>3

\* An outcome more.
LEMMA ReadAppended ==
  ASSUME NEW s \in Seq(Records), NEW r \in Records
  PROVE  LogsOf(Append(s, r)) = Logged(LogsOf(s), r)
<1>1. PICK t \in Seq(Records) : t = Append(s, r)
  <2>1. Append(s, r) \in Seq(Records)
    BY AppendProperties
  <2> QED
    BY <2>1
<1>2. PICK n \in Nat : n = Len(s)
  OBVIOUS
<1>3. Len(t) = n + 1 /\ t[n + 1] = r /\ \A k \in 1 .. n : t[k] = s[k]
  BY <1>1, <1>2
<1>4. PICK h : Reading(h, s, n)
  BY <1>2, ReadingExists
<1>5. PICK g : Reading(g, t, n + 1)
  BY <1>3, ReadingExists
<1>6. h[n] = g[n]
  <2>1. \A k \in 1 .. n : Alike(s[k], t[k])
    BY <1>3 DEF Alike
  <2>2. n + 1 \in Nat /\ n <= n /\ n <= n + 1
    OBVIOUS
  <2> QED
    BY <1>4, <1>5, <2>1, <2>2, ReadAlike
<1>7. g[n + 1] = Logged(g[n], t[n + 1])
  <2>1. n + 1 \in 1 .. n + 1 /\ (n + 1) - 1 = n
    OBVIOUS
  <2> QED
    BY <1>5, <2>1 DEF Reading
<1>8. g[n + 1] = LogsOf(t) /\ h[n] = LogsOf(s)
  BY <1>4, <1>5 DEF Reading
<1> QED
  BY <1>1, <1>3, <1>6, <1>7, <1>8, Zenon

\* Outcomes without a run are in no log.
LEMMA ReadWithoutRuns ==
  ASSUME NEW s \in Seq(Records), \A k \in 1 .. Len(s) : s[k].run = 0
  PROVE  LogsOf(s) = NoLogs
<1>1. PICK n \in Nat : n = Len(s)
  OBVIOUS
<1>2. PICK h : Reading(h, s, n)
  BY <1>1, ReadingExists
<1> DEFINE S == {k \in Nat : k <= n => h[k] = NoLogs}
<1> HIDE DEF NoLogs
<1>3. 0 \in S
  BY <1>2 DEF Reading
<1>4. ASSUME NEW k \in Nat, k \in S PROVE k + 1 \in S
  <2> SUFFICES ASSUME k + 1 <= n PROVE h[k + 1] = NoLogs
    OBVIOUS
  <2>1. h[k] = NoLogs /\ k + 1 \in 1 .. n /\ (k + 1) - 1 = k
    BY <1>4
  <2>2. h[k + 1] = Logged(h[k], s[k + 1]) /\ s[k + 1].run = 0
    BY <1>1, <1>2, <2>1 DEF Reading
  <2> QED
    BY <2>1, <2>2 DEF Logged
<1>5. n \in S
  <2> HIDE DEF S
  <2> QED
    BY <1>3, <1>4, InductionOnNat
<1> QED
  BY <1>2, <1>5 DEF Reading

\* Histories of one length whose runs agree have the same logs.
LEMMA ReadRenamed ==
  ASSUME NEW s \in Seq(Records), NEW t \in Seq(Records), Len(s) = Len(t),
         \A k \in 1 .. Len(s) : Alike(s[k], t[k])
  PROVE  LogsOf(t) = LogsOf(s)
<1>1. PICK n \in Nat : n = Len(s)
  OBVIOUS
<1>2. PICK h : Reading(h, s, n)
  BY <1>1, ReadingExists
<1>3. PICK g : Reading(g, t, n)
  BY <1>1, ReadingExists
<1>4. h[n] = g[n]
  <2>1. n <= n /\ \A k \in 1 .. n : Alike(s[k], t[k])
    BY <1>1
  <2> QED
    BY <1>2, <1>3, <2>1, ReadAlike
<1> QED
  BY <1>2, <1>3, <1>4 DEF Reading

-----------------------------------------------------------------------------
(* The documented lifecycle.                                                *)

RunEntries == [definition : Bindings, passed : BOOLEAN]

\* The row of a finding says what its log says: it is bound to the definition
\* of the last run, and its counter tells whether the last run was green, and
\* whether the last two were, with one definition.
Says(binding, passes, log) ==
    LET n == Len(log)
    IN  /\ log = <<>> <=> binding = {}
        /\ n >= 1 =>
              /\ binding = {log[n].definition}
              /\ passes >= 1 <=> log[n].passed
              /\ passes >= 2 <=>
                    /\ n >= 2 /\ log[n].passed /\ log[n - 1].passed
                    /\ log[n - 1].definition = log[n].definition

Counted(id) == Says(evidence[id].binding, evidence[id].passes, Logs[id])

LogsInv == Logs \in [Ids -> Seq(RunEntries)] /\ \A id \in Ids : Counted(id)

\* Nothing is left of the group under the ids of older releases, nor will the
\* import bring it.
Clean(g) ==
    \A id \in Ids \ CurrentIds : id[1] = g =>
        /\ evidence[id] = NoRow
        /\ ~imported => cache.rows[id] = NoRow

\* A group is clean from the promotion on that made its error finding one that
\* can be verified.
Verifiable(g) ==
    \/ findings.classed /\ ErrorId(g) \in findings.ids
    \/ \E v \in Verifiers : verifier[v].pc \in Past /\ ErrorId(g) \in verifier[v].finding
    \/ evidence[ErrorId(g)].binding # {}

CleanInv == \A g \in Groups : Verifiable(g) => Clean(g)

\* The logs change with a record only.
LEMMA LogsKept ==
  ASSUME IInv, [Next]_vars, ~\E v \in Verifiers : Record(v)
  PROVE  Logs' = Logs
<1>0. /\ TypeOK /\ CodesInv /\ history \in Seq(Records)
      /\ Logs = LogsOf(history)
      /\ Logs' = LogsOf(history')
  BY DEF IInv, TypeOK, Logs, NoLogs
<1>1. CASE UNCHANGED history
  BY <1>0, <1>1
<1>2. CASE history = <<>> /\ history' = LegacyHistory
  <2>1. LogsOf(history) = NoLogs
    <3>1. \A k \in 1 .. Len(history) : history[k].run = 0
      BY <1>2
    <3> QED
      BY <1>0, <3>1, ReadWithoutRuns
  <2>2. LogsOf(LegacyHistory) = NoLogs
    BY LegacyAssumption, ReadWithoutRuns
  <2> QED
    BY <1>0, <1>2, <2>1, <2>2
<1>3. ASSUME NEW p \in Promoters, PromoteCommit(p) PROVE Logs' = Logs
  <2>1. history' \in Seq(Records)
    BY <1>0, <1>3, PromoteChoices, PromotionType DEF TypeOK
  <2>2. Len(history) = Len(history') /\ \A k \in 1 .. Len(history) : Alike(history[k], history'[k])
    BY <1>0, <1>3, PromotionRecords DEF Alike
  <2>3. LogsOf(history') = LogsOf(history)
    BY <1>0, <2>1, <2>2, ReadRenamed
  <2> QED
    BY <1>0, <2>3
<1> QED
  BY <1>1, <1>2, <1>3, HistorySteps

\* A record extends the log of its finding.
LEMMA LogsRecord ==
  ASSUME TypeOK, Logs \in [Ids -> Seq(RunEntries)],
         NEW id \in Ids, NEW b \in Bindings, NEW entry \in Records,
         entry.finding = id, entry.binding = {b}, entry.run # 0,
         history' = Append(history, entry)
  PROVE  /\ Logs' = [Logs EXCEPT ![id] =
                        Append(Logs[id], [definition |-> b, passed |-> entry.passed])]
         /\ [definition |-> b, passed |-> entry.passed] \in RunEntries
<1>1. history \in Seq(Records) /\ Logs = LogsOf(history)
  BY DEF TypeOK, Logs, NoLogs
<1>2. Logs' = LogsOf(Append(history, entry))
  BY DEF Logs, NoLogs
<1>3. Logs' = Logged(Logs, entry)
  BY <1>1, <1>2, ReadAppended
<1>4. (CHOOSE c \in entry.binding : TRUE) = b
  OBVIOUS
<1>5. Logged(Logs, entry) = [Logs EXCEPT ![id] =
         Append(Logs[id], [definition |-> b, passed |-> entry.passed])]
  BY <1>4 DEF Logged
<1>6. [definition |-> b, passed |-> entry.passed] \in RunEntries
  BY DEF RunEntries, Records
<1> QED
  BY <1>3, <1>5, <1>6

\* The row that a record writes says what the extended log says.
LEMMA CountedRecord ==
  ASSUME NEW row \in Rows, NEW log \in Seq(RunEntries), NEW b \in Bindings, NEW passed \in BOOLEAN,
         NEW next, next = Append(log, [definition |-> b, passed |-> passed]),
         Says(row.binding, row.passes, log)
  PROVE  /\ Says({b}, Streak(row, b, passed), next)
         /\ Streak(row, b, passed) >= 3 <=> Streaks!ThreeGreens(next)
<1>1. PICK n \in Nat : n = Len(log)
  OBVIOUS
<1>2. PICK e \in RunEntries : e = [definition |-> b, passed |-> passed]
  BY DEF RunEntries
<1>3. /\ next \in Seq(RunEntries) /\ Len(next) = n + 1 /\ next[n + 1] = e
      /\ \A k \in 1 .. n : next[k] = log[k]
  BY <1>1, <1>2, AppendProperties
<1>4. e.definition = b /\ e.passed = passed
  BY <1>2
<1>5. row.passes \in Nat /\ MaxPasses \in Nat /\ MaxPasses >= 3
  BY ConstantsAssumption DEF Rows
<1>6. (log = <<>> <=> n = 0) /\ (log = <<>> <=> row.binding = {})
  BY <1>1, EmptySeq DEF Says
<1>7. ASSUME n = 0 PROVE Streak(row, b, passed) = IF passed THEN 1 ELSE 0
  BY <1>6, <1>7 DEF Streak, Same
<1>8. ASSUME n >= 1
      PROVE  /\ next[n] = log[n] /\ log[n] \in RunEntries
             /\ Same(row, b) <=> log[n].definition = b
             /\ row.passes >= 1 <=> log[n].passed
             /\ row.passes >= 2 <=>
                   /\ n >= 2 /\ log[n].passed /\ log[n - 1].passed
                   /\ log[n - 1].definition = log[n].definition
  <2>1. n \in 1 .. n
    BY <1>8
  <2> QED
    BY <1>1, <1>3, <1>8, <2>1 DEF Same, Says
<1>a. ASSUME n >= 1
      PROVE  /\ Same(row, b) <=> next[n].definition = b
             /\ row.passes >= 1 <=> next[n].passed
  BY <1>8, <1>a, Zenon
<1>b. ASSUME n >= 1
      PROVE  row.passes >= 2 <=>
                   /\ n >= 2 /\ next[n].passed /\ next[n - 1].passed
                   /\ next[n - 1].definition = next[n].definition
  <2>1. n >= 2 => next[n - 1] = log[n - 1]
    BY <1>3
  <2> QED
    BY <1>8, <1>b, <2>1, Zenon
<1>9. Streak(row, b, passed) \in Nat
  BY <1>5 DEF Streak
<1>10. Streak(row, b, passed) >= 1 <=> passed
  BY <1>5 DEF Streak
<1>11. Streak(row, b, passed) >= 2 <=> passed /\ Same(row, b) /\ row.passes >= 1
  BY <1>5 DEF Streak
<1>12. Streak(row, b, passed) >= 3 <=> passed /\ Same(row, b) /\ row.passes >= 2
  BY <1>5 DEF Streak
<1>13. (n + 1) - 1 = n /\ (n + 1 >= 2 <=> n >= 1)
  OBVIOUS
<1>14. Streak(row, b, passed) >= 2 <=>
          /\ n >= 1 /\ passed /\ next[n].passed /\ next[n].definition = b
  <2>1. CASE n = 0
    BY <1>7, <2>1
  <2>2. CASE n >= 1
    BY <1>11, <1>a, <2>2, Zenon
  <2>3. n = 0 \/ n >= 1
    OBVIOUS
  <2> QED
    BY <2>1, <2>2, <2>3, Zenon
<1>15. Streak(row, b, passed) >= 3 <=>
          /\ n >= 2 /\ passed
          /\ next[n].passed /\ next[n].definition = b
          /\ next[n - 1].passed /\ next[n - 1].definition = b
  <2>1. CASE n = 0
    BY <1>7, <2>1
  <2>2. CASE n >= 1
    BY <1>12, <1>a, <1>b, <2>2, Zenon
  <2>3. n = 0 \/ n >= 1
    OBVIOUS
  <2> QED
    BY <2>1, <2>2, <2>3, Zenon
<1>16. Streaks!ThreeGreens(next) <=>
          /\ n >= 2 /\ passed
          /\ next[n].passed /\ next[n].definition = b
          /\ next[n - 1].passed /\ next[n - 1].definition = b
  <2>1. Len(next) - 2 = n - 1 /\ (Len(next) >= 3 <=> n >= 2)
    BY <1>3
  <2>2. (n - 1) .. (n + 1) = {n - 1, n, n + 1}
    OBVIOUS
  <2>3. Streaks!ThreeGreens(next) <=>
           /\ n >= 2
           /\ \A k \in {n - 1, n, n + 1} : next[k].passed /\ next[k].definition = b
    BY <1>3, <1>4, <2>1, <2>2 DEF Streaks!ThreeGreens
  <2> QED
    BY <1>3, <1>4, <2>3
<1>17. Says({b}, Streak(row, b, passed), next)
  <2>1. PICK m : m = n + 1
    OBVIOUS
  <2>2. Len(next) = m /\ next # <<>> /\ m - 1 = n /\ {b} # {}
    BY <1>3, <2>1
  <2>3. next[m].definition = b /\ next[m].passed = passed
    BY <1>3, <1>4, <2>1
  <2>4. (m >= 2 <=> n >= 1)
    BY <2>1
  <2>5. Streak(row, b, passed) >= 2 <=>
           /\ m >= 2 /\ next[m].passed /\ next[m - 1].passed
           /\ next[m - 1].definition = next[m].definition
    BY <1>14, <2>2, <2>3, <2>4, Zenon
  <2>6. Streak(row, b, passed) >= 1 <=> next[m].passed
    BY <1>10, <2>3, Zenon
  <2>7. {b} = {next[m].definition}
    BY <2>3
  <2> QED
    BY <2>2, <2>5, <2>6, <2>7, Zenon DEF Says
<1> QED
  BY <1>15, <1>16, <1>17, Zenon

\* No step brings back an id of an older release.
LEMMA CleanKept ==
  ASSUME IInv, [Next]_vars, NEW g \in Groups, Clean(g)
  PROVE  Clean(g)'
<1>0. TypeOK /\ VerifierInv /\ UnimportedInv
  BY DEF IInv
<1>1. CASE UNCHANGED <<evidence, cache, imported>>
  BY <1>1 DEF Clean
<1>2. CASE Attach
  BY <1>2 DEF Clean, Attach
<1>3. ASSUME NEW v \in Verifiers, Record(v) PROVE Clean(g)'
  <2>1. imported /\ imported' = imported
    BY <1>0, <1>3 DEF Record, UnimportedInv
  <2>2. \A id \in Ids \ CurrentIds : evidence'[id] = evidence[id]
    BY <1>0, <1>3, RecordCases DEF TypeOK
  <2> QED
    BY <2>1, <2>2 DEF Clean
<1>4. ASSUME NEW p \in Promoters, PromoteCommit(p) PROVE Clean(g)'
  <2>1. PICK issues, qualifying, survivor : PromotionOf(p, issues, qualifying, survivor)
    BY <1>4, PromoteChoices
  <2>2. issues \subseteq CurrentIds
    BY <1>0, <2>1, ConstantTypes DEF PromotionOf, TypeOK
  <2>3. imported' = TRUE
    BY <1>0, <1>4, <2>1 DEF PromoteCommit, PromotionOf, UnimportedInv, TypeOK
  <2>4. ASSUME NEW id \in Ids \ CurrentIds, id[1] = g PROVE evidence'[id] = NoRow
    <3>1. id \notin qualifying /\ id \notin DOMAIN survivor
      BY <2>1, <2>2 DEF PromotionOf
    <3>2. evidence[id] = NoRow
      BY <2>4 DEF Clean
    <3> QED
      BY <2>1, <3>1, <3>2 DEF PromotionOf, MigratedRow
  <2> QED
    BY <2>3, <2>4 DEF Clean
<1>5. CASE DeleteIndex
  BY <1>5 DEF Clean, DeleteIndex, AbsentCache
<1> QED
  BY <1>1, <1>2, <1>3, <1>4, <1>5
  DEF Next, vars, Verification, Prepare, Bind, Launch, Finish, Replay, Exit, Promotion,
      PromoteRead, PromoteAbort, IndexRefresh, Rebuild

\* A promotion that makes an error finding one to verify cleans its group.
LEMMA PromotionCleans ==
  ASSUME IInv, NEW p \in Promoters, PromoteCommit(p), NEW g \in Groups, ErrorId(g) \in findings'.ids
  PROVE  Clean(g)'
<1>0. TypeOK /\ UnimportedInv
  BY DEF IInv
<1>1. PICK issues, qualifying, survivor : PromotionOf(p, issues, qualifying, survivor)
  BY PromoteChoices
<1>2. issues \subseteq CurrentIds /\ qualifying \subseteq issues /\ ErrorId(g) \in qualifying
  BY <1>0, <1>1, ConstantTypes DEF PromotionOf, TypeOK
<1>3. imported' = TRUE
  BY <1>0, <1>1 DEF PromoteCommit, PromotionOf, UnimportedInv, TypeOK
<1>4. ASSUME NEW id \in Ids \ CurrentIds, id[1] = g PROVE evidence'[id] = NoRow
  <2>1. id \notin qualifying /\ id \notin DOMAIN survivor
    BY <1>1, <1>2 DEF PromotionOf
  <2>2. evidence'[id] = MigratedRow(id, survivor)
    BY <1>1, <2>1 DEF PromotionOf
  <2>3. CASE evidence[id] = NoRow
    BY <2>1, <2>2, <2>3 DEF MigratedRow
  <2>4. CASE evidence[id] # NoRow
    <3>1. id \in Rekeyed(g)
      BY <1>4, <2>4 DEF Rekeyed, Exists, CurrentIds, SemanticId
    <3>2. ErrorId(g)[1] = g /\ ErrorId(g)[2] = "error"
      BY DEF ErrorId
    <3>3. ErrorId(g) \in DOMAIN survivor
      BY <1>1, <1>2, <3>1, <3>2 DEF PromotionOf
    <3> QED
      BY <2>1, <2>2, <3>1, <3>2, <3>3 DEF MigratedRow
  <2> QED
    BY <2>3, <2>4
<1> QED
  BY <1>3, <1>4 DEF Clean

LEMMA CleanStep == IInv /\ CleanInv /\ [Next]_vars => CleanInv'
<1> SUFFICES ASSUME IInv, CleanInv, [Next]_vars, NEW g \in Groups, Verifiable(g)'
             PROVE  Clean(g)'
  BY DEF CleanInv
<1>0. TypeOK /\ VerifierInv /\ UnimportedInv /\ CodesInv
  BY DEF IInv
<1>1. CASE Verifiable(g)
  BY <1>1, CleanKept DEF CleanInv
<1>2. CASE UNCHANGED <<findings, evidence, verifier>>
  BY <1>1, <1>2 DEF Verifiable
<1>3. CASE Attach
  <2>1. ErrorId(g) \in Ids
    BY DEF ErrorId, Ids
  <2>2. evidence'[ErrorId(g)].binding = {}
    BY <1>0, <1>3, <2>1, AttachRuns
  <2> QED
    BY <1>1, <1>3, <2>2 DEF Attach, Verifiable, indexVars
<1>4. ASSUME NEW v \in Verifiers, Verification(v) PROVE Verifiable(g)
  <2> USE DEF Past
  <2>1. findings' = findings /\ \A w \in Verifiers \ {v} : verifier'[w] = verifier[w]
    BY <1>0, <1>4
    DEF Verification, Prepare, Bind, Launch, Finish, Replay, Record, Exit, TypeOK, indexVars
  <2>2. CASE ~(verifier'[v].pc \in Past /\ ErrorId(g) \in verifier'[v].finding) /\ UNCHANGED evidence
    BY <2>1, <2>2 DEF Verifiable
  <2>3. CASE verifier[v].pc \in Past /\ ErrorId(g) \in verifier[v].finding
    BY <2>3 DEF Verifiable
  <2>4. CASE \E id \in Ids, case \in Cases : Prepare(v, id, case)
    BY <1>0, <2>2, <2>4 DEF Prepare, TypeOK, Idle
  <2>5. CASE Bind(v)
    <3>1. PICK id \in verifier[v].finding, case \in verifier[v].case :
             /\ findings.classed /\ id \in findings.ids
             /\ verifier' = [verifier EXCEPT ![v] =
                   [@ EXCEPT !.pc = "bound", !.binding = {<<case, target>>}]]
      BY <2>5 DEF Bind
    <3>2. PICK f \in Ids : verifier[v].finding = {f}
      BY <1>0, <2>5 DEF Bind, VerifierInv
    <3>3. verifier'[v].finding = {id}
      BY <1>0, <3>1, <3>2 DEF TypeOK, Verifications
    <3>4. evidence' = evidence
      BY <2>5 DEF Bind
    <3> QED
      BY <2>2, <3>1, <3>3, <3>4 DEF Verifiable
  <2>6. CASE Launch(v) \/ \E passed \in BOOLEAN : Finish(v, passed) \/ Replay(v, passed)
    <3>1. /\ verifier[v].pc \in {"bound", "running", "recorded"} /\ evidence' = evidence
          /\ verifier'[v].finding = verifier[v].finding
      BY <1>0, <2>6, ZenonT(30) DEF Launch, Finish, Replay, TypeOK, Verifications
    <3> QED
      BY <2>2, <2>3, <3>1
  <2>7. CASE Exit(v)
    BY <1>0, <2>2, <2>7 DEF Exit, TypeOK, Idle
  <2>8. CASE Record(v)
    <3>1. verifier[v].pc = "recording" /\ verifier'[v].finding = verifier[v].finding
      BY <1>0, <2>8 DEF Record, TypeOK, Verifications
    <3>2. CASE UNCHANGED evidence
      BY <2>2, <2>3, <3>1, <3>2
    <3>3. CASE evidence' # evidence
      <4>1. PICK id \in CurrentIds :
               /\ id \in verifier[v].finding
               /\ \A other \in Ids \ {id} : evidence'[other] = evidence[other]
        BY <1>0, <2>8, <3>3, RecordCases DEF TypeOK
      <4>2. CASE id = ErrorId(g)
        BY <2>3, <3>1, <4>1, <4>2
      <4>3. CASE id # ErrorId(g)
        <5>1. evidence'[ErrorId(g)] = evidence[ErrorId(g)]
          BY <4>1, <4>3 DEF ErrorId, Ids
        <5>2. CASE ErrorId(g) \in verifier[v].finding
          BY <2>3, <3>1, <5>2
        <5>3. CASE ErrorId(g) \notin verifier[v].finding
          BY <2>1, <3>1, <5>1, <5>3 DEF Verifiable
        <5> QED
          BY <5>2, <5>3
      <4> QED
        BY <4>2, <4>3
    <3> QED
      BY <3>2, <3>3
  <2> QED
    BY <1>4, <2>4, <2>5, <2>6, <2>7, <2>8 DEF Verification
<1>5. ASSUME NEW p \in Promoters, PromoteCommit(p) PROVE Clean(g)'
  <2>1. CASE ErrorId(g) \in findings'.ids
    BY <1>5, <2>1, PromotionCleans
  <2>2. CASE ErrorId(g) \notin findings'.ids
    <3>1. ErrorId(g) \in Ids /\ verifier' = verifier
      BY <1>5 DEF ErrorId, Ids, PromoteCommit
    <3>2. evidence'[ErrorId(g)].binding # {} => evidence'[ErrorId(g)] = evidence[ErrorId(g)]
      BY <1>0, <1>5, <3>1, PromotionRuns
    <3>3. Verifiable(g)
      BY <2>2, <3>1, <3>2 DEF Verifiable
    <3> QED
      BY <1>1, <3>3
  <2> QED
    BY <2>1, <2>2
<1>6. CASE IndexRefresh \/ DeleteIndex
  BY <1>1, <1>6 DEF IndexRefresh, DeleteIndex, NoFindings, Verifiable
<1> QED
  BY <1>1, <1>2, <1>3, <1>4, <1>5, <1>6
  DEF Next, vars, indexVars, Promotion, PromoteRead, PromoteAbort, Rebuild

LEMMA InitClean == Init => CleanInv
<1> SUFFICES ASSUME Init, NEW g \in Groups, Verifiable(g) PROVE Clean(g)
  BY DEF CleanInv
<1>1. (\A v \in Verifiers : verifier[v].pc \notin Past) /\ ErrorId(g) \in Ids
  BY DEF Init, Idle, Past, ErrorId, Ids
<1>2. \A id \in Ids : evidence[id] = NoRow /\ evidence[id].binding = {}
  BY DEF Init, NoRow
<1>3. findings.classed /\ ErrorId(g) \in findings.ids
  BY <1>1, <1>2 DEF Verifiable
<1>4. findings # NoFindings
  BY <1>3 DEF NoFindings
<1>5. PICK classed \in BOOLEAN, ids \in SUBSET Ids :
         /\ classed => \A id \in ids, c \in Codes : LegacyRows[<<id[1], c>>] = NoRow
         /\ findings = [present |-> TRUE, classed |-> classed, ids |-> ids, basis |-> calls]
         /\ cache = LegacyCache
  BY <1>4 DEF Init
<1>6. \A c \in Codes : LegacyRows[<<g, c>>] = NoRow
  BY <1>3, <1>5 DEF ErrorId
<1>7. \A id \in Ids \ CurrentIds : id[1] = g => \E c \in Codes : id = <<g, c>>
  BY DEF Ids, CurrentIds
<1> QED
  BY <1>2, <1>5, <1>6, <1>7 DEF Clean, LegacyCache

-----------------------------------------------------------------------------
(* Every step is one of the documented lifecycle.                           *)

\* A promotion leaves a finding with runs as it is.
LEMMA PromotionKeeps ==
  ASSUME IInv, CleanInv, NEW p \in Promoters, PromoteCommit(p),
         NEW id \in Ids, evidence[id].binding # {}
  PROVE  evidence'[id] = evidence[id]
<1>0. TypeOK /\ CodesInv
  BY DEF IInv
<1>1. PICK issues, qualifying, survivor : PromotionOf(p, issues, qualifying, survivor)
  BY PromoteChoices
<1>2. id \in CurrentIds /\ evidence[id] # NoRow
  BY <1>0 DEF CodesInv, NoRow
<1>3. issues \subseteq CurrentIds /\ DOMAIN survivor \subseteq issues
  BY <1>0, <1>1, ConstantTypes DEF PromotionOf, TypeOK
<1>4. CASE id \in DOMAIN survivor
  <2>1. id[2] = "error" /\ survivor[id] \in Rekeyed(id[1])
    BY <1>1, <1>4 DEF PromotionOf, Latest
  <2>2. id[1] \in Groups /\ id = ErrorId(id[1])
    BY <1>2, <2>1 DEF CurrentIds, ErrorId
  <2>3. Clean(id[1])
    BY <2>2 DEF CleanInv, Verifiable
  <2>4. survivor[id] \in CurrentIds
    BY <2>1, <2>3 DEF Clean, Rekeyed, Exists
  <2>5. survivor[id] = id
    BY <2>1, <2>2, <2>4 DEF Rekeyed, CurrentIds, SemanticId, ErrorId
  <2>6. MigratedRow(id, survivor) = evidence[id]
    BY <1>4, <2>5 DEF MigratedRow
  <2> QED
    BY <1>1, <1>2, <2>6 DEF PromotionOf
<1>5. CASE id \notin DOMAIN survivor
  <2>1. ASSUME NEW error \in DOMAIN survivor, id \in Rekeyed(error[1]) PROVE FALSE
    <3>1. error \in CurrentIds /\ error[2] = "error"
      BY <1>1, <1>3 DEF PromotionOf
    <3>2. id[1] = error[1] /\ id # SemanticId(error[1])
      BY <2>1 DEF Rekeyed
    <3>3. id = error
      BY <1>2, <3>1, <3>2 DEF CurrentIds, SemanticId
    <3> QED
      BY <1>5, <3>3
  <2>2. MigratedRow(id, survivor) = evidence[id]
    BY <1>5, <2>1 DEF MigratedRow
  <2> QED
    BY <1>1, <1>2, <2>2 DEF PromotionOf
<1> QED
  BY <1>4, <1>5

\* Everything but a record leaves the findings with runs as they are.
LEMMA EvidenceKept ==
  ASSUME IInv, CleanInv, [Next]_vars, ~\E v \in Verifiers : Record(v), NEW id \in Ids
  PROVE  \/ evidence'[id] = evidence[id]
         \/ evidence[id].binding = {} /\ evidence'[id].binding = {}
<1>0. TypeOK /\ CodesInv /\ UnimportedInv
  BY DEF IInv
<1>1. CASE UNCHANGED evidence
  BY <1>1
<1>2. CASE Attach
  <2>1. evidence[id].binding = {}
    BY <1>0, <1>2 DEF Attach, UnimportedInv, NoRow
  <2> QED
    BY <1>0, <1>2, <2>1, AttachRuns
<1>3. ASSUME NEW p \in Promoters, PromoteCommit(p)
      PROVE  \/ evidence'[id] = evidence[id]
             \/ evidence[id].binding = {} /\ evidence'[id].binding = {}
  BY <1>0, <1>3, PromotionKeeps, PromotionRuns
<1> QED
  BY <1>1, <1>2, <1>3
  DEF Next, vars, Verification, Prepare, Bind, Launch, Finish, Replay, Exit, Promotion,
      PromoteRead, PromoteAbort, IndexRefresh, DeleteIndex, Rebuild


\* What a record commits, with its choices named.
RecordOf(v, id, b, passed) ==
    /\ evidence[id] \in Rows /\ EntryOf(v, id) \in Records
    /\ verifier[v].binding = {b} /\ verifier[v].run # 0 /\ verifier[v].passed = passed
    /\ evidence' = [evidence EXCEPT ![id] =
          [state |-> StateAfter(evidence[id], b, passed),
           passes |-> Streak(evidence[id], b, passed),
           binding |-> {b}, updated |-> verifier[v].run]]
    /\ history' = Append(history, EntryOf(v, id))

LEMMA RecordChoices ==
  ASSUME IInv, NEW v \in Verifiers, Record(v), ~UNCHANGED <<evidence, history, cache>>
  PROVE  \E id \in CurrentIds, b \in Bindings, passed \in BOOLEAN : RecordOf(v, id, b, passed)
<1>1. TypeOK /\ VerifierInv /\ verifier[v].passed \in BOOLEAN
  BY DEF IInv, TypeOK, Verifications
<1>2. \E id \in CurrentIds, b \in Bindings : RecordOf(v, id, b, verifier[v].passed)
  BY <1>1, RecordCases DEF RecordOf
<1> QED
  BY <1>1, <1>2

\* The row and the log of a finding after a record for it.
LEMMA RecordedRow ==
  ASSUME IInv, LogsInv, NEW v \in Verifiers, NEW id \in CurrentIds, NEW b \in Bindings,
         NEW passed \in BOOLEAN, RecordOf(v, id, b, passed)
  PROVE  /\ Logs'[id] = Append(Logs[id], [definition |-> b, passed |-> passed])
         /\ Logs' \in [Ids -> Seq(RunEntries)]
         /\ \A other \in Ids \ {id} : Logs'[other] = Logs[other] /\ evidence'[other] = evidence[other]
         /\ Says(evidence'[id].binding, evidence'[id].passes, Logs'[id])
         /\ evidence'[id].state = StateAfter(evidence[id], b, passed)
         /\ Streak(evidence[id], b, passed) >= 3 <=> Streaks!ThreeGreens(Logs'[id])
<1>0. TypeOK /\ id \in Ids /\ Logs \in [Ids -> Seq(RunEntries)] /\ Counted(id)
  BY ConstantTypes DEF IInv, LogsInv
<1>1. PICK e \in RunEntries : e = [definition |-> b, passed |-> passed]
  BY DEF RunEntries
<1>2. PICK entry \in Records :
         /\ entry.finding = id /\ entry.binding = {b} /\ entry.run # 0 /\ entry.passed = passed
         /\ history' = Append(history, entry)
  BY DEF RecordOf, EntryOf
<1>3. [definition |-> b, passed |-> entry.passed] = e
  BY <1>1, <1>2
<1>4. Logs' = [Logs EXCEPT ![id] = Append(Logs[id], e)]
  BY <1>0, <1>2, <1>3, LogsRecord, SMTT(30)
<1>5. Append(Logs[id], e) \in Seq(RunEntries)
  BY <1>0, <1>1, AppendProperties
<1>6. /\ Logs'[id] = Append(Logs[id], e) /\ Logs' \in [Ids -> Seq(RunEntries)]
      /\ \A other \in Ids \ {id} : Logs'[other] = Logs[other]
  BY <1>0, <1>4, <1>5
<1>7. /\ \A other \in Ids \ {id} : evidence'[other] = evidence[other]
      /\ evidence'[id].state = StateAfter(evidence[id], b, passed)
      /\ evidence'[id].passes = Streak(evidence[id], b, passed)
      /\ evidence'[id].binding = {b}
  BY <1>0 DEF RecordOf, TypeOK
<1>8. PICK row \in Rows, log \in Seq(RunEntries), next \in Seq(RunEntries) :
         row = evidence[id] /\ log = Logs[id] /\ next = Logs'[id]
  BY <1>0, <1>5, <1>6 DEF RecordOf
<1>9. next = Append(log, [definition |-> b, passed |-> passed])
  BY <1>1, <1>6, <1>8
<1>10. /\ Says({b}, Streak(row, b, passed), next)
       /\ Streak(row, b, passed) >= 3 <=> Streaks!ThreeGreens(next)
  <2>1. Says(row.binding, row.passes, log)
    BY <1>0, <1>8 DEF Counted
  <2> QED
    BY <1>9, <2>1, CountedRecord
<1>11. Says(evidence'[id].binding, evidence'[id].passes, Logs'[id])
  BY <1>7, <1>8, <1>10, Zenon
<1>12. Streak(evidence[id], b, passed) >= 3 <=> Streaks!ThreeGreens(Logs'[id])
  BY <1>8, <1>10, Zenon
<1> QED
  BY <1>1, <1>4, <1>6, <1>7, <1>11, <1>12, Zenon

LEMMA LogsStep == IInv /\ CleanInv /\ LogsInv /\ [Next]_vars => LogsInv'
<1> SUFFICES ASSUME IInv, CleanInv, LogsInv, [Next]_vars PROVE LogsInv'
  OBVIOUS
<1>0. TypeOK /\ VerifierInv /\ Logs \in [Ids -> Seq(RunEntries)] /\ \A id \in Ids : Counted(id)
  BY DEF IInv, LogsInv
\* A finding whose log stays and whose row stays, or stays without runs.
<1>1. ASSUME NEW id \in Ids, Logs'[id] = Logs[id],
             \/ evidence'[id] = evidence[id]
             \/ evidence[id].binding = {} /\ evidence'[id].binding = {}
      PROVE  Counted(id)'
  <2>1. Counted(id)
    BY <1>0
  <2>2. CASE evidence'[id] = evidence[id]
    BY <1>1, <2>1, <2>2 DEF Counted
  <2>3. CASE evidence[id].binding = {} /\ evidence'[id].binding = {}
    <3>1. Logs[id] = <<>>
      BY <2>1, <2>3 DEF Counted, Says
    <3> QED
      BY <1>1, <2>3, <3>1 DEF Counted, Says
  <2> QED
    BY <1>1, <2>2, <2>3
<1>2. CASE ~\E v \in Verifiers : Record(v)
  <2>1. Logs' = Logs
    BY <1>2, LogsKept
  <2> QED
    BY <1>0, <1>1, <1>2, <2>1, EvidenceKept DEF LogsInv
<1>3. ASSUME NEW v \in Verifiers, Record(v) PROVE LogsInv'
  <2>1. CASE UNCHANGED <<evidence, history, cache>>
    <3>1. Logs' = Logs
      BY <2>1 DEF Logs
    <3> QED
      BY <1>0, <1>1, <2>1, <3>1 DEF LogsInv
  <2>2. CASE ~UNCHANGED <<evidence, history, cache>>
    <3>1. PICK id \in CurrentIds, b \in Bindings, passed \in BOOLEAN : RecordOf(v, id, b, passed)
      BY <1>3, <2>2, RecordChoices
    <3>2. /\ Logs' \in [Ids -> Seq(RunEntries)]
          /\ Says(evidence'[id].binding, evidence'[id].passes, Logs'[id])
          /\ \A other \in Ids \ {id} : Logs'[other] = Logs[other] /\ evidence'[other] = evidence[other]
      BY <3>1, RecordedRow, ZenonT(30)
    <3>3. \A other \in Ids \ {id} : Counted(other)'
      BY <1>1, <3>2
    <3>4. Counted(id)'
      BY <3>2 DEF Counted
    <3> QED
      BY <3>2, <3>3, <3>4 DEF LogsInv
  <2> QED
    BY <2>1, <2>2
<1> QED
  BY <1>2, <1>3

\* A history without outcomes is one of empty logs.
LEMMA EmptyReading ==
  ASSUME history = <<>>
  PROVE  Logs = NoLogs
<1>1. Logs = LogsOf(history)
  BY DEF Logs, NoLogs
<1>2. history \in Seq(Records) /\ \A k \in 1 .. Len(history) : history[k].run = 0
  OBVIOUS
<1> QED
  BY <1>1, <1>2, ReadWithoutRuns, Zenon

LEMMA InitLogs == Init => LogsInv
<1> SUFFICES ASSUME Init PROVE LogsInv
  OBVIOUS
<1>1. history \in Seq(Records) /\ history = <<>> /\ \A id \in Ids : evidence[id].binding = {}
  BY DEF Init, NoRow
<1>2. Logs = NoLogs
  BY <1>1, EmptyReading
<1>3. Logs \in [Ids -> Seq(RunEntries)] /\ \A id \in Ids : Logs[id] = <<>> /\ Len(Logs[id]) = 0
  BY <1>2 DEF NoLogs
<1> QED
  BY <1>1, <1>3 DEF LogsInv, Counted, Says

\* A record is a green or a red run, every other step adopts a status.
LEMMA StreaksStep ==
  ASSUME IInv, IInv', CleanInv, LogsInv, [Next]_vars
  PROVE  [Streaks!Next]_(Streaks!vars)
<1>0. TypeOK /\ TypeOK' /\ VerifierInv /\ \A id \in Ids : Counted(id)
  BY DEF IInv, LogsInv
<1> DEFINE status == [id \in Ids |-> evidence[id].state]
<1>1. status' \in [Ids -> Streaks!Statuses]
  <2>1. \A id \in Ids : evidence'[id].state \in Streaks!Statuses
    BY <1>0 DEF TypeOK, Rows, NoRow, States, Streaks!Statuses
  <2> QED
    BY <2>1
<1>2. CASE ~\E v \in Verifiers : Record(v)
  <2>1. Logs' = Logs
    BY <1>2, LogsKept
  <2>2. ASSUME NEW id \in Ids PROVE Logs[id] = <<>> \/ status'[id] = status[id]
    <3>1. Logs[id] = <<>> <=> evidence[id].binding = {}
      BY <1>0 DEF Counted, Says
    <3> QED
      BY <1>2, <3>1, EvidenceKept
  <2>3. Streaks!Adopt
    BY <1>1, <2>1, <2>2 DEF Streaks!Adopt
  <2> QED
    BY <2>3 DEF Streaks!Next
<1>3. ASSUME NEW v \in Verifiers, Record(v) PROVE [Streaks!Next]_(Streaks!vars)
  <2>1. CASE UNCHANGED <<evidence, history, cache>>
    BY <2>1 DEF Streaks!vars, Logs
  <2>2. CASE ~UNCHANGED <<evidence, history, cache>>
    <3>1. PICK id \in CurrentIds, b \in Bindings, passed \in BOOLEAN : RecordOf(v, id, b, passed)
      BY <1>3, <2>2, RecordChoices
    <3>3. PICK log : log = Append(Logs[id], [definition |-> b, passed |-> passed])
      OBVIOUS
    <3>4. id \in Ids /\ status[id] \in States /\ status[id] # "none"
      BY <3>1, ConstantTypes DEF RecordOf, Rows, States
    <3>5. /\ Logs' = [Logs EXCEPT ![id] = log] /\ Logs'[id] = log
          /\ \A other \in Ids \ {id} : evidence'[other] = evidence[other]
          /\ evidence'[id].state = StateAfter(evidence[id], b, passed)
          /\ Streak(evidence[id], b, passed) >= 3 <=> Streaks!ThreeGreens(log)
      <4>1. /\ Logs'[id] = log /\ Logs' \in [Ids -> Seq(RunEntries)]
            /\ \A other \in Ids \ {id} : Logs'[other] = Logs[other] /\ evidence'[other] = evidence[other]
            /\ evidence'[id].state = StateAfter(evidence[id], b, passed)
            /\ Streak(evidence[id], b, passed) >= 3 <=> Streaks!ThreeGreens(Logs'[id])
        BY <3>1, <3>3, RecordedRow
      <4>2. Logs' = [Logs EXCEPT ![id] = log]
        BY <3>4, <4>1 DEF LogsInv
      <4> QED
        BY <4>1, <4>2, Zenon
    <3>6. status' = [status EXCEPT ![id] = StateAfter(evidence[id], b, passed)]
      BY <3>4, <3>5
    <3>7. CASE passed
      <4>1. StateAfter(evidence[id], b, passed) =
               IF Streaks!ThreeGreens(log) THEN "closed" ELSE "verifying"
        BY <3>5, <3>7 DEF StateAfter
      <4>2. log = Append(Logs[id], [definition |-> b, passed |-> TRUE])
        BY <3>3, <3>7
      <4>3. Streaks!Green(id, b)
        BY <3>5, <3>6, <4>1, <4>2 DEF Streaks!Green
      <4> QED
        BY <3>4, <4>3 DEF Streaks!Next
    <3>8. CASE ~passed
      <4>1. StateAfter(evidence[id], b, passed) =
               IF status[id] \in {"verifying", "closed"} THEN "open" ELSE "fix-claimed"
        BY <3>4, <3>8 DEF StateAfter
      <4>2. log = Append(Logs[id], [definition |-> b, passed |-> FALSE])
        BY <3>3, <3>8
      <4>3. Streaks!Red(id, b)
        BY <3>5, <3>6, <4>1, <4>2 DEF Streaks!Red
      <4> QED
        BY <3>4, <4>3 DEF Streaks!Next
    <3> QED
      BY <3>7, <3>8
  <2> QED
    BY <2>1, <2>2
<1> QED
  BY <1>2, <1>3

LEMMA StreaksInit == Init => Streaks!Init
<1> SUFFICES ASSUME Init PROVE Streaks!Init
  OBVIOUS
<1>1. Logs = NoLogs
  BY EmptyReading DEF Init
<1>2. [id \in Ids |-> evidence[id].state] = [id \in Ids |-> "none"]
  BY DEF Init, NoRow
<1> QED
  BY <1>1, <1>2 DEF Streaks!Init, NoLogs

-----------------------------------------------------------------------------
(* The theorems.                                                            *)

\* The strengthened invariant holds of every behaviour of the lifecycle.
THEOREM Strengthened == Spec => []IInv
<1>1. IInv /\ [Next]_vars => IInv'
  BY TypeStep, VerifierStep, ClassedStep, UnimportedStep, CodesStep, StreakStep DEF IInv
<1> QED
  BY InitIInv, <1>1, PTL DEF Spec

\* Every variable keeps its type, whatever the number of groups, codes, cases,
\* verifications and promotions and whatever an older release left behind.
THEOREM TypeCorrect == Spec => []TypeOK
  BY Strengthened, PTL DEF IInv

\* A verification never closes a finding on fewer than three runs that are the
\* last of the finding in lifecycle.db, green and bound to one definition.
THEOREM ClosedSafely == Spec => []ClosedByThreeGreens
<1>1. IInv => ClosedByThreeGreens
  BY DEF IInv, StreakInv, ClosedByThreeGreens
<1> QED
  BY <1>1, Strengthened, PTL

\* The durable history only grows: a step leaves every outcome where it is and
\* changes at most an outcome without a run, from an id of an older release to
\* the error finding of its group, however many promotions and verifications
\* interleave.
THEOREM HistoryKept == Spec => HistoryRetained
<1>1. IInv /\ [Next]_vars =>
         [\A k \in 1 .. Len(history) :
             /\ k <= Len(history')
             /\ history'[k] # history[k] =>
                   /\ history[k].run = 0 /\ history[k].finding[2] \in Codes
                   /\ history'[k] = [history[k] EXCEPT !.finding = ErrorId(@[1])]]_vars
  BY RetainedStep
<1> QED
  BY <1>1, Strengthened, PTL DEF Spec, HistoryRetained

\* No number of attached commands imports an older index.db twice.
THEOREM ImportedOnce == Spec => []LegacyImportedOnce
<1>1. Init => LegacyFirst
  BY DEF Init, LegacyFirst
<1>2. LegacyFirst => LegacyImportedOnce
  <2> SUFFICES ASSUME LegacyFirst PROVE LegacyImportedOnce
    OBVIOUS
  <2> DEFINE imports == {k \in 1 .. Len(history) : history[k].run = 0}
  <2>0. Len(LegacyHistory) \in Nat
    BY ConstantTypes
  <2>1. /\ IsFiniteSet(1 .. Len(LegacyHistory))
        /\ Cardinality(1 .. Len(LegacyHistory)) = Len(LegacyHistory)
    <3> HIDE DEF imports
    <3>1. 1 \in Int /\ Len(LegacyHistory) \in Int /\ (1 > Len(LegacyHistory) => Len(LegacyHistory) = 0)
      BY <2>0
    <3>2. /\ IsFiniteSet(1 .. Len(LegacyHistory))
          /\ Cardinality(1 .. Len(LegacyHistory)) =
                IF 1 > Len(LegacyHistory) THEN 0 ELSE Len(LegacyHistory) - 1 + 1
      BY <3>1, FS_Interval, Zenon
    <3> QED
      BY <2>0, <3>1, <3>2
  <2>2. imports \in SUBSET (1 .. Len(LegacyHistory))
    BY LegacyAssumption DEF LegacyFirst
  <2>3. Cardinality(imports) <= Cardinality(1 .. Len(LegacyHistory))
    BY <2>1, <2>2, FS_Subset
  <2> QED
    BY <2>1, <2>3 DEF LegacyImportedOnce
<1> QED
  BY <1>1, <1>2, LegacyFirstStep, Strengthened, PTL DEF Spec

\* A recorded run was executed from the bytes it is bound to, at whatever
\* moments between observing, launching and comparing the target is rebuilt.
THEOREM RanOnBoundBytes == Spec => []EvidenceRanOnBoundBytes
<1>1. Init => BytesInv
  BY DEF Init, Idle, BytesInv, EvidenceRanOnBoundBytes
<1>2. BytesInv => EvidenceRanOnBoundBytes
  BY DEF BytesInv
<1> QED
  BY <1>1, <1>2, BytesStep, Strengthened, PTL DEF Spec

\* A projection of this release never differs from the durable evidence.
THEOREM CacheFollows == Spec => []CacheAgrees
<1>1. Init => CacheAgrees
  BY DEF Init, AbsentCache, LegacyCache, CacheAgrees
<1> QED
  BY <1>1, CacheStep, Strengthened, PTL DEF Spec

\* The pass counter of a finding is never ahead of the distinct green runs of
\* its definition in the history, whatever is replayed, re-keyed or imported.
THEOREM CreditEarned == Spec => []CreditHasRuns
<1>1. Init => RunsCounted /\ CreditHasRuns
  BY DEF Init, Idle, NoRow, RunsCounted, CreditHasRuns
<1> QED
  BY <1>1, CreditStep, RunsCountedStep, Strengthened, PTL DEF Spec

\* The lifecycle implements the documented one: whatever is imported, re-keyed,
\* replayed or recorded concurrently, the status of a finding changes with its
\* logged runs exactly as three greens of one definition and reds decide, and
\* nothing else touches a finding that has runs.
THEOREM FollowsStreaks == Spec => ImplementsStreaks
<1>1. Init => CleanInv /\ LogsInv
  BY InitClean, InitLogs
<1>2. Spec => [](CleanInv /\ LogsInv)
  BY <1>1, CleanStep, LogsStep, Strengthened, PTL DEF Spec
<1> QED
  BY <1>2, StreaksInit, StreaksStep, Strengthened, PTL DEF Spec, ImplementsStreaks, Streaks!Spec
=============================================================================
