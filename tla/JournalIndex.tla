---------------------------- MODULE JournalIndex ----------------------------
(***************************************************************************)
(* The derived history index (index.rs, index/journal.rs) over the JSONL   *)
(* journals that recorders append to (store.rs, jsonl.rs).                 *)
(*                                                                         *)
(* A refresh runs in one transaction of index.db, but reads the journals   *)
(* file by file, each under its own lock: recorders append and editors     *)
(* change bytes between any two of its steps.  It reuses what an earlier   *)
(* refresh indexed when the journals only grew at the end of the sorted    *)
(* file order, and must arrive at the index that a reconstruction from     *)
(* the journals would give.                                                *)
(*                                                                         *)
(* A journal is a sequence of chunks: a line, the head of a line whose     *)
(* writer died, or the tail that completes it.  A digest of a prefix is    *)
(* the prefix; row ids are positions.                                      *)
(***************************************************************************)
EXTENDS Naturals, SequencesExt, FiniteSetsExt

CONSTANTS AnnotationFiles, CallFiles, \* how many file names of each kind
          Scenarios,         \* what is written and edited, see Scenario
          MaxRefreshes       \* bound: refreshes

\* File names in their sorted order: "annotations-..." before "calls-...".
Names == 1 .. AnnotationFiles + CallFiles
KindOf(f) == IF f > AnnotationFiles THEN "calls" ELSE "annotations"

\* Recorders append calls (event, capture, session and server, seq) and notes
\* (event, or event = 0 and session, seq) to files, in at most writes chunks;
\* editors that ignore the locks make at most edits changes of some kinds.
Scenario(s) ==
    /\ s.files \subseteq Names
    /\ s.writes \in Nat /\ s.edits \in Nat
    /\ s.kinds \subseteq {"replace", "truncate", "remove"}

ASSUME JournalIndexAssumption ==
    /\ AnnotationFiles \in Nat /\ CallFiles \in Nat /\ MaxRefreshes \in Nat
    /\ \A s \in Scenarios : Scenario(s)

VARIABLES
    journals,  \* the files that exist, with their chunks
    db,        \* the committed index
    work,      \* the index as the open transaction sees it
    plan,      \* journal::Plan and the progress of the refresh; what changed
    bounds,    \* writes, edits and refreshes so far, and the scenario
    basis,     \* auxiliary: the journals the committed index was derived from
    refused,   \* auxiliary: the journals a refresh refused a record of, or <<>>
    instant,   \* auxiliary: all journals at the moment the plan was complete
    known      \* auxiliary: annotations appended when their call was recorded

vars == <<journals, db, work, plan, bounds, basis, refused, instant, known>>

NoFiles == [f \in {} |-> <<>>]

\* files with one of them given a value.
With(files, f, value) ==
    [g \in DOMAIN files \cup {f} |-> IF g = f THEN value ELSE files[g]]

Idle == [pc |-> "idle", files |-> {}, todo |-> {}, prior |-> NoFiles, mode |-> "rebuild",
         snapshot |-> NoFiles, offset |-> NoFiles, changed |-> {}]

EmptyIndex == [version |-> "none", sources |-> NoFiles, replayed |-> 0, calls |-> <<>>,
               windows |-> <<>>, annotations |-> <<>>]

Init ==
    /\ journals = NoFiles
    /\ db = EmptyIndex /\ work = EmptyIndex
    /\ plan = Idle
    /\ \E s \in Scenarios :
         bounds = [writes |-> 0, edits |-> 0, refreshes |-> 0, scenario |-> s]
    /\ basis = NoFiles /\ refused = NoFiles /\ instant = NoFiles
    /\ known = {}

-----------------------------------------------------------------------------
(* The writers and the editors.                                              *)

RecordsOf(f) == IF KindOf(f) = "calls" THEN bounds.scenario.calls ELSE bounds.scenario.notes

Chunk(part, record) == [part |-> part, record |-> record]

Content(f) == IF f \in DOMAIN journals THEN journals[f] ELSE <<>>

Holds(record) == \E f \in DOMAIN journals : \E k \in DOMAIN journals[f] :
                    KindOf(f) = "calls" /\ journals[f][k] = Chunk("line", record)

Append_(f, chunk) ==
    /\ bounds.writes < bounds.scenario.writes /\ f \in bounds.scenario.files
    /\ bounds' = [bounds EXCEPT !.writes = @ + 1]
    /\ journals' = With(journals, f, Append(Content(f), chunk))
    /\ UNCHANGED <<db, work, plan, basis, refused, instant>>

\* append and append_annotation: one line, under an exclusive lock.
AppendRecord(f, record) ==
    /\ Append_(f, Chunk("line", record))
    /\ known' = IF KindOf(f) = "annotations" /\ \E call \in bounds.scenario.calls :
                      call.event = record.event /\ record.event # 0 /\ Holds(call)
                THEN known \cup {[file |-> f, position |-> Len(Content(f)) + 1]} ELSE known

\* The writer dies in write_all; nothing removes what it has written.
AppendTorn(f, record) ==
    /\ Append_(f, Chunk("head", record)) /\ UNCHANGED known

\* A writer that does not lock completes its line.
CompleteTail(f) ==
    /\ Content(f) # <<>> /\ Last(Content(f)).part = "head"
    /\ Append_(f, Chunk("tail", Last(Content(f)).record)) /\ UNCHANGED known

Edited(f, kind) ==
    CASE kind = "replace" -> {[journals EXCEPT ![f] = [@ EXCEPT ![k] = Chunk("line", record)]] :
                                k \in DOMAIN journals[f], record \in RecordsOf(f)}
      [] kind = "truncate" -> {[journals EXCEPT ![f] = SubSeq(@, 1, n)] :
                                 n \in 0 .. Len(journals[f]) - 1}
      [] kind = "remove" -> {[g \in DOMAIN journals \ {f} |-> journals[g]]}

Edit ==
    /\ bounds.edits < bounds.scenario.edits
    /\ bounds' = [bounds EXCEPT !.edits = @ + 1]
    /\ \E kind \in bounds.scenario.kinds : \E f \in DOMAIN journals : journals' \in Edited(f, kind) \ {journals}
    /\ UNCHANGED <<db, work, plan, basis, refused, instant, known>>

-----------------------------------------------------------------------------
(* Reading a journal.                                                        *)
(* A definition named after what it gets wrong is a mutated form of the one  *)
(* that follows: a plausible bug in the code, which a property must notice.  *)

ReadChunk(state, chunk) ==
    LET position == state.position + 1
        ended == chunk.part # "head"
        good == \/ chunk.part = "line" /\ state.heads = <<>>
                \/ chunk.part = "tail" /\ state.heads = <<chunk.record>>
    IN  [position |-> position,
         heads |-> IF ended THEN <<>> ELSE Append(state.heads, chunk.record),
         complete |-> IF ended THEN position ELSE state.complete,
         records |-> IF good THEN Append(state.records, chunk.record) ELSE state.records,
         verdict |-> IF ended /\ ~good THEN "malformed" ELSE state.verdict]

\* visit_complete: the records of the complete lines and the length of these
\* lines; a head at the end is left for later, a line glued to a head is an error.
Lines(chunks) ==
    FoldLeft(ReadChunk, [position |-> 0, heads |-> <<>>, complete |-> 0, records |-> <<>>,
                         verdict |-> "fine"], chunks)

AcceptByEvent(state, record) ==
    LET previous == {call \in ToSet(state.index.calls) : call.event = record.event}
    IN  IF record.event # 0 /\ previous # {}
        THEN [index |-> [state.index EXCEPT !.replayed = @ + 1],
              verdict |-> IF record \in previous THEN state.verdict ELSE "conflict"]
        ELSE [index |-> [state.index EXCEPT !.calls = Append(@, record)],
              verdict |-> state.verdict]

\* build_mode's visitor of call records.  index_events and index_captures hold
\* what the indexed calls with an identity say.
AcceptCall(state, record) ==
    LET identified == {call \in ToSet(state.index.calls) : call.event # 0}
        previous == {call \in identified : call.event = record.event}
        clash == {call \in identified : /\ call.capture = record.capture
                                        /\ \/ call.session # record.session
                                           \/ call.seq = record.seq}
    IN  IF record.event # 0 /\ previous # {}
        THEN [index |-> [state.index EXCEPT !.replayed = @ + 1],
              verdict |-> IF record \in previous THEN state.verdict ELSE "conflict"]
        ELSE [index |-> [state.index EXCEPT !.calls = Append(@, record)],
              verdict |-> IF record.event = 0 \/ clash = {} THEN state.verdict ELSE "conflict"]

\* The call an annotation is about: the one with its event, or the only one at
\* its session and sequence number.
Target(calls, record) ==
    LET hits == {i \in DOMAIN calls :
                   IF record.event # 0 THEN calls[i].event = record.event
                   ELSE calls[i].session = record.session /\ calls[i].seq = record.seq}
    IN  IF Cardinality(hits) = 1 THEN CHOOSE i \in hits : TRUE ELSE 0

AcceptAnnotation(state, record) ==
    [index |-> [state.index EXCEPT !.annotations =
                  Append(@, [record |-> record, call |-> Target(state.index.calls, record)])],
     verdict |-> state.verdict]

Accept(kind, state, record) ==
    IF kind = "calls" THEN AcceptCall(state, record) ELSE AcceptAnnotation(state, record)

\* All the records that were read, one after the other.
AcceptAll(kind, index, lines) ==
    FoldLeft(LAMBDA state, record : Accept(kind, state, record),
             [index |-> index, verdict |-> lines.verdict], lines.records)

-----------------------------------------------------------------------------
(* The refresh.                                                              *)

LastOf(files) == CHOOSE f \in files : \A g \in files : g <= f
First(files) == CHOOSE f \in files : \A g \in files : f <= g

\* The transaction is rolled back: an error, or the process dies.
Rollback ==
    /\ plan' = Idle
    /\ work' = db
    /\ UNCHANGED <<journals, db, bounds, basis, instant, known>>

Step(next) ==
    /\ plan' = next
    /\ UNCHANGED <<journals, db, bounds, basis, refused, known>>

\* The immediate transaction is open.  rebuilding: --rebuild, or a cache with
\* another version or schema, or none.
Begin(rebuilding) ==
    /\ plan.pc = "idle" /\ bounds.refreshes < MaxRefreshes
    /\ bounds' = [bounds EXCEPT !.refreshes = @ + 1]
    /\ LET compatible == db.version = "current" /\ ~rebuilding
       IN  plan' = [Idle EXCEPT !.pc = "prepare",
                      !.files = DOMAIN journals, !.todo = DOMAIN journals,
                      !.prior = IF compatible THEN db.sources ELSE NoFiles,
                      !.mode = IF compatible THEN "incremental" ELSE "rebuild"]
    /\ work' = db
    /\ UNCHANGED <<journals, db, basis, refused, instant, known>>

\* The file still begins with these chunks: what a digest of its prefix shows.
IsLongEnough(f, chunks) == f \in DOMAIN journals /\ Len(chunks) <= Len(journals[f])
Begins(f, chunks) == f \in DOMAIN journals /\ IsPrefix(chunks, journals[f])

\* prepare, one file: its length and digest, and whether it still begins with
\* what the checkpoint says was read.
Prepare ==
    /\ plan.pc = "prepare" /\ plan.todo # {}
    /\ LET f == First(plan.todo)
           checked == f \in DOMAIN plan.prior
           matches == checked /\ Begins(f, plan.prior[f].digest)
       IN  IF f \notin DOMAIN journals THEN Rollback /\ UNCHANGED refused
           ELSE /\ Step([plan EXCEPT
                           !.todo = @ \ {f},
                           !.snapshot = With(@, f, journals[f]),
                           !.offset = With(@, f, IF matches THEN plan.prior[f].offset ELSE 0),
                           !.mode = IF checked /\ ~matches THEN "rebuild" ELSE @])
                /\ UNCHANGED <<work, instant>>

\* The files that were read are still the first ones of their kind.
KeepsOrderOfNames(kind) ==
    LET old == {f \in DOMAIN plan.prior : KindOf(f) = kind}
        new == {f \in plan.files : KindOf(f) = kind} \ old
    IN  old \subseteq plan.files /\ \A f \in old, g \in new : f < g

\* And all but the last of them did not grow.
KeepsOrder(kind) ==
    LET old == {f \in DOMAIN plan.prior : KindOf(f) = kind}
    IN  /\ KeepsOrderOfNames(kind)
        /\ \A f \in old : (\E g \in old : f < g) => Len(plan.snapshot[f]) = plan.offset[f]

\* The end of prepare: an incremental refresh keeps the rows and goes on where
\* the last one ended; any other begins with empty tables.
Decide ==
    /\ plan.pc = "prepare" /\ plan.todo = {}
    /\ LET incremental == /\ plan.mode = "incremental"
                          /\ KeepsOrder("calls") /\ KeepsOrder("annotations")
       IN  /\ Step([plan EXCEPT
                      !.pc = "calls", !.todo = {f \in plan.files : KindOf(f) = "calls"},
                      !.mode = IF incremental THEN @ ELSE "rebuild",
                      !.offset = [f \in plan.files |-> IF incremental THEN @[f] ELSE 0]])
           /\ work' = IF incremental THEN db ELSE EmptyIndex
    /\ instant' = journals

\* visit, one file: nothing to read, or the bytes changed, or a record is
\* refused, or its complete lines are taken in.
Visit ==
    /\ plan.pc \in {"calls", "annotations"} /\ plan.todo # {}
    /\ LET f == First(plan.todo)
           lines == Lines(SubSeq(plan.snapshot[f], plan.offset[f] + 1, Len(plan.snapshot[f])))
           result == AcceptAll(plan.pc, work, lines)
           offset == plan.offset[f] + lines.complete
       IN  IF plan.offset[f] = Len(plan.snapshot[f])
           THEN Step([plan EXCEPT !.todo = @ \ {f}]) /\ UNCHANGED <<work, instant>>
           ELSE IF ~Begins(f, plan.snapshot[f]) THEN Rollback /\ UNCHANGED refused
           ELSE IF result.verdict # "fine" THEN Rollback /\ refused' = plan.snapshot
           ELSE /\ work' = [result.index EXCEPT
                              !.sources = With(@, f,
                                 [offset |-> offset,
                                  digest |-> SubSeq(plan.snapshot[f], 1, offset)])]
                /\ Step([plan EXCEPT !.todo = @ \ {f},
                                     !.changed = IF lines.records = <<>> THEN @
                                                 ELSE @ \cup {plan.pc}])
                /\ UNCHANGED instant

\* The windows around failures are derived from all calls anew.
Correlate ==
    /\ plan.pc = "calls" /\ plan.todo = {}
    /\ work' = IF "calls" \in plan.changed \/ plan.mode = "rebuild"
               THEN [work EXCEPT !.windows = work.calls] ELSE work
    /\ Step([plan EXCEPT !.pc = "annotations",
                         !.todo = {f \in plan.files : KindOf(f) = "annotations"}])
    /\ UNCHANGED instant

\* New calls can resolve annotations, or make their targets ambiguous.
Relink ==
    /\ plan.pc = "annotations" /\ plan.todo = {}
    /\ LET linked(row) == [row EXCEPT !.call = Target(work.calls, row.record)]
       IN  work' = IF plan.changed # {}
                   THEN [work EXCEPT !.annotations = [k \in DOMAIN @ |-> linked(@[k])]]
                   ELSE work
    /\ Step([plan EXCEPT !.pc = "inventory"])
    /\ UNCHANGED instant

\* finish: the same files exist, and begin with what was read.
Inventory ==
    /\ plan.pc = "inventory"
    /\ IF DOMAIN journals = plan.files
       THEN Step([plan EXCEPT !.pc = "finish", !.todo = plan.files]) /\ UNCHANGED <<work, instant>>
       ELSE Rollback /\ UNCHANGED refused

StillExists(f) == f \in DOMAIN journals
StillBegins(f) == Begins(f, plan.snapshot[f])

FinishFile ==
    /\ plan.pc = "finish" /\ plan.todo # {}
    /\ LET f == First(plan.todo)
       IN  IF StillBegins(f)
           THEN Step([plan EXCEPT !.todo = @ \ {f}]) /\ UNCHANGED <<work, instant>>
           ELSE Rollback /\ UNCHANGED refused

Commit ==
    /\ plan.pc = "finish" /\ plan.todo = {}
    /\ db' = [work EXCEPT !.version = "current"]
    /\ work' = db'
    /\ basis' = plan.snapshot
    /\ plan' = Idle
    /\ UNCHANGED <<journals, bounds, refused, instant, known>>

Die == plan.pc # "idle" /\ Rollback /\ UNCHANGED refused

Refresh ==
    \/ \E rebuilding \in BOOLEAN : Begin(rebuilding)
    \/ Prepare \/ Decide
    \/ Visit \/ Correlate \/ Relink
    \/ Inventory \/ FinishFile \/ Commit

Writers ==
    \/ \E f \in Names : \/ \E record \in RecordsOf(f) : AppendRecord(f, record) \/ AppendTorn(f, record)
                        \/ CompleteTail(f)
    \/ Edit

Next == Refresh \/ Die \/ Writers

Spec == Init /\ [][Next]_vars
-----------------------------------------------------------------------------
(* Reference: the index of a set of journals, without folding over them.     *)

\* All records of a kind, by the names of their files.
Journal(snapshot, kind) ==
    FlattenSeq([f \in Names |-> IF f \in DOMAIN snapshot /\ KindOf(f) = kind
                                THEN Lines(snapshot[f]).records ELSE <<>>])

\* A replay repeats an event; what is no event is never a replay.
Firsts(records) ==
    {i \in DOMAIN records : records[i].event # 0 =>
                               \A j \in 1 .. i - 1 : records[j].event # records[i].event}

\* No two records are of one event, or of one place in a capture.
Agree(records) ==
    \A a, b \in {r \in records : r.event # 0} :
        a # b => /\ a.event # b.event
                 /\ a.capture = b.capture => a.session = b.session /\ a.seq # b.seq

Indexable(snapshot) ==
    /\ \A f \in DOMAIN snapshot : Lines(snapshot[f]).verdict = "fine"
    /\ Agree(ToSet(Journal(snapshot, "calls")))

IsIndexOf(index, snapshot) ==
    LET records == Journal(snapshot, "calls")
        firsts == Firsts(records)
        notes == Journal(snapshot, "annotations")
    IN  /\ \E order \in [1 .. Cardinality(firsts) -> firsts] :
             /\ \A i, j \in DOMAIN order : i < j => order[i] < order[j]
             /\ index.calls = [k \in DOMAIN order |-> records[order[k]]]
        /\ index.windows = index.calls
        /\ index.replayed = Len(records) - Len(index.calls)
        /\ index.annotations =
              [k \in DOMAIN notes |-> [record |-> notes[k], call |-> Target(index.calls, notes[k])]]

(* Properties.                                                               *)

\* Whatever was appended, changed, removed or left half written between and
\* during refreshes, the committed index is the one a reconstruction from the
\* same journals gives, and a refresh refuses only journals that a
\* reconstruction refuses.
SameAsReconstruction ==
    /\ db.version = "current" => Indexable(basis) /\ IsIndexOf(db, basis)
    /\ refused # NoFiles => ~Indexable(refused)

\* The journals of a committed index all began like this at one moment, though
\* they were read one after the other (unless bytes are changed and restored).
OneMoment ==
    [][Commit => /\ DOMAIN instant = plan.files
                 /\ \A f \in plan.files : IsPrefix(plan.snapshot[f], instant[f])]_vars

\* An annotation given to a call that was already recorded is linked to a call
\* in every index that contains it, as long as no editor changed the journals.
KnownCallsLinked ==
    bounds.edits = 0 =>
        \A note \in known :
            note.file \in DOMAIN basis /\ note.position <= Len(basis[note.file]) =>
                \A k \in DOMAIN db.annotations :
                    db.annotations[k].record = basis[note.file][note.position].record =>
                        db.annotations[k].call # 0
=============================================================================
