----------------------------- MODULE TrendCache -----------------------------
(***************************************************************************)
(* The readiness history and its derived cache (trends.rs, trends/cache.rs)*)
(* Probe runs append a line under an exclusive lock; readers hold a shared *)
(* lock on the file while they bring the cache up to date in one SQLite    *)
(* transaction, and scan the journal when that fails.  Recorders may die   *)
(* in the middle of a line, readers at any step, and an external editor,   *)
(* which takes no lock, may replace the file or rewrite it in place.       *)
(* A digest stands for the lines it covers.                                *)
(***************************************************************************)
EXTENDS Naturals, Sequences, FiniteSets, SequencesExt, FiniteSetsExt

CONSTANTS
    Readers,     \* processes that load trends
    Points,      \* what a run records: a server and a time
    Newest,      \* points wanted per server
    MaxAppends,  \* bound: lines started
    MaxEdits,    \* bound: external edits
    MaxDeaths    \* bound: processes that die

ASSUME TrendAssumption ==
    /\ Newest \in Nat /\ MaxAppends \in Nat /\ MaxEdits \in Nat /\ MaxDeaths \in Nat
    /\ \A p \in Points : p.ts \in Nat /\ p.server \notin {"half", "garbled"}

VARIABLES
    files,     \* the files that were ever at the path: sequences of lines
    path,      \* which of them is there now
    cache,     \* the committed cache: rows and the lines of its checkpoint, of
               \* which no lines are as good as no checkpoint
    reader,    \* per reader: where it is, its open file, its transaction, its result
    seen,      \* history: per reader, what the path held since it began
    bounds

trendVars == <<files, path, cache, reader, seen, bounds>>

\* A line is a point, or half a record, which no newline ends, or half a record
\* another one was appended to.
Half == [server |-> "half", ts |-> 0]
Garbled == [server |-> "garbled", ts |-> 0]
Complete(lines) == IF lines # <<>> /\ Last(lines) = Half THEN Front(lines) ELSE lines
Corrupt(lines) == Garbled \in ToSet(lines)

Idle == [pc |-> "idle", file |-> 0, snapshot |-> <<>>, rows |-> <<>>, prefix |-> <<>>,
         got |-> "nothing", points |-> <<>>]

TrendInit ==
    /\ files = << <<>> >>
    /\ path = 1
    /\ cache = [rows |-> <<>>, checkpoint |-> <<>>]
    /\ reader = [r \in Readers |-> Idle]
    /\ seen = [r \in Readers |-> {}]
    /\ bounds = [appends |-> 0, edits |-> 0, deaths |-> 0]

Loading(r) == reader[r].pc # "idle"
InTransaction(r) == reader[r].pc \in {"snapped", "visited"}

\* Readers that loaded before keep what they got; those that load see the path.
Held(newFiles, newPath) ==
    seen' = [r \in Readers |-> IF Loading(r) THEN seen[r] \cup {newFiles[newPath]} ELSE seen[r]]

-----------------------------------------------------------------------------
\* What is shown: the last points of each server in the order of their times,
\* those of equal times in the order of the lines.

Servers == {p.server : p \in Points}
Follows(rows, i, j) ==
    rows[i].ts > rows[j].ts \/ (rows[i].ts = rows[j].ts /\ i >= j)
RowsOf(rows, s) == {i \in DOMAIN rows : rows[i].server = s}

\* ROW_NUMBER() over the rows of a server, from the last.
RowNumber(rows, s, i) == Cardinality({j \in RowsOf(rows, s) : Follows(rows, j, i)})
Recent(rows, s) ==
    LET kept == {i \in RowsOf(rows, s) : RowNumber(rows, s, i) <= Newest}
        n == Cardinality(kept)
    IN  [k \in 1..n |-> rows[CHOOSE i \in kept : RowNumber(rows, s, i) = n + 1 - k]]

\* The query of the cache.
Shown(rows) == [s \in Servers |-> Recent(rows, s)]

\* scan: a point is inserted after those that are not later, then the first
\* of too many is dropped.
Insert(recent, p) ==
    LET index == Cardinality({i \in DOMAIN recent : recent[i].ts <= p.ts})
        longer == SubSeq(recent, 1, index) \o <<p>> \o SubSeq(recent, index + 1, Len(recent))
    IN  IF Len(longer) > Newest THEN Tail(longer) ELSE longer
Grouped(groups, p) == [groups EXCEPT ![p.server] = Insert(@, p)]
Scanned(rows) == FoldLeft(Grouped, [s \in Servers |-> <<>>], rows)
-----------------------------------------------------------------------------
\* The lock is on the file, not on the path: readers of a file that was
\* replaced do not hold up recorders.
Locked(f) == \E r \in Readers : Loading(r) /\ reader[r].file = f

\* record: one line appended under the exclusive lock.  Behind half a record
\* it ends that line, which no longer parses.
Appended(lines, p) ==
    IF lines # <<>> /\ Last(lines) = Half THEN Front(lines) \o <<Garbled>> ELSE Append(lines, p)

Record ==
    /\ bounds.appends < MaxAppends /\ ~Locked(path)
    /\ \E p \in Points : files' = [files EXCEPT ![path] = Appended(@, p)]
    /\ bounds' = [bounds EXCEPT !.appends = @ + 1]
    /\ Held(files', path)
    /\ UNCHANGED <<path, cache, reader>>

\* A recorder dies in write_all.
RecorderDies ==
    /\ bounds.appends < MaxAppends /\ bounds.deaths < MaxDeaths /\ ~Locked(path)
    /\ files' = [files EXCEPT ![path] = Appended(@, Half)]
    /\ bounds' = [bounds EXCEPT !.appends = @ + 1, !.deaths = @ + 1]
    /\ Held(files', path)
    /\ UNCHANGED <<path, cache, reader>>

\* An external editor drops the first line, or puts another point there, and
\* saves in place or over the path.
Edit ==
    /\ bounds.edits < MaxEdits /\ files[path] # <<>> /\ Head(files[path]) \in Points
    /\ \E lines \in {Tail(files[path])}
                      \cup {[files[path] EXCEPT ![1] = p] : p \in Points \ {files[path][1]}} :
         \/ files' = [files EXCEPT ![path] = lines] /\ UNCHANGED path
         \/ files' = Append(files, lines) /\ path' = Len(files) + 1
    /\ bounds' = [bounds EXCEPT !.edits = @ + 1]
    /\ Held(files', path')
    /\ UNCHANGED <<cache, reader>>

\* load: the journal is opened and its shared lock taken.
Open(r) ==
    /\ reader[r].pc = "idle"
    /\ reader' = [reader EXCEPT ![r] = [Idle EXCEPT !.pc = "opened", !.file = path]]
    /\ seen' = [seen EXCEPT ![r] = {files[path]}]
    /\ UNCHANGED <<files, path, cache, bounds>>

\* (A mutant of Extends.) A journal that has not shrunk is taken to have grown.
NotShorter(checkpoint, lines) == Len(checkpoint) <= Len(lines)

\* The digest of the lines the checkpoint covers is still the same.
Extends(checkpoint, lines) == IsPrefix(checkpoint, lines)

\* The transaction begins (BEGIN IMMEDIATE: one at a time), the journal is
\* digested, and the rows of an unchanged prefix are kept.
Begin(r) ==
    /\ reader[r].pc = "opened" /\ \A q \in Readers : ~InTransaction(q)
    /\ LET lines == files[reader[r].file]
           keep == Extends(cache.checkpoint, lines)
       IN  reader' = [reader EXCEPT
              ![r].pc = "snapped",
              ![r].snapshot = lines,
              ![r].rows = IF keep THEN cache.rows ELSE <<>>,
              ![r].prefix = IF keep THEN SubSeq(lines, 1, Len(cache.checkpoint)) ELSE <<>>]
    /\ UNCHANGED <<files, path, cache, seen, bounds>>

\* (A mutant of GiveUp.) The cache's error is the load's.
Propagate(r) == reader' = [reader EXCEPT ![r] = [Idle EXCEPT !.got = "error"]]

\* Any error on the way rolls the transaction back and closes the file.
GiveUp(r) == reader' = [reader EXCEPT ![r].pc = "scanning", ![r].file = 0]

\* The cache cannot be opened, is corrupt, or stays busy for too long.
CacheFails(r) ==
    /\ reader[r].pc = "opened"
    /\ GiveUp(r)
    /\ UNCHANGED <<files, path, cache, seen, bounds>>

\* The complete lines behind the prefix are read and inserted; an unfinished
\* last line stays for a later refresh.  The file may meanwhile have shrunk.
Visit(r) ==
    LET lines == files[reader[r].file]
        snapshot == reader[r].snapshot
        read == SubSeq(lines, Len(reader[r].prefix) + 1, Min({Len(lines), Len(snapshot)}))
        offset == Len(reader[r].prefix) + Len(Complete(read))
    IN  /\ reader[r].pc = "snapped"
        /\ IF Corrupt(read) \/ (offset < Len(snapshot) /\ offset > Len(lines))
           THEN GiveUp(r)
           ELSE reader' = [reader EXCEPT
                   ![r].pc = "visited",
                   ![r].rows = @ \o Complete(read),
                   ![r].prefix = IF offset = Len(snapshot) THEN snapshot ELSE SubSeq(lines, 1, offset)]
        /\ UNCHANGED <<files, path, cache, seen, bounds>>

\* (A mutant of Unchanged.) Nothing is compared.
Trusting(r) == TRUE

\* The file now at the path begins with what was digested.
Unchanged(r) == IsPrefix(reader[r].snapshot, files[path])

Commit(r) ==
    /\ reader[r].pc = "visited"
    /\ IF Unchanged(r)
       THEN /\ cache' = [rows |-> reader[r].rows, checkpoint |-> reader[r].prefix]
            /\ reader' = [reader EXCEPT ![r] = [Idle EXCEPT !.got = "points", !.points = Shown(reader[r].rows)]]
       ELSE GiveUp(r) /\ UNCHANGED cache
    /\ UNCHANGED <<files, path, seen, bounds>>

\* The fallback: the path is opened anew and scanned.
Scan(r) ==
    /\ reader[r].pc = "scanning"
    /\ LET lines == files[path]
       IN  reader' = [reader EXCEPT ![r] =
                        IF Corrupt(lines) THEN [Idle EXCEPT !.got = "error"]
                        ELSE [Idle EXCEPT !.got = "points", !.points = Scanned(Complete(lines))]]
    /\ UNCHANGED <<files, path, cache, seen, bounds>>

ReaderDies(r) ==
    /\ Loading(r) /\ bounds.deaths < MaxDeaths
    /\ reader' = [reader EXCEPT ![r] = Idle]
    /\ bounds' = [bounds EXCEPT !.deaths = @ + 1]
    /\ UNCHANGED <<files, path, cache, seen>>

TrendNext ==
    \/ Record \/ RecorderDies \/ Edit
    \/ \E r \in Readers :
         \/ Open(r) \/ Begin(r) \/ CacheFails(r) \/ Visit(r) \/ Commit(r)
         \/ Scan(r) \/ ReaderDies(r)

TrendSpec == TrendInit /\ [][TrendNext]_trendVars
-----------------------------------------------------------------------------
\* What a reader is given is what a plain scan shows of the journal as it stood
\* at some moment of its load, through any cache, half-written line, death of a
\* reader and edit of the file: the cache never supplies stale rows, and its
\* troubles are never those of the reader, whom only a journal with a line that
\* does not parse fails.
ServedIsJournal ==
    \A r \in Readers :
        /\ reader[r].got = "points" =>
              \E lines \in seen[r] : ~Corrupt(lines) /\ reader[r].points = Scanned(Complete(lines))
        /\ reader[r].got = "error" => \E lines \in seen[r] : Corrupt(lines)
=============================================================================
