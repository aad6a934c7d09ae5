------------------------- MODULE JournalIndex_proofs -------------------------
(***************************************************************************)
(* Proofs about the history index, for any number of journals, any records *)
(* that recorders write, any changes that editors make, and any number of  *)
(* refreshes.                                                              *)
(*                                                                         *)
(* SameAsReconstruction: a refresh that is open has indexed exactly what   *)
(* it has read so far (Working): the complete lines before the offsets of  *)
(* its plan, and all lines of the files it has visited (Seen). What an     *)
(* earlier refresh read is still there (PreparingInv), and only the last   *)
(* files of a kind have grown (Ready), so the records of a visited file    *)
(* follow all records of its kind. Taking them in is a fold, whose steps   *)
(* are those of the recursive function of FoldLeft (Folds); an induction   *)
(* over sequences shows that the calls it keeps are the first ones of      *)
(* each event, and that it refuses what disagrees (AcceptCalls).           *)
(*                                                                         *)
(* OneMoment: a file that was changed after it was read does not begin     *)
(* with its snapshot when the last checks are made, as nothing restores    *)
(* it (FewEdits).                                                          *)
(*                                                                         *)
(* KnownCallsLinked: the files are read in the order of their names, in    *)
(* which annotations come first; where an annotation is read, its call is  *)
(* read, or its file was created since (NoteIsKnown).                      *)
(***************************************************************************)
EXTENDS JournalIndex, SequenceTheorems, FiniteSetTheorems, WellFoundedInduction, TLAPS

-----------------------------------------------------------------------------
(* Folding: what FoldLeft goes through.                                     *)

\* Induction over the numbers: the least counterexample has a predecessor.
LEMMA InductionOnNat ==
  ASSUME NEW S, 0 \in S, \A n \in Nat : n \in S => n + 1 \in S
  PROVE  \A n \in Nat : n \in S
<1> DEFINE T == Nat \ S
<1> SUFFICES ASSUME T # {} PROVE FALSE
  OBVIOUS
<1>1. IsWellFoundedOn(OpToRel(<, Nat), Nat)
  BY NatLessThanWellFounded, Zenon
<1>2. PICK x \in T : \A y \in T : ~(<<y, x>> \in OpToRel(<, Nat))
  <2> HIDE DEF T
  <2>1. T \subseteq Nat
    BY DEF T
  <2> QED
    BY <1>1, <2>1, WFMin, Zenon
<1>3. x \in Nat /\ x # 0
  BY <1>2
<1>4. x - 1 \in Nat /\ x - 1 < x /\ (x - 1) + 1 = x
  BY <1>3
<1>5. x - 1 \notin T
  BY <1>2, <1>3, <1>4 DEF OpToRel
<1> QED
  BY <1>2, <1>4, <1>5

\* And over the lists that grow at their end.
LEMMA InductionOnSeq ==
  ASSUME NEW S, NEW T, <<>> \in T,
         \A s \in Seq(S) : \A e \in S : s \in T => Append(s, e) \in T
  PROVE  \A s \in Seq(S) : s \in T
<1> DEFINE N == {n \in Nat : \A s \in Seq(S) : Len(s) = n => s \in T}
<1>1. 0 \in N
  BY EmptySeq
<1>2. ASSUME NEW n \in Nat, n \in N PROVE n + 1 \in N
  <2> SUFFICES ASSUME NEW s \in Seq(S), Len(s) = n + 1 PROVE s \in T
    BY <1>2
  <2>1. s # <<>>
    BY <1>2
  <2>2. PICK t \in Seq(S), e \in S : s = Append(t, e)
    BY <2>1, SequenceEmptyOrAppend, Zenon
  <2>3. Len(t) = n
    BY <2>2
  <2>4. t \in T
    BY <1>2, <2>3
  <2> QED
    BY <2>2, <2>4
<1>3. \A n \in Nat : n \in N
  <2> HIDE DEF N
  <2> QED
    BY <1>1, <1>2, InductionOnNat
<1> QED
  BY <1>3, LenProperties

\* What reading a line, or accepting a record, makes of what it had.
After(kind, state, x) == IF kind = "lines" THEN ReadChunk(state, x) ELSE Accept(kind, state, x)

\* The function that FoldLeft evaluates: what has been made of a set of positions.
Folds(kind, base, g, s, n) ==
    g = [t \in SUBSET (1 .. n) |->
           IF t = {} THEN base ELSE After(kind, g[t \ {Max(t)}], s[Max(t)])]

\* There is such a function.
LEMMA FoldsExist ==
  ASSUME NEW kind, NEW base, NEW s, NEW n \in Nat
  PROVE  \E g : Folds(kind, base, g, s, n)
<1> DEFINE Good(m, g) == /\ Folds(kind, base, g, s, m)
                         /\ \A t \in SUBSET (1 .. m) : t # {} => Max(t) \in t
           S == {m \in Nat : \E g : Good(m, g)}
<1>1. 0 \in S
  <2>1. SUBSET (1 .. 0) = {{}}
    OBVIOUS
  <2>2. Good(0, [t \in {{}} |-> base])
    BY <2>1 DEF Folds
  <2> QED
    BY <2>2
<1>2. ASSUME NEW m \in Nat, m \in S PROVE m + 1 \in S
  <2>1. PICK g : Good(m, g)
    BY <1>2
  <2> DEFINE V(t) == IF m + 1 \in t THEN After(kind, g[t \ {m + 1}], s[m + 1]) ELSE g[t]
             w == [t \in SUBSET (1 .. m + 1) |-> V(t)]
  <2>2. ASSUME NEW t \in SUBSET (1 .. m + 1)
        PROVE  IF m + 1 \in t THEN /\ Max(t) = m + 1
                                   /\ t \ {m + 1} \in SUBSET (1 .. m)
                                   /\ m + 1 \notin t \ {m + 1}
               ELSE t \in SUBSET (1 .. m)
    <3>1. CASE m + 1 \in t
      <4>1. \A y \in t : y \in Nat /\ m + 1 >= y
        BY <1>2
      <4>2. \A x \in t : (\A y \in t : x >= y) => x = m + 1
        BY <3>1, <4>1
      <4>3. Max(t) = m + 1
        BY <3>1, <4>1, <4>2 DEF Max
      <4> QED
        BY <1>2, <3>1, <4>3
    <3>2. CASE m + 1 \notin t
      BY <1>2, <3>2
    <3> QED
      BY <3>1, <3>2
  <2>3. ASSUME NEW t \in SUBSET (1 .. m + 1), t # {} PROVE Max(t) \in t
    BY <2>1, <2>2, <2>3
  <2>4. ASSUME NEW t \in SUBSET (1 .. m + 1)
        PROVE  w[t] = IF t = {} THEN base ELSE After(kind, w[t \ {Max(t)}], s[Max(t)])
    <3>0. w[t] = V(t)
      OBVIOUS
    <3>1. CASE m + 1 \in t
      <4>1. w[t \ {m + 1}] = g[t \ {m + 1}]
        BY <2>2, <3>1
      <4> HIDE DEF w
      <4> QED
        BY <2>2, <3>0, <3>1, <4>1
    <3>2. CASE m + 1 \notin t
      <4>1. t \in SUBSET (1 .. m)
        BY <2>2, <3>2
      <4>2. g[t] = IF t = {} THEN base ELSE After(kind, g[t \ {Max(t)}], s[Max(t)])
        BY <2>1, <4>1 DEF Folds
      <4>3. t # {} => t \ {Max(t)} \in SUBSET (1 .. m + 1) /\ m + 1 \notin t \ {Max(t)}
        BY <2>3, <3>2
      <4>4. t # {} => w[t \ {Max(t)}] = g[t \ {Max(t)}]
        BY <4>3
      <4> HIDE DEF w
      <4> QED
        BY <3>0, <3>2, <4>2, <4>4
    <3> QED
      BY <3>1, <3>2
  <2>5. Folds(kind, base, w, s, m + 1)
    <3>1. DOMAIN w = SUBSET (1 .. m + 1) /\ w = [t \in DOMAIN w |-> w[t]]
      OBVIOUS
    <3> HIDE DEF w
    <3> QED
      BY <2>4, <3>1 DEF Folds
  <2>6. Good(m + 1, w)
    <3> HIDE DEF w
    <3> QED
      BY <2>3, <2>5
  <2> HIDE DEF Good, w
  <2> QED
    BY <1>2, <2>6
<1>3. n \in S
  <2> HIDE DEF S
  <2> QED
    BY <1>1, <1>2, InductionOnNat
<1> QED
  BY <1>3

\* What it goes through, one element at a time.
Through(kind, base, w, s, n) ==
    /\ DOMAIN w = 0 .. n /\ w[0] = base
    /\ \A k \in 1 .. n : w[k] = After(kind, w[k - 1], s[k])

\* One more element is one more step.
LEMMA FoldSteps ==
  ASSUME NEW kind, NEW base, NEW s, NEW n \in Nat, NEW G, Folds(kind, base, G, s, n)
  PROVE  \E w : Through(kind, base, w, s, n) /\ w[n] = G[1 .. n]
<1> DEFINE w == [k \in 0 .. n |-> G[1 .. k]]
<1>1. \A t \in SUBSET (1 .. n) :
         G[t] = IF t = {} THEN base ELSE After(kind, G[t \ {Max(t)}], s[Max(t)])
  BY DEF Folds
<1>2. w[0] = base
  <2>1. 1 .. 0 = {} /\ w[0] = G[1 .. 0] /\ {} \in SUBSET (1 .. n)
    OBVIOUS
  <2> QED
    BY <1>1, <2>1
<1>3. ASSUME NEW k \in 1 .. n PROVE w[k] = After(kind, w[k - 1], s[k])
  <2>1. w[k] = G[1 .. k] /\ w[k - 1] = G[1 .. k - 1]
    OBVIOUS
  <2>2. Max(1 .. k) = k
    <3>1. \A x \in 1 .. k : (\A y \in 1 .. k : x >= y) => x = k
      OBVIOUS
    <3>2. k \in 1 .. k /\ \A y \in 1 .. k : k >= y
      OBVIOUS
    <3> QED
      BY <3>1, <3>2 DEF Max
  <2>3. 1 .. k # {} /\ 1 .. k \in SUBSET (1 .. n) /\ (1 .. k) \ {k} = 1 .. k - 1
    OBVIOUS
  <2> HIDE DEF w
  <2> QED
    BY <1>1, <2>1, <2>2, <2>3
<1>4. DOMAIN w = 0 .. n /\ w[n] = G[1 .. n]
  OBVIOUS
<1> HIDE DEF w
<1> QED
  BY <1>2, <1>3, <1>4 DEF Through

\* Lines goes through its chunks.
Nothing == [position |-> 0, heads |-> <<>>, complete |-> 0, records |-> <<>>, verdict |-> "fine"]

\* The states that reading goes through.
LEMMA LinesSteps ==
  ASSUME NEW c, NEW n \in Nat, DOMAIN c = 1 .. n
  PROVE  \E w : /\ DOMAIN w = 0 .. n /\ w[0] = Nothing
                /\ \A k \in 1 .. n : w[k] = ReadChunk(w[k - 1], c[k])
                /\ w[n] = Lines(c)
<1> DEFINE E(g) == g = [t \in SUBSET (1 .. n) |->
           IF t = {} THEN Nothing ELSE ReadChunk(g[t \ {Max(t)}], c[Max(t)])]
           G == CHOOSE g : E(g)
<1>1. Lines(c) = (CHOOSE g : E(g))[1 .. n]
  BY SMT DEF Lines, FoldLeft, MapThenFoldSet, Nothing
<1>2. \A g : Folds("lines", Nothing, g, c, n) <=> E(g)
  BY DEF Folds, After
<1>3. E(G)
  <2>1. \E g : E(g)
    <3> HIDE DEF E
    <3> QED
      BY <1>2, FoldsExist
  <2> HIDE DEF E
  <2> QED
    BY <2>1
<1> HIDE DEF G
<1>4. Folds("lines", Nothing, G, c, n)
  <2> HIDE DEF E
  <2> QED
    BY <1>2, <1>3
<1>5. Lines(c) = G[1 .. n]
  BY <1>1 DEF G
<1>6. \A x, y : After("lines", x, y) = ReadChunk(x, y)
  BY DEF After
<1>7. PICK w : Through("lines", Nothing, w, c, n) /\ w[n] = G[1 .. n]
  BY <1>4, FoldSteps
<1> QED
  BY <1>5, <1>6, <1>7 DEF Through

\* AcceptAll goes through the records.
Accepts(w, kind, index, lines, n) ==
    /\ DOMAIN w = 0 .. n /\ w[0] = [index |-> index, verdict |-> lines.verdict]
    /\ \A k \in 1 .. n : w[k] = Accept(kind, w[k - 1], lines.records[k])
    /\ w[n] = AcceptAll(kind, index, lines)

\* The states that taking in records goes through.
LEMMA AcceptSteps ==
  ASSUME NEW kind, kind # "lines", NEW index, NEW lines, NEW n \in Nat, DOMAIN lines.records = 1 .. n
  PROVE  \E w : Accepts(w, kind, index, lines, n)
<1> DEFINE base == [index |-> index, verdict |-> lines.verdict]
           s == lines.records
           E(g) == g = [t \in SUBSET (1 .. n) |->
           IF t = {} THEN base ELSE Accept(kind, g[t \ {Max(t)}], s[Max(t)])]
           G == CHOOSE g : E(g)
<1>1. AcceptAll(kind, index, lines) = (CHOOSE g : E(g))[1 .. n]
  BY SMT DEF AcceptAll, FoldLeft, MapThenFoldSet
<1>2. \A g : Folds(kind, base, g, s, n) <=> E(g)
  BY DEF Folds, After
<1>3. E(G)
  <2>1. \E g : E(g)
    <3> HIDE DEF E
    <3> QED
      BY <1>2, FoldsExist
  <2> HIDE DEF E
  <2> QED
    BY <2>1
<1> HIDE DEF G
<1>4. Folds(kind, base, G, s, n)
  <2> HIDE DEF E
  <2> QED
    BY <1>2, <1>3
<1>5. AcceptAll(kind, index, lines) = G[1 .. n]
  BY <1>1 DEF G
<1>6. \A x, y : After(kind, x, y) = Accept(kind, x, y)
  BY DEF After
<1>7. PICK w : Through(kind, base, w, s, n) /\ w[n] = G[1 .. n]
  BY <1>4, FoldSteps
<1> QED
  BY <1>5, <1>6, <1>7 DEF Through, Accepts
-----------------------------------------------------------------------------
(* What the lines of a journal are.                                         *)

Recs == UNION {s.calls \cup s.notes : s \in Scenarios}
Chunks == [part : {"line", "head", "tail"}, record : Recs]
Reading == [position : Nat, heads : Seq(Recs), complete : Nat, records : Seq(Recs),
            verdict : {"fine", "malformed"}]

\* One more chunk.
LEMMA ReadChunkIs ==
  ASSUME NEW r \in Reading, NEW x \in Chunks
  PROVE  LET q == ReadChunk(r, x)
         IN  /\ q \in Reading /\ q.position = r.position + 1
             /\ x.part = "head" => /\ q.heads # <<>> /\ q.complete = r.complete
                                   /\ q.records = r.records /\ q.verdict = r.verdict
             /\ x.part # "head" => q.heads = <<>> /\ q.complete = q.position
             /\ q.records = r.records \/ q.records = Append(r.records, x.record)
<1> DEFINE q == ReadChunk(r, x)
<1>1. /\ r.position \in Nat /\ r.heads \in Seq(Recs) /\ r.complete \in Nat
      /\ r.records \in Seq(Recs) /\ r.verdict \in {"fine", "malformed"}
      /\ x.part \in {"line", "head", "tail"} /\ x.record \in Recs
  BY DEF Reading, Chunks
<1>2. /\ Append(r.heads, x.record) \in Seq(Recs) /\ Append(r.heads, x.record) # <<>>
      /\ Append(r.records, x.record) \in Seq(Recs) /\ <<>> \in Seq(Recs)
  BY <1>1, AppendProperties, EmptySeq
<1>3. /\ q.position = r.position + 1
      /\ q.heads = IF x.part # "head" THEN <<>> ELSE Append(r.heads, x.record)
      /\ q.complete = IF x.part # "head" THEN r.position + 1 ELSE r.complete
      /\ q.records = r.records \/ q.records = Append(r.records, x.record)
      /\ x.part = "head" => q.records = r.records /\ q.verdict = r.verdict
      /\ q.verdict \in {"malformed", r.verdict}
  BY DEF ReadChunk
<1>4. q = [position |-> q.position, heads |-> q.heads, complete |-> q.complete,
           records |-> q.records, verdict |-> q.verdict]
  BY DEF ReadChunk
<1> HIDE DEF q
<1>5. q.position \in Nat /\ q.complete \in Nat /\ q.heads \in Seq(Recs)
  BY <1>1, <1>2, <1>3
<1>6. q.records \in Seq(Recs) /\ q.verdict \in {"fine", "malformed"}
  BY <1>1, <1>2, <1>3
<1>7. q \in Reading
  BY <1>4, <1>5, <1>6 DEF Reading
<1>8. x.part = "head" => q.heads # <<>>
  BY <1>2, <1>3
<1> QED
  BY <1>3, <1>7, <1>8 DEF q

\* A journal is read chunk by chunk.
LEMMA LinesAppend ==
  ASSUME NEW c \in Seq(Chunks), NEW x \in Chunks
  PROVE  Lines(Append(c, x)) = ReadChunk(Lines(c), x)
<1>1. PICK n \in Nat : n = Len(c) /\ DOMAIN c = 1 .. n
  BY LenProperties
<1>2. PICK d \in Seq(Chunks) : /\ d = Append(c, x) /\ DOMAIN d = 1 .. n + 1
                               /\ \A i \in 1 .. n : d[i] = c[i]
                               /\ d[n + 1] = x
  <2>1. /\ Append(c, x) \in Seq(Chunks) /\ Len(Append(c, x)) = n + 1
        /\ \A i \in 1 .. n : Append(c, x)[i] = c[i]
        /\ Append(c, x)[n + 1] = x
    BY <1>1, AppendProperties
  <2>2. DOMAIN Append(c, x) = 1 .. n + 1
    BY <2>1, LenProperties
  <2> QED
    BY <2>1, <2>2
<1>3. PICK w : /\ DOMAIN w = 0 .. n /\ w[0] = Nothing
               /\ \A k \in 1 .. n : w[k] = ReadChunk(w[k - 1], c[k])
               /\ w[n] = Lines(c)
  BY <1>1, LinesSteps
<1>4. PICK v : /\ DOMAIN v = 0 .. n + 1 /\ v[0] = Nothing
               /\ \A k \in 1 .. n + 1 : v[k] = ReadChunk(v[k - 1], d[k])
               /\ v[n + 1] = Lines(d)
  <2>1. n + 1 \in Nat
    OBVIOUS
  <2> QED
    BY <1>2, <2>1, LinesSteps
<1> DEFINE S == {k \in Nat : k <= n => v[k] = w[k]}
<1>5. 0 \in S
  BY <1>3, <1>4
<1>6. ASSUME NEW k \in Nat, k \in S PROVE k + 1 \in S
  <2> SUFFICES ASSUME k + 1 <= n PROVE v[k + 1] = w[k + 1]
    OBVIOUS
  <2>1. k + 1 \in 1 .. n /\ k + 1 \in 1 .. n + 1 /\ (k + 1) - 1 = k
    BY <1>1
  <2>2. v[k] = w[k]
    BY <1>6, <2>1
  <2>3. v[k + 1] = ReadChunk(v[k], d[k + 1])
    BY <1>4, <2>1
  <2>4. w[k + 1] = ReadChunk(w[k], c[k + 1])
    BY <1>3, <2>1
  <2> QED
    BY <1>2, <2>1, <2>2, <2>3, <2>4
<1>7. v[n] = w[n]
  <2>1. n \in S
    <3> HIDE DEF S
    <3> QED
      BY <1>5, <1>6, InductionOnNat
  <2> QED
    BY <2>1
<1>8. v[n + 1] = ReadChunk(v[n], d[n + 1])
  <2>1. n + 1 \in 1 .. n + 1 /\ (n + 1) - 1 = n
    OBVIOUS
  <2> QED
    BY <1>4, <2>1
<1> QED
  BY <1>2, <1>3, <1>4, <1>7, <1>8

\* An empty one has none.
LEMMA NoLines == Lines(<<>>) = Nothing
<1>1. DOMAIN <<>> = 1 .. 0
  OBVIOUS
<1>2. PICK w : w[0] = Nothing /\ w[0] = Lines(<<>>)
  BY <1>1, LinesSteps
<1> QED
  BY <1>2

\* What is complete is what precedes the heads at the end.
LEMMA LinesAre ==
  ASSUME NEW c \in Seq(Chunks)
  PROVE  /\ Lines(c) \in Reading /\ Lines(c).position = Len(c)
         /\ Lines(c).complete \in 0 .. Len(c)
         /\ Lines(c).heads = <<>> <=> Lines(c).complete = Len(c)
<1> DEFINE Good(d) == /\ Lines(d) \in Reading /\ Lines(d).position = Len(d)
                      /\ Lines(d).complete \in 0 .. Len(d)
                      /\ Lines(d).heads = <<>> <=> Lines(d).complete = Len(d)
           T == {d \in Seq(Chunks) : Good(d)}
<1>1. <<>> \in T
  <2>1. Nothing \in Reading
    BY EmptySeq DEF Nothing, Reading
  <2> QED
    BY <2>1, NoLines, EmptySeq DEF Nothing
<1>2. ASSUME NEW d \in Seq(Chunks), NEW x \in Chunks, d \in T PROVE Append(d, x) \in T
  <2>1. PICK r \in Reading : r = Lines(d)
    BY <1>2
  <2>2. Len(d) \in Nat /\ r.position = Len(d) /\ r.complete \in 0 .. Len(d)
    BY <1>2, <2>1, LenProperties
  <2>3. PICK q \in Reading :
           /\ q = Lines(Append(d, x)) /\ q.position = r.position + 1
           /\ x.part = "head" => q.heads # <<>> /\ q.complete = r.complete
           /\ x.part # "head" => q.heads = <<>> /\ q.complete = q.position
    BY <2>1, LinesAppend, ReadChunkIs
  <2>4. Append(d, x) \in Seq(Chunks) /\ Len(Append(d, x)) = Len(d) + 1
    BY AppendProperties
  <2>5. Good(Append(d, x))
    BY <2>2, <2>3, <2>4
  <2> QED
    BY <2>4, <2>5
<1>3. c \in T
  <2> HIDE DEF T
  <2> QED
    BY <1>1, <1>2, InductionOnSeq
<1> QED
  BY <1>3

\* The complete lines are read by themselves as with the heads that follow.
LEMMA LinesOfPrefix ==
  ASSUME NEW c \in Seq(Chunks)
  PROVE  LET p == SubSeq(c, 1, Lines(c).complete)
         IN  /\ p \in Seq(Chunks) /\ Len(p) = Lines(c).complete
             /\ Lines(p).complete = Lines(c).complete
             /\ Lines(p).records = Lines(c).records /\ Lines(p).verdict = Lines(c).verdict
<1> DEFINE P(d) == SubSeq(d, 1, Lines(d).complete)
           Good(d) == /\ P(d) \in Seq(Chunks) /\ Len(P(d)) = Lines(d).complete
                      /\ Lines(P(d)).complete = Lines(d).complete
                      /\ Lines(P(d)).records = Lines(d).records
                      /\ Lines(P(d)).verdict = Lines(d).verdict
           T == {d \in Seq(Chunks) : Good(d)}
<1>0. ASSUME NEW d \in Seq(Chunks), Lines(d).complete = Len(d) PROVE d \in T
  <2>1. P(d) = d
    BY <1>0, SubSeqFull
  <2> QED
    BY <1>0, <2>1
<1>1. <<>> \in T
  <2>1. <<>> \in Seq(Chunks) /\ Lines(<<>>).complete = Len(<<>>)
    BY NoLines, EmptySeq DEF Nothing
  <2> HIDE DEF T
  <2> QED
    BY <1>0, <2>1
<1>2. ASSUME NEW d \in Seq(Chunks), NEW x \in Chunks, d \in T PROVE Append(d, x) \in T
  <2>1. PICK r \in Reading : r = Lines(d) /\ r.position = Len(d) /\ r.complete \in 0 .. Len(d)
    BY LinesAre
  <2>2. PICK q \in Reading :
           /\ q = Lines(Append(d, x)) /\ q.position = r.position + 1
           /\ x.part = "head" => /\ q.heads # <<>> /\ q.complete = r.complete
                                 /\ q.records = r.records /\ q.verdict = r.verdict
           /\ x.part # "head" => q.heads = <<>> /\ q.complete = q.position
    BY <2>1, LinesAppend, ReadChunkIs
  <2>3. Append(d, x) \in Seq(Chunks) /\ Len(Append(d, x)) = Len(d) + 1
    BY AppendProperties
  <2>4. CASE x.part # "head"
    <3>1. Lines(Append(d, x)).complete = Len(Append(d, x))
      BY <2>1, <2>2, <2>3, <2>4
    <3> HIDE DEF T
    <3> QED
      BY <1>0, <2>3, <3>1
  <2>5. CASE x.part = "head"
    <3>1. P(Append(d, x)) = P(d)
      <4>1. \A i \in 1 .. Len(d) : Append(d, x)[i] = d[i]
        BY AppendProperties
      <4>2. Len(d) \in Nat /\ \A i \in 1 .. Len(d) : d[i] \in Chunks
        BY LenProperties, ElementOfSeq
      <4>3. /\ SubSeq(d, 1, r.complete) \in Seq(Chunks)
            /\ Len(SubSeq(d, 1, r.complete)) = r.complete
            /\ \A i \in 1 .. r.complete : SubSeq(d, 1, r.complete)[i] = d[i]
        <5>1. \A i \in 1 .. r.complete : d[i] \in Chunks
          BY <2>1, <4>2
        <5> QED
          BY <2>1, <5>1, <4>2, SubSeqProperties
      <4>4. /\ SubSeq(Append(d, x), 1, r.complete) \in Seq(Chunks)
            /\ Len(SubSeq(Append(d, x), 1, r.complete)) = r.complete
            /\ \A i \in 1 .. r.complete : SubSeq(Append(d, x), 1, r.complete)[i] = d[i]
        <5>1. \A i \in 1 .. r.complete : Append(d, x)[i] \in Chunks /\ Append(d, x)[i] = d[i]
          BY <2>1, <4>1, <4>2
        <5> QED
          BY <2>1, <5>1, <4>2, SubSeqProperties
      <4>5. SubSeq(Append(d, x), 1, r.complete) = SubSeq(d, 1, r.complete)
        BY <4>3, <4>4, SeqEqual, ZenonT(60)
      <4> QED
        BY <2>1, <2>2, <2>5, <4>5
    <3>2. Good(d)
      BY <1>2
    <3> QED
      BY <2>1, <2>2, <2>3, <2>5, <3>1, <3>2
  <2> QED
    BY <2>4, <2>5
<1>3. c \in T
  <2> HIDE DEF T
  <2> QED
    BY <1>1, <1>2, InductionOnSeq
<1> QED
  BY <1>3

\* Appending after concatenating.
LEMMA AppendRight ==
  ASSUME NEW S, NEW s \in Seq(S), NEW t \in Seq(S), NEW e \in S
  PROVE  s \o Append(t, e) = Append(s \o t, e)
OBVIOUS

\* What follows complete lines is read by itself.
LEMMA LinesOfConcat ==
  ASSUME NEW a \in Seq(Chunks), NEW b \in Seq(Chunks), Lines(a).complete = Len(a)
  PROVE  /\ Lines(a \o b).complete = Len(a) + Lines(b).complete
         /\ Lines(a \o b).records = Lines(a).records \o Lines(b).records
         /\ Lines(a \o b).verdict = IF Lines(a).verdict = "fine" THEN Lines(b).verdict ELSE "malformed"
<1> DEFINE Good(d) == /\ Lines(a \o d).heads = Lines(d).heads
                      /\ Lines(a \o d).complete = Len(a) + Lines(d).complete
                      /\ Lines(a \o d).records = Lines(a).records \o Lines(d).records
                      /\ Lines(a \o d).verdict = IF Lines(a).verdict = "fine" THEN Lines(d).verdict
                                                 ELSE "malformed"
           T == {d \in Seq(Chunks) : Good(d)}
<1>0. /\ Lines(a) \in Reading /\ Lines(a).heads = <<>> /\ Len(a) \in Nat
      /\ Lines(a).records \in Seq(Recs) /\ Lines(a).verdict \in {"fine", "malformed"}
  BY LinesAre, LenProperties DEF Reading
<1>1. <<>> \in T
  <2>1. a \o <<>> = a /\ Lines(a).records \o <<>> = Lines(a).records
    BY <1>0, ConcatEmptySeq
  <2>2. /\ Lines(<<>>).heads = <<>> /\ Lines(<<>>).complete = 0
        /\ Lines(<<>>).records = <<>> /\ Lines(<<>>).verdict = "fine"
    BY NoLines DEF Nothing
  <2>3. Good(<<>>)
    <3> HIDE DEF Nothing
    <3>1. Lines(a \o <<>>).heads = <<>> /\ Lines(a \o <<>>).complete = Len(a) + 0
      BY <1>0, <2>1
    <3>2. /\ Lines(a \o <<>>).records = Lines(a).records \o <<>>
          /\ Lines(a \o <<>>).verdict = IF Lines(a).verdict = "fine" THEN "fine" ELSE "malformed"
      BY <1>0, <2>1
    <3> QED
      BY <2>2, <3>1, <3>2
  <2> QED
    BY <2>3, EmptySeq
<1>2. ASSUME NEW d \in Seq(Chunks), NEW x \in Chunks, d \in T PROVE Append(d, x) \in T
  <2>1. PICK r \in Reading : r = Lines(d) /\ r.position = Len(d)
    BY LinesAre
  <2>2. PICK q \in Reading : q = Lines(a \o d) /\ q.position = Len(a) + Len(d) /\ a \o d \in Seq(Chunks)
    <3>1. a \o d \in Seq(Chunks) /\ Len(a \o d) = Len(a) + Len(d)
      BY ConcatProperties
    <3>2. Lines(a \o d) \in Reading /\ Lines(a \o d).position = Len(a \o d)
      BY <3>1, LinesAre
    <3> QED
      BY <3>1, <3>2
  <2>3. a \o Append(d, x) = Append(a \o d, x)
    BY AppendRight
  <2>4. Lines(a \o Append(d, x)) = ReadChunk(q, x) /\ Lines(Append(d, x)) = ReadChunk(r, x)
    BY <2>1, <2>2, <2>3, LinesAppend
  <2>5. /\ q.heads = r.heads /\ q.complete = Len(a) + r.complete
        /\ q.records = Lines(a).records \o r.records
        /\ q.verdict = IF Lines(a).verdict = "fine" THEN r.verdict ELSE "malformed"
    BY <1>2, <2>1, <2>2
  <2>6. Lines(a).records \o Append(r.records, x.record) = Append(q.records, x.record)
    <3>1. x.record \in Recs /\ r.records \in Seq(Recs) /\ q.records \in Seq(Recs) /\ <<x.record>> \in Seq(Recs)
      BY DEF Chunks, Reading
    <3>2. Lines(a).records \in Seq(Recs)
      BY <1>0
    <3>3. \A f \in Seq(Recs) : f \o Append(r.records, x.record) = Append(f \o r.records, x.record)
      <4> TAKE f \in Seq(Recs)
      <4>1. PICK g \in Seq(Recs), e \in Recs : g = r.records /\ e = x.record
        BY <3>1
      <4>2. f \o Append(g, e) = Append(f \o g, e)
        BY AppendRight
      <4> QED
        BY <4>1, <4>2
    <3> QED
      BY <2>5, <3>2, <3>3
  <2>7. /\ r.position \in Nat /\ q.position \in Nat /\ r.complete \in Nat /\ Len(d) \in Nat
        /\ r.verdict \in {"fine", "malformed"}
    BY LenProperties DEF Reading
  <2> DEFINE m == ReadChunk(q, x)
             k == ReadChunk(r, x)
  <2>8. m.heads = k.heads
    BY <2>5 DEF ReadChunk
  <2>9. m.complete = Len(a) + k.complete
    BY <1>0, <2>1, <2>2, <2>5, <2>7 DEF ReadChunk
  <2>10. m.records = Lines(a).records \o k.records
    BY <2>5, <2>6 DEF ReadChunk
  <2>11. m.verdict = IF Lines(a).verdict = "fine" THEN k.verdict ELSE "malformed"
    BY <2>5, <2>7 DEF ReadChunk
  <2>12. Append(d, x) \in Seq(Chunks)
    BY AppendProperties
  <2> QED
    BY <2>4, <2>8, <2>9, <2>10, <2>11, <2>12
<1>3. b \in T
  <2> HIDE DEF T
  <2> QED
    BY <1>1, <1>2, InductionOnSeq
<1> QED
  BY <1>3
\* The function that FlattenSeq evaluates: the first n lists after each other.
Flat(f, s, n) == f = [i \in 1 .. n |-> IF i = 1 THEN s[i] ELSE f[i - 1] \o s[i]]

\* There is such a function.
LEMMA FlatExists ==
  ASSUME NEW s, NEW n \in Nat
  PROVE  \E f : Flat(f, s, n)
<1> DEFINE S == {m \in Nat : \E f : Flat(f, s, m)}
<1>1. 0 \in S
  <2>1. 1 .. 0 = {}
    OBVIOUS
  <2>2. Flat([i \in {} |-> 0], s, 0)
    BY <2>1 DEF Flat
  <2> QED
    BY <2>2
<1>2. ASSUME NEW m \in Nat, m \in S PROVE m + 1 \in S
  <2>1. PICK g : Flat(g, s, m)
    BY <1>2
  <2> DEFINE V(i) == IF i = 1 THEN s[i] ELSE g[i - 1] \o s[i]
             f == [i \in 1 .. m + 1 |-> V(i)]
  <2>2. ASSUME NEW i \in 1 .. m, NEW x, x = V(i) PROVE g[i] = x
    <3>1. g[i] = V(i)
      <4> HIDE DEF V
      <4>1. g = [j \in 1 .. m |-> V(j)]
        BY <2>1, Zenon DEF Flat, V
      <4> QED
        BY <4>1
    <3> QED
      BY <2>2, <3>1
  <2>3. \A i \in 1 .. m : g[i] = f[i]
    <3> TAKE i \in 1 .. m
    <3>1. i \in 1 .. m + 1
      BY <1>2
    <3>2. PICK x : x = V(i)
      OBVIOUS
    <3> HIDE DEF V
    <3>3. f[i] = x /\ g[i] = x
      BY <2>2, <3>1, <3>2
    <3> QED
      BY <3>3
  <2>4. ASSUME NEW i \in 1 .. m + 1 PROVE f[i] = IF i = 1 THEN s[i] ELSE f[i - 1] \o s[i]
    <3>1. f[i] = V(i)
      OBVIOUS
    <3>2. i # 1 => i - 1 \in 1 .. m
      BY <1>2
    <3> HIDE DEF f
    <3>3. i # 1 => g[i - 1] = f[i - 1]
      BY <2>3, <3>2
    <3> QED
      BY <3>1, <3>3
  <2>5. DOMAIN f = 1 .. m + 1 /\ f = [i \in DOMAIN f |-> f[i]]
    OBVIOUS
  <2> HIDE DEF f
  <2>6. Flat(f, s, m + 1)
    BY <2>4, <2>5 DEF Flat
  <2> QED
    BY <1>2, <2>6
<1>3. n \in S
  <2> HIDE DEF S
  <2> QED
    BY <1>1, <1>2, InductionOnNat
<1> QED
  BY <1>3

\* The lists FlattenSeq goes through.
LEMMA FlatStepsFromOne ==
  ASSUME NEW s, NEW n \in Nat \ {0}, Len(s) = n
  PROVE  \E f : /\ f[1] = s[1]
                /\ \A k \in 2 .. n : f[k] = f[k - 1] \o s[k]
                /\ f[n] = FlattenSeq(s)
<1> DEFINE E(f) == f = [i \in 1 .. n |-> IF i = 1 THEN s[i] ELSE f[i - 1] \o s[i]]
           F == CHOOSE f : E(f)
<1>1. FlattenSeq(s) = F[n]
  BY Zenon DEF FlattenSeq
<1>2. E(F)
  <2>1. \E f : E(f)
    BY FlatExists, Zenon DEF Flat
  <2> HIDE DEF E
  <2> QED
    BY <2>1
<1> HIDE DEF F
<1>3. ASSUME NEW k \in 1 .. n
      PROVE  (k = 1 => F[k] = s[k]) /\ (k # 1 => F[k] = F[k - 1] \o s[k])
  <2> DEFINE V(i) == IF i = 1 THEN s[i] ELSE F[i - 1] \o s[i]
  <2>1. F = [i \in 1 .. n |-> V(i)]
    BY <1>2, Zenon
  <2>2. k = 1 => V(k) = s[k]
    BY Zenon
  <2>3. k # 1 => V(k) = F[k - 1] \o s[k]
    BY Zenon
  <2> HIDE DEF V
  <2>4. F[k] = V(k)
    BY <2>1
  <2> QED
    BY <2>2, <2>3, <2>4, Zenon
<1>4. F[1] = s[1]
  <2>1. 1 \in 1 .. n
    OBVIOUS
  <2> QED
    BY <1>3, <2>1
<1>5. ASSUME NEW k \in 2 .. n PROVE F[k] = F[k - 1] \o s[k]
  <2>1. k \in 1 .. n /\ k # 1
    OBVIOUS
  <2> QED
    BY <1>3, <2>1, Zenon
<1> QED
  BY <1>1, <1>4, <1>5


\* And from an empty list on.
LEMMA FlatSteps ==
  ASSUME NEW S, NEW n \in Nat, NEW s \in [1 .. n -> Seq(S)]
  PROVE  \E w : /\ w[0] = <<>>
                /\ \A k \in 1 .. n : w[k] \in Seq(S) /\ w[k] = w[k - 1] \o s[k]
                /\ w[n] = FlattenSeq(s)
<1>0. s \in Seq(Seq(S)) /\ Len(s) = n
  OBVIOUS
<1>1. CASE n = 0
  <2> DEFINE w == [k \in 0 .. 0 |-> <<>>]
  <2>1. s = <<>>
    BY <1>0, <1>1
  <2>2. FlattenSeq(s) = <<>>
    BY <1>0, <1>1, <2>1, Zenon DEF FlattenSeq
  <2>3. w[0] = <<>>
    OBVIOUS
  <2>4. \A k \in 1 .. n : FALSE
    BY <1>1
  <2> HIDE DEF w
  <2> QED
    BY <1>1, <2>2, <2>3, <2>4, Zenon
<1>2. CASE n # 0
  <2>1. PICK f : /\ f[1] = s[1]
                 /\ \A k \in 2 .. n : f[k] = f[k - 1] \o s[k]
                 /\ f[n] = FlattenSeq(s)
    BY <1>0, <1>2, FlatStepsFromOne
  <2> DEFINE w == [k \in 0 .. n |-> IF k = 0 THEN <<>> ELSE f[k]]
  <2>2. w[0] = <<>> /\ w[n] = FlattenSeq(s) /\ \A k \in 1 .. n : w[k] = f[k]
    BY <1>2, <2>1
  <2>3. \A k \in 1 .. n : s[k] \in Seq(S)
    OBVIOUS
  <2> HIDE DEF w
  <2>4. \A k \in 1 .. n : w[k] = w[k - 1] \o s[k]
    <3> TAKE k \in 1 .. n
    <3>1. CASE k = 1
      <4>1. k - 1 = 0 /\ <<>> \o s[k] = s[k]
        BY <2>3, <3>1, ConcatEmptySeq
      <4> QED
        BY <2>1, <2>2, <3>1, <4>1
    <3>2. CASE k # 1
      <4>1. k \in 2 .. n /\ k - 1 \in 1 .. n
        BY <3>2
      <4> QED
        BY <2>1, <2>2, <4>1
    <3> QED
      BY <3>1, <3>2
  <2> DEFINE T == {k \in Nat : k <= n => w[k] \in Seq(S)}
  <2>5. 0 \in T
    BY <2>2, EmptySeq
  <2>6. ASSUME NEW k \in Nat, k \in T PROVE k + 1 \in T
    <3> SUFFICES ASSUME k + 1 <= n PROVE w[k + 1] \in Seq(S)
      OBVIOUS
    <3>1. k + 1 \in 1 .. n /\ (k + 1) - 1 = k /\ w[k] \in Seq(S)
      BY <2>6
    <3>2. w[k + 1] = w[k] \o s[k + 1] /\ s[k + 1] \in Seq(S)
      BY <2>3, <2>4, <3>1
    <3> QED
      BY <3>1, <3>2, ConcatProperties
  <2>7. \A k \in Nat : k \in T
    <3> HIDE DEF T
    <3> QED
      BY <2>5, <2>6, InductionOnNat
  <2>8. \A k \in 1 .. n : w[k] \in Seq(S)
    BY <2>7
  <2> QED
    BY <2>2, <2>4, <2>8
<1> QED
  BY <1>1, <1>2

\* The lists w it goes through, from an empty one on.
Chain(S, w, s, n) ==
    /\ w \in [0 .. n -> Seq(S)] /\ w[0] = <<>> /\ w[n] = FlattenSeq(s)
    /\ \A k \in 1 .. n : w[k] = w[k - 1] \o s[k]

\* There is such a chain: FlattenSeq goes through it.
LEMMA ChainExists ==
  ASSUME NEW S, NEW n \in Nat, NEW s \in [1 .. n -> Seq(S)]
  PROVE  \E w : Chain(S, w, s, n)
<1>1. PICK f : /\ f[0] = <<>>
               /\ \A k \in 1 .. n : f[k] \in Seq(S) /\ f[k] = f[k - 1] \o s[k]
               /\ f[n] = FlattenSeq(s)
  BY FlatSteps
<1> DEFINE w == [k \in 0 .. n |-> f[k]]
<1>2. \A k \in 0 .. n : f[k] \in Seq(S)
  <2> TAKE k \in 0 .. n
  <2>1. k = 0 \/ k \in 1 .. n
    OBVIOUS
  <2> QED
    BY <1>1, <2>1, EmptySeq, Zenon
<1>3. w \in [0 .. n -> Seq(S)] /\ \A k \in 0 .. n : w[k] = f[k]
  BY <1>2, Zenon
<1> HIDE DEF w
<1>4. 0 \in 0 .. n /\ n \in 0 .. n /\ \A k \in 1 .. n : k \in 0 .. n /\ k - 1 \in 0 .. n
  OBVIOUS
<1>5. w[0] = <<>> /\ w[n] = FlattenSeq(s)
  BY <1>1, <1>3, <1>4, Zenon
<1>6. \A k \in 1 .. n : w[k] = w[k - 1] \o s[k]
  BY <1>1, <1>3, <1>4, Zenon
<1> QED
  BY <1>3, <1>5, <1>6 DEF Chain

\* Concatenation is associative.
Associates(S) == \A r, s, t \in Seq(S) : (r \o s) \o t = r \o (s \o t)

\* Concatenation is associative.
LEMMA Associative == ASSUME NEW S PROVE Associates(S)
<1>1. ASSUME NEW r \in Seq(S), NEW s \in Seq(S), NEW t \in Seq(S) PROVE (r \o s) \o t = r \o (s \o t)
  BY ConcatAssociative
<1> QED
  BY <1>1 DEF Associates

\* Two lists after each other have the elements of both.
LEMMA ElementsOfConcat ==
  ASSUME NEW S, NEW s \in Seq(S), NEW t \in Seq(S)
  PROVE  ToSet(s \o t) = ToSet(s) \cup ToSet(t)
<1>1. ToSet(s \o t) \subseteq ToSet(s) \cup ToSet(t)
  BY DEF ToSet
<1>2. ASSUME NEW x \in ToSet(s) PROVE x \in ToSet(s \o t)
  <2>1. PICK i \in 1 .. Len(s) : x = s[i]
    BY DEF ToSet
  <2>2. i \in 1 .. Len(s \o t) /\ (s \o t)[i] = x
    BY <2>1
  <2>3. DOMAIN (s \o t) = 1 .. Len(s \o t)
    OBVIOUS
  <2> QED
    BY <2>2, <2>3, Zenon DEF ToSet
<1>3. ASSUME NEW x \in ToSet(t) PROVE x \in ToSet(s \o t)
  <2>1. PICK i \in 1 .. Len(t) : x = t[i]
    BY DEF ToSet
  <2>2. Len(s) + i \in 1 .. Len(s \o t) /\ (s \o t)[Len(s) + i] = x
    BY <2>1
  <2>3. DOMAIN (s \o t) = 1 .. Len(s \o t)
    OBVIOUS
  <2> QED
    BY <2>2, <2>3, Zenon DEF ToSet
<1> QED
  BY <1>1, <1>2, <1>3

\* And of one more element.
LEMMA ElementsOfAppend ==
  ASSUME NEW S, NEW s \in Seq(S), NEW x \in S
  PROVE  ToSet(Append(s, x)) = ToSet(s) \cup {x}
<1>1. DOMAIN Append(s, x) = 1 .. Len(s) + 1 /\ DOMAIN s = 1 .. Len(s) /\ Len(s) \in Nat
  OBVIOUS
<1>2. \A i \in 1 .. Len(s) : Append(s, x)[i] = s[i]
  OBVIOUS
<1>3. Append(s, x)[Len(s) + 1] = x
  OBVIOUS
<1> QED
  BY <1>1, <1>2, <1>3 DEF ToSet

\* All the lists after each other have the elements of each.
LEMMA FlatElements ==
  ASSUME NEW S, NEW n \in Nat, NEW s \in [1 .. n -> Seq(S)]
  PROVE  /\ FlattenSeq(s) \in Seq(S)
         /\ \A x : x \in ToSet(FlattenSeq(s)) <=> \E k \in 1 .. n : x \in ToSet(s[k])
<1>1. PICK w : Chain(S, w, s, n)
  BY ChainExists
<1>0. w \in [0 .. n -> Seq(S)] /\ w[0] = <<>> /\ w[n] = FlattenSeq(s)
  BY <1>1 DEF Chain
<1> DEFINE Good(m) == \A x : x \in ToSet(w[m]) <=> \E k \in 1 .. m : x \in ToSet(s[k])
           T == {m \in Nat : m <= n => Good(m)}
<1>2. 0 \in T
  <2>1. ToSet(<<>>) = {} /\ 1 .. 0 = {}
    BY DEF ToSet
  <2>2. Good(0)
    BY <1>0, <2>1, Zenon
  <2> QED
    BY <2>2
<1>3. ASSUME NEW m \in Nat, m \in T PROVE m + 1 \in T
  <2> SUFFICES ASSUME m + 1 <= n PROVE Good(m + 1)
    OBVIOUS
  <2>1. m + 1 \in 1 .. n /\ (m + 1) - 1 = m /\ m \in 0 .. n /\ m <= n
    BY <1>3
  <2>2. PICK a \in Seq(S), b \in Seq(S) : a = w[m] /\ b = s[m + 1]
    BY <1>0, <2>1
  <2>3. w[m + 1] = a \o b
    BY <1>1, <2>1, <2>2, Zenon DEF Chain
  <2>4. ToSet(w[m + 1]) = ToSet(w[m]) \cup ToSet(s[m + 1])
    <3>1. ToSet(a \o b) = ToSet(a) \cup ToSet(b)
      BY ElementsOfConcat
    <3> QED
      BY <2>2, <2>3, <3>1, Zenon
  <2>5. \A k : k \in 1 .. m + 1 <=> k \in 1 .. m \/ k = m + 1
    <3> HIDE DEF T, Good
    <3> QED
      OBVIOUS
  <2>6. Good(m)
    BY <1>3, <2>1, Zenon
  <2> QED
    BY <2>4, <2>5, <2>6, Zenon
<1>4. n \in T
  <2> HIDE DEF T
  <2> QED
    BY <1>2, <1>3, InductionOnNat
<1>5. Good(n)
  <2>1. n <= n
    OBVIOUS
  <2> QED
    BY <1>4, <2>1, Zenon
<1>6. FlattenSeq(s) \in Seq(S)
  <2>1. n \in 0 .. n
    OBVIOUS
  <2> QED
    BY <1>0, <2>1, Zenon
<1> QED
  BY <1>0, <1>5, <1>6, Zenon

\* One of the lists grows at its end, and those after it are empty.
Grows(s, t, n, f, xs) ==
    /\ t[f] = s[f] \o xs
    /\ \A k \in 1 .. n : /\ k # f => t[k] = s[k]
                         /\ k > f => s[k] = <<>>

\* If one part grows at its end, and what follows it is empty, so does the whole.
LEMMA FlatGrows ==
  ASSUME NEW S, NEW n \in Nat, NEW s \in [1 .. n -> Seq(S)], NEW t \in [1 .. n -> Seq(S)],
         NEW f \in 1 .. n, NEW xs \in Seq(S), Grows(s, t, n, f, xs)
  PROVE  FlattenSeq(t) = FlattenSeq(s) \o xs
<1>1. PICK w : Chain(S, w, s, n)
  BY ChainExists
<1>2. PICK v : Chain(S, v, t, n)
  BY ChainExists
<1>0. /\ w \in [0 .. n -> Seq(S)] /\ w[0] = <<>> /\ w[n] = FlattenSeq(s)
      /\ v \in [0 .. n -> Seq(S)] /\ v[0] = <<>> /\ v[n] = FlattenSeq(t)
  BY <1>1, <1>2 DEF Chain
<1> DEFINE Good(m) == (m < f => v[m] = w[m]) /\ (m >= f => v[m] = w[m] \o xs)
           T == {m \in Nat : m <= n => Good(m)}
<1>7. \A x \in Seq(S) : \A y \in Seq(S) : (x \o y) \o xs = x \o (y \o xs)
  <2>1. Associates(S)
    BY Associative
  <2> QED
    BY <2>1, Zenon DEF Associates
<1>8. \A k \in 1 .. n : k # f => t[k] = s[k]
  BY Zenon DEF Grows
<1>9. \A k \in 1 .. n : k > f => s[k] = <<>>
  BY Zenon DEF Grows
<1>10. t[f] = s[f] \o xs
  BY Zenon DEF Grows
<1>3. 0 \in T
  <2>1. 0 < f /\ ~(0 >= f)
    OBVIOUS
  <2>2. Good(0)
    BY <1>0, <2>1, Zenon
  <2> QED
    BY <2>2
<1>4. ASSUME NEW m \in Nat, m \in T PROVE m + 1 \in T
  <2> SUFFICES ASSUME m + 1 <= n PROVE Good(m + 1)
    OBVIOUS
  <2>1. m + 1 \in 1 .. n /\ (m + 1) - 1 = m /\ m \in 0 .. n /\ m <= n
    BY <1>4
  <2>2. PICK a \in Seq(S), b \in Seq(S), c \in Seq(S), d \in Seq(S) :
             a = w[m] /\ b = s[m + 1] /\ c = v[m] /\ d = t[m + 1]
    BY <1>0, <2>1
  <2>3. w[m + 1] = a \o b /\ v[m + 1] = c \o d
    BY <1>1, <1>2, <2>1, <2>2, Zenon DEF Chain
  <2>4. Good(m)
    BY <1>4, <2>1, Zenon
  <2> HIDE DEF T, Good
  <2>5. CASE m + 1 < f
    <3>1. m < f /\ ~(m + 1 >= f) /\ m + 1 # f
      BY <2>5
    <3>2. c = a /\ d = b
      BY <1>8, <2>1, <2>2, <2>4, <3>1, Zenon DEF Good
    <3> QED
      BY <2>3, <3>1, <3>2, Zenon DEF Good
  <2>6. CASE m + 1 = f
    <3>1. m < f /\ ~(m + 1 < f)
      BY <2>6
    <3>2. c = a /\ d = b \o xs
      BY <1>10, <2>1, <2>2, <2>4, <2>6, <3>1, Zenon DEF Good
    <3>3. (a \o b) \o xs = a \o (b \o xs)
      BY <1>7, Zenon
    <3> QED
      BY <2>3, <3>1, <3>2, <3>3, Zenon DEF Good
  <2>7. CASE m + 1 > f
    <3>1. m >= f /\ ~(m + 1 < f) /\ m + 1 # f
      BY <2>7
    <3>2. c = a \o xs
      BY <2>2, <2>4, <3>1, Zenon DEF Good
    <3>3. b = <<>> /\ d = <<>>
      BY <1>8, <1>9, <2>1, <2>2, <2>7, <3>1, Zenon
    <3>4. a \o xs \in Seq(S) /\ (a \o xs) \o <<>> = a \o xs /\ a \o <<>> = a
      BY ConcatProperties, ConcatEmptySeq
    <3> QED
      BY <2>3, <3>1, <3>2, <3>3, <3>4, Zenon DEF Good
  <2> QED
    BY <2>5, <2>6, <2>7
<1>5. n \in T
  <2> HIDE DEF T
  <2> QED
    BY <1>3, <1>4, InductionOnNat
<1>6. n >= f /\ n <= n
  OBVIOUS
<1> QED
  BY <1>0, <1>5, <1>6, Zenon

-----------------------------------------------------------------------------
(* All records of a kind.                                                   *)

IsFiles(x) ==
    /\ DOMAIN x \subseteq Names /\ x = [f \in DOMAIN x |-> x[f]]
    /\ \A f \in DOMAIN x : x[f] \in Seq(Chunks)

\* The records of a kind, file by file.
RecordsIn(snapshot, kind) ==
    [f \in Names |-> IF f \in DOMAIN snapshot /\ KindOf(f) = kind
                     THEN Lines(snapshot[f]).records ELSE <<>>]

\* The names are the first numbers.
LEMMA NamesAre == \E n \in Nat : Names = 1 .. n
BY JournalIndexAssumption DEF Names

\* The records of one file.
LEMMA RecordsAre ==
  ASSUME NEW c \in Seq(Chunks)
  PROVE  Lines(c).records \in Seq(Recs) /\ Lines(c).verdict \in {"fine", "malformed"}
<1>1. Lines(c) \in Reading
  BY LinesAre
<1> QED
  BY <1>1 DEF Reading

\* The records of a kind are those of its files.
LEMMA JournalIs ==
  ASSUME NEW s, IsFiles(s), NEW kind
  PROVE  /\ RecordsIn(s, kind) \in [Names -> Seq(Recs)]
         /\ Journal(s, kind) = FlattenSeq(RecordsIn(s, kind))
         /\ Journal(s, kind) \in Seq(Recs)
         /\ \A x : x \in ToSet(Journal(s, kind)) <=>
                      \E f \in DOMAIN s : KindOf(f) = kind /\ x \in ToSet(Lines(s[f]).records)
<1>1. \A f \in DOMAIN s : f \in Names /\ Lines(s[f]).records \in Seq(Recs)
  BY RecordsAre, Zenon DEF IsFiles
<1>2. <<>> \in Seq(Recs)
  BY EmptySeq
<1>3. RecordsIn(s, kind) \in [Names -> Seq(Recs)]
  BY <1>1, <1>2, Zenon DEF RecordsIn
<1>4. Journal(s, kind) = FlattenSeq(RecordsIn(s, kind))
  BY Zenon DEF Journal, RecordsIn
<1>5. PICK n \in Nat : Names = 1 .. n
  BY NamesAre
<1> DEFINE r == RecordsIn(s, kind)
<1>6. r \in [1 .. n -> Seq(Recs)]
  BY <1>3, <1>5
<1>7. \A f \in Names : r[f] = IF f \in DOMAIN s /\ KindOf(f) = kind
                              THEN Lines(s[f]).records ELSE <<>>
  BY Zenon DEF RecordsIn
<1> HIDE DEF r
<1>8. /\ FlattenSeq(r) \in Seq(Recs)
      /\ \A x : x \in ToSet(FlattenSeq(r)) <=> \E f \in Names : x \in ToSet(r[f])
  BY <1>5, <1>6, FlatElements
<1>9. ToSet(<<>>) = {}
  BY DEF ToSet
<1>10. \A x : (\E f \in Names : x \in ToSet(r[f])) <=>
              \E f \in DOMAIN s : KindOf(f) = kind /\ x \in ToSet(Lines(s[f]).records)
  BY <1>1, <1>7, <1>9, Zenon
<1> QED
  BY <1>3, <1>4, <1>8, <1>10, Zenon DEF r

\* The journal depends on nothing else.
LEMMA SameJournal ==
  ASSUME NEW a, NEW b, NEW kind,
         \A f \in Names : RecordsIn(a, kind)[f] = RecordsIn(b, kind)[f]
  PROVE  Journal(a, kind) = Journal(b, kind)
<1>1. RecordsIn(a, kind) = [f \in Names |-> RecordsIn(a, kind)[f]]
  BY Zenon DEF RecordsIn
<1>2. RecordsIn(b, kind) = [f \in Names |-> RecordsIn(b, kind)[f]]
  BY Zenon DEF RecordsIn
<1>3. RecordsIn(a, kind) = RecordsIn(b, kind)
  BY <1>1, <1>2, Zenon
<1> QED
  BY <1>3, Zenon DEF Journal, RecordsIn

\* A file grows, and those of its kind that come after it are empty.
FileGrows(a, b, f, xs) ==
    /\ DOMAIN b = DOMAIN a /\ Lines(b[f]).records = Lines(a[f]).records \o xs
    /\ \A g \in DOMAIN a : g # f => b[g] = a[g]
    /\ \A g \in DOMAIN a : g > f /\ KindOf(g) = KindOf(f) => a[g] = <<>>

\* New records of the last file that has any are the new records of its kind.
LEMMA JournalGrows ==
  ASSUME NEW a, IsFiles(a), NEW b, IsFiles(b), NEW f \in DOMAIN a, NEW xs \in Seq(Recs),
         FileGrows(a, b, f, xs)
  PROVE  /\ Journal(b, KindOf(f)) = Journal(a, KindOf(f)) \o xs
         /\ \A kind : kind # KindOf(f) => Journal(b, kind) = Journal(a, kind)
<1>1. /\ DOMAIN b = DOMAIN a /\ Lines(b[f]).records = Lines(a[f]).records \o xs
      /\ \A g \in DOMAIN a : g # f => b[g] = a[g]
  BY Zenon DEF FileGrows
<1>2. \A g \in DOMAIN a : g > f /\ KindOf(g) = KindOf(f) => a[g] = <<>>
  BY Zenon DEF FileGrows
<1>3. PICK n \in Nat : Names = 1 .. n
  BY NamesAre
<1>4. f \in Names
  BY Zenon DEF IsFiles
<1>5. Lines(<<>>).records = <<>>
  BY NoLines DEF Nothing
<1>6. ASSUME NEW kind, kind # KindOf(f) PROVE Journal(b, kind) = Journal(a, kind)
  <2>1. \A g \in Names : RecordsIn(b, kind)[g] = RecordsIn(a, kind)[g]
    BY <1>1, <1>6, Zenon DEF RecordsIn
  <2> QED
    BY <2>1, SameJournal, Zenon
<1>7. Journal(b, KindOf(f)) = Journal(a, KindOf(f)) \o xs
  <2> DEFINE s == RecordsIn(a, KindOf(f))
             t == RecordsIn(b, KindOf(f))
  <2>1. s \in [1 .. n -> Seq(Recs)] /\ t \in [1 .. n -> Seq(Recs)]
    BY <1>3, JournalIs
  <2>2. t[f] = s[f] \o xs
    BY <1>1, <1>4, Zenon DEF RecordsIn
  <2>3. \A k \in 1 .. n : k # f => t[k] = s[k]
    BY <1>1, <1>3, Zenon DEF RecordsIn
  <2>4. \A k \in 1 .. n : k > f => s[k] = <<>>
    BY <1>2, <1>3, <1>5, Zenon DEF RecordsIn
  <2>5. FlattenSeq(t) = FlattenSeq(s) \o xs
    <3> HIDE DEF s, t
    <3>1. Grows(s, t, n, f, xs)
      BY <2>2, <2>3, <2>4, Zenon DEF Grows
    <3>2. f \in 1 .. n
      BY <1>3, <1>4
    <3> QED
      BY <2>1, <3>1, <3>2, FlatGrows
  <2> QED
    BY <2>5, JournalIs, Zenon
<1> QED
  BY <1>6, <1>7

\* More lines, more records.
LEMMA MoreRecords ==
  ASSUME NEW a, IsFiles(a), NEW b, IsFiles(b), NEW kind, DOMAIN a \subseteq DOMAIN b,
         \A f \in DOMAIN a : ToSet(Lines(a[f]).records) \subseteq ToSet(Lines(b[f]).records)
  PROVE  ToSet(Journal(a, kind)) \subseteq ToSet(Journal(b, kind))
<1> SUFFICES ASSUME NEW x \in ToSet(Journal(a, kind)) PROVE x \in ToSet(Journal(b, kind))
  OBVIOUS
<1>1. PICK f \in DOMAIN a : KindOf(f) = kind /\ x \in ToSet(Lines(a[f]).records)
  BY JournalIs, Zenon
<1>2. f \in DOMAIN b /\ x \in ToSet(Lines(b[f]).records)
  BY <1>1, Zenon
<1> QED
  BY <1>1, <1>2, JournalIs, Zenon

-----------------------------------------------------------------------------
(* What the index keeps of the calls.                                       *)

\* The calls are the first ones of each event, in the order of the records.
Kept(calls, records) ==
    \E order \in [1 .. Cardinality(Firsts(records)) -> Firsts(records)] :
        /\ \A i, j \in DOMAIN order : i < j => order[i] < order[j]
        /\ calls = [k \in DOMAIN order |-> records[order[k]]]

Identified(records) == {r \in ToSet(records) : r.event # 0}

\* There are finitely many first records.
LEMMA FirstsAreFinite ==
  ASSUME NEW r \in Seq(Recs)
  PROVE  /\ Firsts(r) \subseteq 1 .. Len(r) /\ IsFiniteSet(Firsts(r))
         /\ Cardinality(Firsts(r)) \in Nat
<1>1. Firsts(r) \subseteq 1 .. Len(r)
  BY DEF Firsts
<1>2. IsFiniteSet(1 .. Len(r))
  BY FS_Interval
<1> QED
  BY <1>1, <1>2, FS_Subset, FS_CardinalityType

\* One more record is a first one unless it is a replay.
LEMMA FirstsAppend ==
  ASSUME NEW r \in Seq(Recs), NEW x \in Recs
  PROVE  /\ x.event # 0 /\ (\E y \in Identified(r) : y.event = x.event)
              => Firsts(Append(r, x)) = Firsts(r)
         /\ ~(x.event # 0 /\ \E y \in Identified(r) : y.event = x.event)
              => Firsts(Append(r, x)) = Firsts(r) \cup {Len(r) + 1}
<1> DEFINE q == Append(r, x)
<1>1. /\ Len(r) \in Nat /\ DOMAIN r = 1 .. Len(r) /\ DOMAIN q = 1 .. Len(r) + 1
      /\ q[Len(r) + 1] = x /\ \A i \in 1 .. Len(r) : q[i] = r[i]
  <2>1. q \in Seq(Recs) /\ Len(q) = Len(r) + 1
    BY AppendProperties
  <2> QED
    BY <2>1, AppendProperties, LenProperties
<1> HIDE DEF q
<1>2. \A i \in 1 .. Len(r) : i \in Firsts(q) <=> i \in Firsts(r)
  <2> TAKE i \in 1 .. Len(r)
  <2>1. \A j \in 1 .. i - 1 : j \in 1 .. Len(r)
    BY <1>1
  <2>2. i \in DOMAIN q /\ i \in DOMAIN r /\ q[i] = r[i] /\ \A j \in 1 .. i - 1 : q[j] = r[j]
    BY <1>1, <2>1
  <2> QED
    BY <2>2, Zenon DEF Firsts
<1>3. Len(r) + 1 \in Firsts(q) <=> (x.event # 0 => \A j \in 1 .. Len(r) : r[j].event # x.event)
  <2>1. Len(r) + 1 \in DOMAIN q /\ (Len(r) + 1) - 1 = Len(r)
    BY <1>1
  <2> QED
    BY <1>1, <2>1, Zenon DEF Firsts
<1>4. (x.event # 0 /\ \E y \in Identified(r) : y.event = x.event) <=>
         ~(x.event # 0 => \A j \in 1 .. Len(r) : r[j].event # x.event)
  BY <1>1, Zenon DEF Identified, ToSet
<1>5. Firsts(q) \subseteq 1 .. Len(r) + 1 /\ Firsts(r) \subseteq 1 .. Len(r)
  BY <1>1, Zenon DEF Firsts
<1>6. \A i \in 1 .. Len(r) + 1 : i \in 1 .. Len(r) \/ i = Len(r) + 1
  BY <1>1
<1>7. Len(r) + 1 \notin 1 .. Len(r)
  BY <1>1
<1> QED
  BY <1>2, <1>3, <1>4, <1>5, <1>6, <1>7, Zenon DEF q

\* A replay changes nothing.
LEMMA KeptReplay ==
  ASSUME NEW r \in Seq(Recs), NEW x \in Recs, NEW calls, Kept(calls, r),
         Firsts(Append(r, x)) = Firsts(r)
  PROVE  Kept(calls, Append(r, x))
<1>1. PICK o \in [1 .. Cardinality(Firsts(r)) -> Firsts(r)] :
        /\ \A i, j \in DOMAIN o : i < j => o[i] < o[j]
        /\ calls = [k \in DOMAIN o |-> r[o[k]]]
  BY Zenon DEF Kept
<1> DEFINE q == Append(r, x)
<1>2. \A i \in 1 .. Len(r) : q[i] = r[i]
  BY AppendProperties
<1> HIDE DEF q
<1>3. \A k \in DOMAIN o : q[o[k]] = r[o[k]]
  BY <1>2, FirstsAreFinite, Zenon
<1>4. calls = [k \in DOMAIN o |-> q[o[k]]]
  BY <1>1, <1>3, Zenon
<1> QED
  BY <1>1, <1>4, Zenon DEF Kept, q

\* A new call is kept.
LEMMA KeptNew ==
  ASSUME NEW r \in Seq(Recs), NEW x \in Recs, NEW calls \in Seq(Recs), Kept(calls, r),
         Firsts(Append(r, x)) = Firsts(r) \cup {Len(r) + 1}
  PROVE  Kept(Append(calls, x), Append(r, x))
<1>1. PICK o \in [1 .. Cardinality(Firsts(r)) -> Firsts(r)] :
        /\ \A i, j \in DOMAIN o : i < j => o[i] < o[j]
        /\ calls = [k \in DOMAIN o |-> r[o[k]]]
  BY Zenon DEF Kept
<1>2. PICK n \in Nat : n = Cardinality(Firsts(r)) /\ DOMAIN o = 1 .. n
  BY FirstsAreFinite
<1>3. PICK m \in Nat : m = Len(r) /\ Firsts(r) \subseteq 1 .. m
  BY FirstsAreFinite, LenProperties
<1> DEFINE q == Append(r, x)
           p == [k \in 1 .. n + 1 |-> IF k = n + 1 THEN m + 1 ELSE o[k]]
<1>4. (\A i \in 1 .. m : q[i] = r[i]) /\ q[m + 1] = x
  BY <1>3, AppendProperties
<1>5. Firsts(q) = Firsts(r) \cup {m + 1}
  BY <1>3
<1>6. Cardinality(Firsts(q)) = n + 1
  <2>1. m + 1 \notin Firsts(r)
    BY <1>3
  <2> HIDE DEF q
  <2> QED
    BY <1>2, <1>5, <2>1, FirstsAreFinite, FS_AddElement
<1> HIDE DEF q
<1>7. \A k \in 1 .. n : o[k] \in Firsts(r) /\ o[k] \in 1 .. m
  BY <1>1, <1>2, <1>3
<1>8. DOMAIN p = 1 .. n + 1 /\ p[n + 1] = m + 1 /\ \A k \in 1 .. n : p[k] = o[k]
  BY <1>2
<1>9. \A k \in 1 .. n + 1 : k \in 1 .. n \/ k = n + 1
  BY <1>2
<1>10. p \in [1 .. Cardinality(Firsts(q)) -> Firsts(q)]
  <2>1. p = [k \in 1 .. n + 1 |-> p[k]]
    OBVIOUS
  <2> HIDE DEF p
  <2>2. \A k \in 1 .. n + 1 : p[k] \in Firsts(q)
    BY <1>5, <1>7, <1>8, <1>9, Zenon
  <2> QED
    BY <1>6, <2>1, <2>2, Zenon
<1> HIDE DEF p
<1>11. \A i, j \in DOMAIN p : i < j => p[i] < p[j]
  <2> SUFFICES ASSUME NEW i \in 1 .. n + 1, NEW j \in 1 .. n + 1, i < j PROVE p[i] < p[j]
    BY <1>8
  <2>1. i \in 1 .. n
    BY <1>2
  <2>2. CASE j = n + 1
    BY <1>7, <1>8, <2>1, <2>2
  <2>3. CASE j # n + 1
    <3>1. j \in 1 .. n
      BY <1>9, <2>3
    <3> QED
      BY <1>1, <1>2, <1>8, <2>1, <3>1
  <2> QED
    BY <2>2, <2>3
<1>12. Append(calls, x) = [k \in DOMAIN p |-> q[p[k]]]
  <2>1. Len(calls) = n
    BY <1>1, <1>2, LenProperties
  <2>2. \A k \in 1 .. n : calls[k] = r[o[k]]
    BY <1>1, <1>2
  <2> DEFINE d == Append(calls, x)
  <2>3. /\ d \in Seq(Recs) /\ Len(d) = n + 1 /\ d[n + 1] = x
        /\ \A k \in 1 .. n : d[k] = calls[k]
    BY <2>1, AppendProperties
  <2> HIDE DEF d
  <2>4. d = [k \in 1 .. n + 1 |-> d[k]]
    <3>1. d \in [1 .. n + 1 -> Recs]
      BY <2>3, LenProperties
    <3> QED
      BY <3>1, Zenon
  <2>5. \A k \in 1 .. n + 1 : d[k] = q[p[k]]
    <3> TAKE k \in 1 .. n + 1
    <3>1. CASE k \in 1 .. n
      BY <1>4, <1>7, <1>8, <2>2, <2>3, <3>1, ZenonT(60)
    <3>2. CASE k = n + 1
      BY <1>4, <1>8, <2>3, <3>2, Zenon
    <3> QED
      BY <1>9, <3>1, <3>2
  <2>6. d = [k \in DOMAIN p |-> q[p[k]]]
    BY <1>8, <2>4, <2>5, Zenon
  <2> QED
    BY <2>6 DEF d
<1> QED
  BY <1>10, <1>11, <1>12, Zenon DEF Kept, q

-----------------------------------------------------------------------------
(* Taking in records.                                                       *)

Rows == [record : Recs, call : Nat]
Source == [offset : Nat, digest : Seq(Chunks)]
SourceMaps == UNION {[F -> Source] : F \in SUBSET Names}
Indexes == [version : {"none", "current"}, sources : SourceMaps, replayed : Nat,
            calls : Seq(Recs), windows : Seq(Recs), annotations : Seq(Rows)]

\* What the index says of the calls, given all the records of calls.
CallsOf(index, records) ==
    /\ Kept(index.calls, records)
    /\ Identified(index.calls) = Identified(records)
    /\ index.replayed = Len(records) - Len(index.calls)

\* Fewer records agree as well.
LEMMA AgreeLess ==
  ASSUME NEW b, Agree(b), NEW a \in SUBSET b
  PROVE  Agree(a)
BY Zenon DEF Agree

\* What one more record agrees with.
LEMMA AgreeMore ==
  ASSUME NEW r \in Seq(Recs), NEW x \in Recs, Agree(ToSet(r)), x.event # 0
  PROVE  Agree(ToSet(Append(r, x))) <=>
            \/ x \in Identified(r)
            \/ \A y \in Identified(r) :
                 /\ y.event # x.event
                 /\ y.capture = x.capture => y.session = x.session /\ y.seq # x.seq
<1>1. ToSet(Append(r, x)) = ToSet(r) \cup {x}
  BY ElementsOfAppend
<1>2. Identified(r) = {y \in ToSet(r) : y.event # 0}
  BY DEF Identified
<1>3. {y \in ToSet(Append(r, x)) : y.event # 0} = Identified(r) \cup {x}
  BY <1>1, <1>2
<1>4. Agree(ToSet(Append(r, x))) <=>
         \A a, b \in Identified(r) \cup {x} :
            a # b => /\ a.event # b.event
                     /\ a.capture = b.capture => a.session = b.session /\ a.seq # b.seq
  BY <1>3, Zenon DEF Agree
<1>5. \A a, b \in Identified(r) :
            a # b => /\ a.event # b.event
                     /\ a.capture = b.capture => a.session = b.session /\ a.seq # b.seq
  BY <1>2, Zenon DEF Agree
<1>6. CASE x \in Identified(r)
  <2>1. Identified(r) \cup {x} = Identified(r)
    BY <1>6
  <2> QED
    BY <1>4, <1>5, <1>6, <2>1, Zenon
<1>7. CASE x \notin Identified(r)
  <2>1. ASSUME Agree(ToSet(Append(r, x))), NEW y \in Identified(r)
        PROVE  /\ y.event # x.event
               /\ y.capture = x.capture => y.session = x.session /\ y.seq # x.seq
    <3>1. y # x /\ y \in Identified(r) \cup {x} /\ x \in Identified(r) \cup {x}
      BY <1>7, Zenon
    <3> QED
      BY <1>4, <2>1, <3>1, Zenon
  <2>2. ASSUME \A y \in Identified(r) :
                 /\ y.event # x.event
                 /\ y.capture = x.capture => y.session = x.session /\ y.seq # x.seq
        PROVE  Agree(ToSet(Append(r, x)))
    <3>1. ASSUME NEW a \in Identified(r) \cup {x}, NEW b \in Identified(r) \cup {x}, a # b
          PROVE  /\ a.event # b.event
                 /\ a.capture = b.capture => a.session = b.session /\ a.seq # b.seq
      <4>1. CASE a = x
        <5>1. b \in Identified(r)
          BY <3>1, <4>1, Zenon
        <5> QED
          BY <2>2, <4>1, <5>1, Zenon
      <4>2. CASE b = x
        <5>1. a \in Identified(r)
          BY <3>1, <4>2, Zenon
        <5> QED
          BY <2>2, <4>2, <5>1, Zenon
      <4>3. CASE a # x /\ b # x
        BY <1>5, <3>1, <4>3, Zenon
      <4> QED
        BY <4>1, <4>2, <4>3
    <3> QED
      BY <1>4, <3>1, Zenon
  <2> QED
    BY <1>7, <2>1, <2>2, Zenon
<1> QED
  BY <1>6, <1>7

\* One call is taken in, or found to disagree.
SameRest(a, b) ==
    /\ a.version = b.version /\ a.sources = b.sources
    /\ a.windows = b.windows /\ a.annotations = b.annotations

\* A call that agrees with the others is kept, or counted as a replay.
LEMMA AcceptCallIs ==
  ASSUME NEW state, state.index \in Indexes, state.verdict = "fine", NEW x \in Recs,
         NEW r \in Seq(Recs), CallsOf(state.index, r), Agree(ToSet(r))
  PROVE  LET q == AcceptCall(state, x)
         IN  /\ q.index \in Indexes /\ SameRest(q.index, state.index)
             /\ q.verdict = "fine" => CallsOf(q.index, Append(r, x))
             /\ q.verdict = "fine" <=> Agree(ToSet(Append(r, x)))
<1> DEFINE q == AcceptCall(state, x)
           p == Append(r, x)
           previous == {y \in Identified(r) : y.event = x.event}
           clash == {y \in Identified(r) : /\ y.capture = x.capture
                                           /\ \/ y.session # x.session
                                              \/ y.seq = x.seq}
<1>1. PICK i \in Indexes : i = state.index
  OBVIOUS
<1>2. Identified(i.calls) = Identified(r)
  BY <1>1 DEF CallsOf
<1>3. q = IF x.event # 0 /\ previous # {}
          THEN [index |-> [i EXCEPT !.replayed = @ + 1],
                verdict |-> IF x \in previous THEN "fine" ELSE "conflict"]
          ELSE [index |-> [i EXCEPT !.calls = Append(@, x)],
                verdict |-> IF x.event = 0 \/ clash = {} THEN "fine" ELSE "conflict"]
  <2>1. {c \in ToSet(i.calls) : c.event # 0} = Identified(r)
    BY <1>2 DEF Identified
  <2> QED
    BY <1>1, <2>1, Zenon DEF AcceptCall
<1>4. i.calls \in Seq(Recs) /\ i.replayed \in Nat /\ Len(i.calls) \in Nat /\ Len(r) \in Nat
  BY LenProperties DEF Indexes
<1>5. p \in Seq(Recs) /\ Len(p) = Len(r) + 1 /\ ToSet(p) = ToSet(r) \cup {x}
  BY AppendProperties, ElementsOfAppend
<1>6. Kept(i.calls, r) /\ i.replayed = Len(r) - Len(i.calls)
  BY <1>1 DEF CallsOf
<1>7. Identified(p) = IF x.event # 0 THEN Identified(r) \cup {x} ELSE Identified(r)
  <2> HIDE DEF p
  <2> QED
    BY <1>5 DEF Identified
<1>8. CASE x.event # 0 /\ previous # {}
  <2>1. /\ q.index = [i EXCEPT !.replayed = @ + 1]
        /\ q.verdict = IF x \in previous THEN "fine" ELSE "conflict"
    <3>1. q = [index |-> [i EXCEPT !.replayed = @ + 1],
               verdict |-> IF x \in previous THEN "fine" ELSE "conflict"]
      BY <1>3, <1>8, Zenon
    <3> HIDE DEF q, previous
    <3> QED
      BY <3>1
  <2>2. q.index \in Indexes /\ q.index.calls = i.calls /\ q.index.replayed = i.replayed + 1
    <3> HIDE DEF q
    <3>1. i.replayed + 1 \in Nat
      BY <1>4
    <3>2. q.index = [i EXCEPT !.replayed = i.replayed + 1]
      BY <2>1
    <3> QED
      BY <3>1, <3>2 DEF Indexes
  <2>3. SameRest(q.index, i)
    <3> HIDE DEF q
    <3> QED
      BY <2>1 DEF Indexes, SameRest
  <2>4. Firsts(p) = Firsts(r)
    BY <1>8, FirstsAppend, Zenon
  <2>5. Kept(i.calls, p)
    BY <1>6, <2>4, KeptReplay
  <2>6. CASE x \in previous
    <3>1. x \in Identified(r) /\ x \in ToSet(r)
      BY <2>6, Zenon DEF Identified
    <3>2. Identified(p) = Identified(r) /\ ToSet(p) = ToSet(r)
      BY <1>5, <1>7, <3>1, Zenon
    <3>3. CallsOf(q.index, p)
      <4> HIDE DEF p, q
      <4>1. q.index.replayed = Len(p) - Len(q.index.calls)
        BY <1>4, <1>5, <1>6, <2>2
      <4> QED
        BY <1>2, <2>2, <2>5, <3>2, <4>1 DEF CallsOf
    <3>4. q.verdict = "fine" /\ Agree(ToSet(p))
      BY <2>1, <2>6, <3>2, Zenon
    <3> QED
      BY <1>1, <2>2, <2>3, <3>3, <3>4, Zenon
  <2>7. CASE x \notin previous
    <3>1. x \notin Identified(r)
      BY <2>7, Zenon
    <3>2. ~Agree(ToSet(p))
      BY <1>8, <3>1, AgreeMore, Zenon
    <3>3. q.verdict # "fine"
      BY <2>1, <2>7
    <3> QED
      BY <1>1, <2>2, <2>3, <3>2, <3>3, Zenon
  <2> QED
    BY <2>6, <2>7
<1>9. CASE ~(x.event # 0 /\ previous # {})
  <2>1. /\ q.index = [i EXCEPT !.calls = Append(@, x)]
        /\ q.verdict = IF x.event = 0 \/ clash = {} THEN "fine" ELSE "conflict"
    <3>1. q = [index |-> [i EXCEPT !.calls = Append(@, x)],
               verdict |-> IF x.event = 0 \/ clash = {} THEN "fine" ELSE "conflict"]
      BY <1>3, <1>9, Zenon
    <3> HIDE DEF q, clash
    <3> QED
      BY <3>1
  <2>2. Append(i.calls, x) \in Seq(Recs) /\ Len(Append(i.calls, x)) = Len(i.calls) + 1
    BY <1>4, AppendProperties
  <2>3. /\ q.index \in Indexes /\ q.index.calls = Append(i.calls, x)
        /\ q.index.replayed = i.replayed
    <3> HIDE DEF q
    <3> QED
      BY <2>1, <2>2 DEF Indexes
  <2>4. SameRest(q.index, i)
    <3> HIDE DEF q
    <3> QED
      BY <2>1 DEF Indexes, SameRest
  <2>5. Firsts(p) = Firsts(r) \cup {Len(r) + 1}
    BY <1>9, FirstsAppend, Zenon
  <2>6. Kept(Append(i.calls, x), p)
    BY <1>4, <1>6, <2>5, KeptNew
  <2>7. Identified(Append(i.calls, x)) = Identified(p)
    <3>1. ToSet(Append(i.calls, x)) = ToSet(i.calls) \cup {x}
      BY <1>4, ElementsOfAppend
    <3>2. Identified(Append(i.calls, x)) =
             IF x.event # 0 THEN Identified(i.calls) \cup {x} ELSE Identified(i.calls)
      BY <3>1 DEF Identified
    <3> QED
      BY <1>2, <1>7, <3>2, Zenon
  <2>8. CallsOf(q.index, p)
    <3> HIDE DEF p, q
    <3>1. q.index.replayed = Len(p) - Len(q.index.calls)
      <4>1. Len(q.index.calls) = Len(i.calls) + 1
        BY <2>2, <2>3
      <4> QED
        BY <1>4, <1>5, <1>6, <2>3, <4>1
    <3> QED
      BY <2>3, <2>6, <2>7, <3>1 DEF CallsOf
  <2>9. q.verdict = "fine" <=> Agree(ToSet(p))
    <3>1. CASE x.event = 0
      <4>1. Agree(ToSet(p))
        <5>1. Identified(p) = Identified(r)
          BY <1>7, <3>1
        <5> QED
          BY <5>1, Zenon DEF Agree, Identified
      <4> QED
        BY <2>1, <3>1, <4>1
    <3>2. CASE x.event # 0
      <4>1. \A y \in Identified(r) : y.event # x.event
        BY <1>9, <3>2, Zenon
      <4>2. x \notin Identified(r)
        BY <4>1, Zenon
      <4>3. clash = {} <=> \A y \in Identified(r) :
               y.capture = x.capture => y.session = x.session /\ y.seq # x.seq
        BY Zenon
      <4>4. Agree(ToSet(p)) <=> clash = {}
        BY <3>2, <4>1, <4>2, <4>3, AgreeMore, Zenon
      <4>5. q.verdict = "fine" <=> clash = {}
        <5> HIDE DEF clash
        <5> QED
          BY <2>1, <3>2
      <4> QED
        BY <4>4, <4>5, Zenon
    <3> QED
      BY <3>1, <3>2
  <2> QED
    BY <1>1, <2>3, <2>4, <2>8, <2>9, Zenon
<1> QED
  BY <1>8, <1>9, Zenon

\* What disagreed once stays so.
LEMMA AcceptCallDisagrees ==
  ASSUME NEW state, state.verdict # "fine", NEW x
  PROVE  AcceptCall(state, x).verdict # "fine"
BY DEF AcceptCall

\* Records are taken in one after the other.
LEMMA AcceptNone ==
  ASSUME NEW kind, kind # "lines", NEW index, NEW l, l.records = <<>>
  PROVE  AcceptAll(kind, index, l) = [index |-> index, verdict |-> l.verdict]
<1>1. DOMAIN l.records = 1 .. 0
  OBVIOUS
<1>2. PICK w : Accepts(w, kind, index, l, 0)
  BY <1>1, AcceptSteps
<1> QED
  BY <1>2, Zenon DEF Accepts

\* One more record.
LEMMA AcceptAppend ==
  ASSUME NEW kind, kind # "lines", NEW index, NEW l, NEW m, l.records \in Seq(Recs),
         NEW x \in Recs, m.records = Append(l.records, x), m.verdict = l.verdict
  PROVE  AcceptAll(kind, index, m) = Accept(kind, AcceptAll(kind, index, l), x)
<1> DEFINE c == l.records
           d == m.records
<1>1. PICK n \in Nat : n = Len(c) /\ DOMAIN c = 1 .. n
  BY LenProperties
<1>2. DOMAIN d = 1 .. n + 1 /\ (\A i \in 1 .. n : d[i] = c[i]) /\ d[n + 1] = x
  <2>1. d \in Seq(Recs) /\ Len(d) = n + 1
    BY <1>1, AppendProperties
  <2> QED
    BY <1>1, <2>1, AppendProperties, LenProperties
<1>3. PICK w : /\ w[0] = [index |-> index, verdict |-> l.verdict]
               /\ \A k \in 1 .. n : w[k] = Accept(kind, w[k - 1], c[k])
               /\ w[n] = AcceptAll(kind, index, l)
  <2>1. \E w : Accepts(w, kind, index, l, n)
    BY <1>1, AcceptSteps
  <2> QED
    BY <2>1, Zenon DEF Accepts
<1>4. PICK v : /\ v[0] = [index |-> index, verdict |-> m.verdict]
               /\ \A k \in 1 .. n + 1 : v[k] = Accept(kind, v[k - 1], d[k])
               /\ v[n + 1] = AcceptAll(kind, index, m)
  <2>1. n + 1 \in Nat
    OBVIOUS
  <2> HIDE DEF d
  <2>2. DOMAIN m.records = 1 .. n + 1
    BY <1>2 DEF d
  <2>3. \E v : Accepts(v, kind, index, m, n + 1)
    BY <2>1, <2>2, AcceptSteps
  <2> QED
    BY <2>3, Zenon DEF d, Accepts
<1> HIDE DEF c, d
<1> DEFINE S == {k \in Nat : k <= n => v[k] = w[k]}
<1>5. 0 \in S
  BY <1>3, <1>4
<1>6. ASSUME NEW k \in Nat, k \in S PROVE k + 1 \in S
  <2> SUFFICES ASSUME k + 1 <= n PROVE v[k + 1] = w[k + 1]
    OBVIOUS
  <2>1. k + 1 \in 1 .. n /\ k + 1 \in 1 .. n + 1 /\ (k + 1) - 1 = k
    BY <1>1
  <2>2. v[k] = w[k]
    BY <1>6, <2>1
  <2>3. v[k + 1] = Accept(kind, v[k], d[k + 1])
    BY <1>4, <2>1
  <2>4. w[k + 1] = Accept(kind, w[k], c[k + 1])
    BY <1>3, <2>1
  <2> QED
    BY <1>2, <2>1, <2>2, <2>3, <2>4
<1>7. v[n] = w[n]
  <2>1. n \in S
    <3> HIDE DEF S
    <3> QED
      BY <1>5, <1>6, InductionOnNat
  <2> QED
    BY <2>1
<1>8. v[n + 1] = Accept(kind, v[n], d[n + 1])
  <2>1. n + 1 \in 1 .. n + 1 /\ (n + 1) - 1 = n
    OBVIOUS
  <2> QED
    BY <1>4, <2>1
<1> QED
  BY <1>2, <1>3, <1>4, <1>7, <1>8

\* Only the records and the verdict of the lines matter.
Only(records, verdict) == [records |-> records, verdict |-> verdict]

\* Nothing else of the lines matters.
LEMMA AcceptOnly ==
  ASSUME NEW kind, NEW index, NEW l
  PROVE  AcceptAll(kind, index, l) = AcceptAll(kind, index, Only(l.records, l.verdict))
<1>1. Only(l.records, l.verdict).records = l.records /\ Only(l.records, l.verdict).verdict = l.verdict
  BY DEF Only
<1> QED
  BY <1>1, Zenon DEF AcceptAll

\* The calls of a file are taken in, unless they disagree.
CallsTaken(q, index, records) ==
    /\ q.verdict = "fine" =>
         /\ q.index \in Indexes /\ SameRest(q.index, index)
         /\ CallsOf(q.index, records) /\ Agree(ToSet(records))
    /\ q.verdict # "fine" => ~Agree(ToSet(records))

\* All of them are taken in, one after the other.
LEMMA AcceptCalls ==
  ASSUME NEW index \in Indexes, NEW l, l.records \in Seq(Recs), l.verdict = "fine",
         NEW r \in Seq(Recs), CallsOf(index, r), Agree(ToSet(r))
  PROVE  CallsTaken(AcceptAll("calls", index, l), index, r \o l.records)
<1> DEFINE Q(s) == AcceptAll("calls", index, Only(s, "fine"))
           T == {s \in Seq(Recs) : CallsTaken(Q(s), index, r \o s)}
<1>0. \A s : Only(s, "fine").records = s /\ Only(s, "fine").verdict = "fine"
  BY DEF Only
<1>1. <<>> \in T
  <2>1. Q(<<>>) = [index |-> index, verdict |-> "fine"]
    BY <1>0, AcceptNone
  <2>2. r \o <<>> = r
    BY ConcatEmptySeq
  <2> HIDE DEF Q
  <2>3. Q(<<>>).index = index /\ Q(<<>>).verdict = "fine"
    BY <2>1
  <2>4. CallsTaken(Q(<<>>), index, r)
    BY <2>3 DEF CallsTaken, SameRest
  <2> QED
    BY <2>2, <2>4, EmptySeq
<1>2. ASSUME NEW s \in Seq(Recs), NEW x \in Recs, s \in T PROVE Append(s, x) \in T
  <2>1. PICK p \in Seq(Recs) : p = r \o s
    BY ConcatProperties
  <2>2. r \o Append(s, x) = Append(p, x) /\ Append(s, x) \in Seq(Recs)
    BY <2>1, AppendRight, AppendProperties
  <2>3. Q(Append(s, x)) = AcceptCall(Q(s), x)
    <3>1. Q(Append(s, x)) = Accept("calls", Q(s), x)
      <4> DEFINE m == Only(s, "fine")
                 t == Only(Append(s, x), "fine")
      <4>1. m.records \in Seq(Recs) /\ t.records = Append(m.records, x) /\ t.verdict = m.verdict
        BY <1>0
      <4> HIDE DEF m, t
      <4>2. AcceptAll("calls", index, t) = Accept("calls", AcceptAll("calls", index, m), x)
        BY <4>1, AcceptAppend
      <4> QED
        BY <4>2 DEF m, t
    <3> QED
      BY <3>1 DEF Accept
  <2>4. CallsTaken(Q(s), index, p)
    BY <1>2, <2>1
  <2> HIDE DEF Q
  <2>5. CallsTaken(AcceptCall(Q(s), x), index, Append(p, x))
    <3> DEFINE q == AcceptCall(Q(s), x)
    <3>1. CASE Q(s).verdict = "fine"
      <4>1. /\ Q(s).index \in Indexes /\ SameRest(Q(s).index, index)
            /\ CallsOf(Q(s).index, p) /\ Agree(ToSet(p))
        BY <2>4, <3>1, Zenon DEF CallsTaken
      <4>2. /\ q.index \in Indexes /\ SameRest(q.index, Q(s).index)
            /\ q.verdict = "fine" => CallsOf(q.index, Append(p, x))
            /\ q.verdict = "fine" <=> Agree(ToSet(Append(p, x)))
        BY <3>1, <4>1, AcceptCallIs
      <4>3. SameRest(q.index, index)
        BY <4>1, <4>2, Zenon DEF SameRest
      <4> HIDE DEF q
      <4>4. CallsTaken(q, index, Append(p, x))
        BY <4>2, <4>3, Zenon DEF CallsTaken
      <4> QED
        BY <4>4, Zenon DEF q
    <3>2. CASE Q(s).verdict # "fine"
      <4>1. q.verdict # "fine"
        BY <3>2, AcceptCallDisagrees
      <4>2. ~Agree(ToSet(p))
        BY <2>4, <3>2, Zenon DEF CallsTaken
      <4>3. ToSet(p) \in SUBSET ToSet(Append(p, x))
        BY ElementsOfAppend
      <4>4. ~Agree(ToSet(Append(p, x)))
        BY <4>2, <4>3, AgreeLess
      <4> HIDE DEF q
      <4>5. CallsTaken(q, index, Append(p, x))
        BY <4>1, <4>4, Zenon DEF CallsTaken
      <4> QED
        BY <4>5, Zenon DEF q
    <3> QED
      BY <3>1, <3>2
  <2> QED
    BY <2>2, <2>3, <2>5
<1>3. l.records \in T
  <2> HIDE DEF T
  <2> QED
    BY <1>1, <1>2, InductionOnSeq
<1>4. CallsTaken(Q(l.records), index, r \o l.records)
  <2> HIDE DEF Q
  <2> QED
    BY <1>3
<1>5. AcceptAll("calls", index, l) = Q(l.records)
  BY AcceptOnly
<1> HIDE DEF Q
<1> QED
  BY <1>4, <1>5

\* Lines that are malformed are never taken in.
LEMMA MalformedCalls ==
  ASSUME NEW index, NEW l, l.records \in Seq(Recs), l.verdict # "fine"
  PROVE  AcceptAll("calls", index, l).verdict # "fine"
<1> DEFINE Q(s) == AcceptAll("calls", index, Only(s, l.verdict))
           T == {s \in Seq(Recs) : Q(s).verdict # "fine"}
<1>0. \A s : Only(s, l.verdict).records = s /\ Only(s, l.verdict).verdict = l.verdict
  BY DEF Only
<1>1. <<>> \in T
  <2>1. Q(<<>>) = [index |-> index, verdict |-> l.verdict]
    BY <1>0, AcceptNone
  <2> HIDE DEF Q
  <2> QED
    BY <2>1, EmptySeq
<1>2. ASSUME NEW s \in Seq(Recs), NEW x \in Recs, s \in T PROVE Append(s, x) \in T
  <2>1. Q(Append(s, x)) = AcceptCall(Q(s), x)
    <3>1. Q(Append(s, x)) = Accept("calls", Q(s), x)
      <4> DEFINE m == Only(s, l.verdict)
                 t == Only(Append(s, x), l.verdict)
      <4>1. m.records \in Seq(Recs) /\ t.records = Append(m.records, x) /\ t.verdict = m.verdict
        BY <1>0
      <4> HIDE DEF m, t
      <4>2. AcceptAll("calls", index, t) = Accept("calls", AcceptAll("calls", index, m), x)
        BY <4>1, AcceptAppend
      <4> QED
        BY <4>2 DEF m, t
    <3> QED
      BY <3>1 DEF Accept
  <2> HIDE DEF Q
  <2>2. Q(s).verdict # "fine"
    BY <1>2
  <2>3. AcceptCall(Q(s), x).verdict # "fine"
    BY <2>2, AcceptCallDisagrees
  <2> QED
    BY <2>1, <2>3, AppendProperties
<1>3. l.records \in T
  <2> HIDE DEF T
  <2> QED
    BY <1>1, <1>2, InductionOnSeq
<1>5. AcceptAll("calls", index, l) = Q(l.records)
  BY AcceptOnly
<1> HIDE DEF Q
<1> QED
  BY <1>3, <1>5

\* A target is the position of a call, or 0.
LEMMA TargetIs ==
  ASSUME NEW calls \in Seq(Recs), NEW x
  PROVE  Target(calls, x) \in Nat
<1> DEFINE hits == {i \in DOMAIN calls :
                      IF x.event # 0 THEN calls[i].event = x.event
                      ELSE calls[i].session = x.session /\ calls[i].seq = x.seq}
<1>1. Target(calls, x) = IF Cardinality(hits) = 1 THEN CHOOSE i \in hits : TRUE ELSE 0
  BY Zenon DEF Target
<1>2. hits \subseteq Nat
  BY LenProperties
<1> HIDE DEF hits
<1>3. Cardinality(hits) = 1 => hits # {}
  <2>1. Cardinality({}) = 0
    BY FS_EmptySet
  <2>2. hits = {} => Cardinality(hits) = 0
    BY <2>1, Zenon
  <2>3. 0 # 1
    OBVIOUS
  <2> QED
    BY <2>2, <2>3, Zenon
<1>4. hits # {} => (CHOOSE i \in hits : TRUE) \in hits
  BY Zenon
<1> DEFINE hit == CHOOSE i \in hits : TRUE
<1>5. Target(calls, x) = IF Cardinality(hits) = 1 THEN hit ELSE 0
  BY <1>1
<1>6. Cardinality(hits) = 1 => hit \in Nat
  BY <1>2, <1>3, <1>4
<1> HIDE DEF hit
<1> QED
  BY <1>5, <1>6

\* What the index says of the annotations.
RowsOf(rows, records) ==
    Len(rows) = Len(records) /\ \A k \in 1 .. Len(records) : rows[k].record = records[k]

Linked(rows, calls) == \A k \in DOMAIN rows : rows[k].call = Target(calls, rows[k].record)

SameCalls(a, b) ==
    /\ a.version = b.version /\ a.sources = b.sources /\ a.replayed = b.replayed
    /\ a.calls = b.calls /\ a.windows = b.windows

NotesTaken(q, index, verdict, records) ==
    /\ q.verdict = verdict /\ q.index \in Indexes /\ SameCalls(q.index, index)
    /\ RowsOf(q.index.annotations, records)
    /\ Linked(index.annotations, index.calls) => Linked(q.index.annotations, index.calls)

\* One annotation is taken in.
LEMMA AcceptNoteIs ==
  ASSUME NEW state, state.index \in Indexes, NEW x \in Recs,
         NEW r \in Seq(Recs), RowsOf(state.index.annotations, r)
  PROVE  NotesTaken(AcceptAnnotation(state, x), state.index, state.verdict, Append(r, x))
<1>1. PICK i \in Indexes : i = state.index
  OBVIOUS
<1>2. /\ i.annotations \in Seq(Rows) /\ i.calls \in Seq(Recs)
      /\ Len(i.annotations) = Len(r) /\ Len(r) \in Nat
  BY <1>1, LenProperties DEF Indexes, RowsOf
<1> DEFINE row == [record |-> x, call |-> Target(i.calls, x)]
           rows == Append(i.annotations, row)
           q == AcceptAnnotation(state, x)
<1>3. row \in Rows /\ row.record = x /\ row.call = Target(i.calls, x)
  BY <1>2, TargetIs DEF Rows
<1>4. q.index = [i EXCEPT !.annotations = rows] /\ q.verdict = state.verdict
  BY <1>1 DEF AcceptAnnotation
<1> HIDE DEF q, row
<1>5. /\ rows \in Seq(Rows) /\ Len(rows) = Len(r) + 1 /\ rows[Len(r) + 1] = row
      /\ \A k \in 1 .. Len(r) : rows[k] = i.annotations[k]
  BY <1>2, <1>3, AppendProperties
<1>6. DOMAIN rows = 1 .. Len(r) + 1 /\ DOMAIN i.annotations = 1 .. Len(r)
  BY <1>2, <1>5, LenProperties
<1>7. /\ Len(Append(r, x)) = Len(r) + 1 /\ Append(r, x)[Len(r) + 1] = x
      /\ \A k \in 1 .. Len(r) : Append(r, x)[k] = r[k]
  BY AppendProperties
<1> HIDE DEF rows
<1>8. /\ q.index \in Indexes /\ SameCalls(q.index, i) /\ q.index.annotations = rows
  BY <1>4, <1>5 DEF Indexes, SameCalls
<1>9. \A k \in 1 .. Len(r) + 1 : k \in 1 .. Len(r) \/ k = Len(r) + 1
  BY <1>2
<1>10. \A k \in 1 .. Len(r) : i.annotations[k].record = r[k]
  BY <1>1, Zenon DEF RowsOf
<1>11. \A k \in 1 .. Len(r) + 1 : rows[k].record = Append(r, x)[k]
  BY <1>3, <1>5, <1>7, <1>9, <1>10, Zenon
<1>12. RowsOf(rows, Append(r, x))
  BY <1>5, <1>7, <1>11, Zenon DEF RowsOf
<1>13. Linked(i.annotations, i.calls) => Linked(rows, i.calls)
  BY <1>3, <1>5, <1>6, <1>9, Zenon DEF Linked
<1> QED
  BY <1>1, <1>4, <1>8, <1>12, <1>13, Zenon DEF NotesTaken, q

\* All annotations of a file are.
LEMMA AcceptNotes ==
  ASSUME NEW index \in Indexes, NEW l, l.records \in Seq(Recs),
         NEW r \in Seq(Recs), RowsOf(index.annotations, r)
  PROVE  NotesTaken(AcceptAll("annotations", index, l), index, l.verdict, r \o l.records)
<1> DEFINE Q(s) == AcceptAll("annotations", index, Only(s, l.verdict))
           T == {s \in Seq(Recs) : NotesTaken(Q(s), index, l.verdict, r \o s)}
<1>0. \A s : Only(s, l.verdict).records = s /\ Only(s, l.verdict).verdict = l.verdict
  BY DEF Only
<1>1. <<>> \in T
  <2>1. Q(<<>>) = [index |-> index, verdict |-> l.verdict]
    BY <1>0, AcceptNone
  <2>2. r \o <<>> = r
    BY ConcatEmptySeq
  <2> HIDE DEF Q
  <2>3. Q(<<>>).index = index /\ Q(<<>>).verdict = l.verdict
    BY <2>1
  <2>4. NotesTaken(Q(<<>>), index, l.verdict, r)
    BY <2>3 DEF NotesTaken, SameCalls
  <2> QED
    BY <2>2, <2>4, EmptySeq
<1>2. ASSUME NEW s \in Seq(Recs), NEW x \in Recs, s \in T PROVE Append(s, x) \in T
  <2>1. PICK p \in Seq(Recs) : p = r \o s
    BY ConcatProperties
  <2>2. r \o Append(s, x) = Append(p, x) /\ Append(s, x) \in Seq(Recs)
    BY <2>1, AppendRight, AppendProperties
  <2>3. Q(Append(s, x)) = AcceptAnnotation(Q(s), x)
    <3>1. Q(Append(s, x)) = Accept("annotations", Q(s), x)
      <4> DEFINE m == Only(s, l.verdict)
                 t == Only(Append(s, x), l.verdict)
      <4>1. m.records \in Seq(Recs) /\ t.records = Append(m.records, x) /\ t.verdict = m.verdict
        BY <1>0
      <4> HIDE DEF m, t
      <4>2. AcceptAll("annotations", index, t) = Accept("annotations", AcceptAll("annotations", index, m), x)
        BY <4>1, AcceptAppend, SMTT(30)
      <4> QED
        BY <4>2 DEF m, t
    <3> QED
      BY <3>1 DEF Accept
  <2>4. NotesTaken(Q(s), index, l.verdict, p)
    BY <1>2, <2>1
  <2> HIDE DEF Q
  <2>5. NotesTaken(AcceptAnnotation(Q(s), x), index, l.verdict, Append(p, x))
    <3>1. Q(s).index \in Indexes /\ RowsOf(Q(s).index.annotations, p)
      BY <2>4, Zenon DEF NotesTaken
    <3>2. NotesTaken(AcceptAnnotation(Q(s), x), Q(s).index, Q(s).verdict, Append(p, x))
      BY <3>1, AcceptNoteIs
    <3> QED
      BY <2>4, <3>2, Zenon DEF NotesTaken, SameCalls
  <2> QED
    BY <2>2, <2>3, <2>5
<1>3. l.records \in T
  <2> HIDE DEF T
  <2> QED
    BY <1>1, <1>2, InductionOnSeq
<1>4. NotesTaken(Q(l.records), index, l.verdict, r \o l.records)
  <2> HIDE DEF Q
  <2> QED
    BY <1>3
<1>5. AcceptAll("annotations", index, l) = Q(l.records)
  BY AcceptOnly
<1> HIDE DEF Q
<1> QED
  BY <1>4, <1>5

-----------------------------------------------------------------------------
(* What a refresh has seen of the journals.                                 *)

FileMaps == UNION {[F -> Seq(Chunks)] : F \in SUBSET Names}
Phases == {"calls", "annotations"}
Plans == [pc : {"idle", "prepare", "calls", "annotations", "inventory", "finish"},
          files : SUBSET Names, todo : SUBSET Names, prior : SourceMaps,
          mode : {"incremental", "rebuild"}, snapshot : FileMaps,
          offset : UNION {[F -> Nat] : F \in SUBSET Names}, changed : SUBSET Phases]

\* The files whose new lines are still to be visited.
Pending(p) == {f \in p.files : \/ p.pc \in Phases /\ f \in p.todo
                               \/ p.pc = "calls" /\ KindOf(f) = "annotations"}

\* Of these, only what an earlier refresh has read is indexed.
Seen(p) == [f \in p.files |-> IF f \in Pending(p) THEN SubSeq(p.snapshot[f], 1, p.offset[f])
                              ELSE p.snapshot[f]]

\* A plan goes on where complete lines end; only the last files of a kind have
\* new lines, and they are visited in the order of their names.
Ready(p) ==
    /\ DOMAIN p.snapshot = p.files /\ DOMAIN p.offset = p.files
    /\ \A f \in p.files : /\ p.offset[f] \in 0 .. Len(p.snapshot[f])
                          /\ Lines(SubSeq(p.snapshot[f], 1, p.offset[f])).complete = p.offset[f]
    /\ \A f, g \in p.files :
         p.offset[f] # Len(p.snapshot[f]) /\ KindOf(g) = KindOf(f) /\ g > f => p.offset[g] = 0
    /\ p.pc \in Phases =>
         \A f \in p.todo : /\ f \in p.files /\ KindOf(f) = p.pc
                           /\ \A g \in p.files : KindOf(g) = p.pc /\ g > f => g \in p.todo

\* What the sources of an index say of the journals it was derived from.
SourcesOf(sources, s) ==
    /\ DOMAIN sources \subseteq DOMAIN s
    /\ \A f \in DOMAIN sources : /\ sources[f].offset = Lines(s[f]).complete
                                 /\ sources[f].digest = SubSeq(s[f], 1, sources[f].offset)
    /\ \A f \in DOMAIN s : f \notin DOMAIN sources => s[f] = <<>>

\* The index holds the records of these journals.
Derived(index, s) ==
    /\ SourcesOf(index.sources, s)
    /\ \A f \in DOMAIN s : Lines(s[f]).verdict = "fine"
    /\ Agree(ToSet(Journal(s, "calls")))
    /\ CallsOf(index, Journal(s, "calls"))
    /\ RowsOf(index.annotations, Journal(s, "annotations"))

\* Two ways to say what journals are.
LEMMA FilesAre ==
  ASSUME NEW x
  PROVE  x \in FileMaps <=> IsFiles(x)
<1>1. ASSUME x \in FileMaps PROVE IsFiles(x)
  <2>1. PICK F \in SUBSET Names : x \in [F -> Seq(Chunks)]
    BY <1>1, Zenon DEF FileMaps
  <2> QED
    BY <2>1, Zenon DEF IsFiles
<1>2. ASSUME IsFiles(x) PROVE x \in FileMaps
  <2>1. DOMAIN x \in SUBSET Names /\ x \in [DOMAIN x -> Seq(Chunks)]
    BY <1>2, Zenon DEF IsFiles
  <2> QED
    BY <2>1, Zenon DEF FileMaps
<1> QED
  BY <1>1, <1>2

\* A set of names has a first one.
LEMMA FirstIs ==
  ASSUME NEW S \in SUBSET Names, S # {}
  PROVE  First(S) \in S /\ \A g \in S : First(S) <= g
<1>1. S \subseteq Nat
  BY JournalIndexAssumption DEF Names
<1>2. IsWellFoundedOn(OpToRel(<, Nat), Nat)
  BY NatLessThanWellFounded, Zenon
<1>3. PICK x \in S : \A y \in S : ~(<<y, x>> \in OpToRel(<, Nat))
  BY <1>1, <1>2, WFMin, Zenon
<1>4. ASSUME NEW g \in S PROVE x <= g
  <2>1. g \in Nat /\ x \in Nat
    BY <1>1
  <2>2. g < x => <<g, x>> \in OpToRel(<, Nat)
    BY <2>1 DEF OpToRel
  <2>3. ~(g < x)
    BY <1>3, <2>2, Zenon
  <2> QED
    BY <2>1, <2>3
<1> QED
  BY <1>4, Zenon DEF First

\* The first part of a journal, if it ends with a line, and the rest.
LEMMA Split ==
  ASSUME NEW c \in Seq(Chunks), NEW n \in 0 .. Len(c), Lines(SubSeq(c, 1, n)).complete = n
  PROVE  LET a == SubSeq(c, 1, n)
             b == SubSeq(c, n + 1, Len(c))
         IN  /\ a \in Seq(Chunks) /\ b \in Seq(Chunks) /\ Len(a) = n
             /\ Lines(c).complete = n + Lines(b).complete
             /\ Lines(c).records = Lines(a).records \o Lines(b).records
             /\ Lines(c).verdict = IF Lines(a).verdict = "fine" THEN Lines(b).verdict ELSE "malformed"
<1>1. Len(c) \in Nat /\ \A i \in 1 .. Len(c) : c[i] \in Chunks
  BY LenProperties
<1> DEFINE a == SubSeq(c, 1, n)
           b == SubSeq(c, n + 1, Len(c))
<1>2. a \in Seq(Chunks) /\ Len(a) = n
  <2>1. \A i \in 1 .. n : c[i] \in Chunks
    BY <1>1
  <2> QED
    BY <1>1, <2>1, SubSeqProperties
<1>3. b \in Seq(Chunks)
  <2>1. \A i \in n + 1 .. Len(c) : c[i] \in Chunks
    BY <1>1
  <2> QED
    BY <1>1, <2>1, SubSeqProperties
<1>4. a \o b = c
  <2>1. SubSeq(c, 1, Len(c)) = c
    BY SubSeqFull
  <2>2. 1 \in 1 .. Len(c) + 1 /\ n \in 1 - 1 .. Len(c) /\ Len(c) \in n .. Len(c)
    BY <1>1
  <2>3. SubSeq(c, 1, n) \o SubSeq(c, n + 1, Len(c)) = SubSeq(c, 1, Len(c))
    BY <2>2, ConcatAdjacentSubSeq
  <2> QED
    BY <2>1, <2>3
<1>5. Lines(a).complete = n
  OBVIOUS
<1> HIDE DEF a, b
<1>6. /\ Lines(a \o b).complete = Len(a) + Lines(b).complete
      /\ Lines(a \o b).records = Lines(a).records \o Lines(b).records
      /\ Lines(a \o b).verdict = IF Lines(a).verdict = "fine" THEN Lines(b).verdict ELSE "malformed"
  BY <1>2, <1>3, <1>5, LinesOfConcat
<1>7. /\ a \in Seq(Chunks) /\ b \in Seq(Chunks) /\ Len(a) = n
      /\ Lines(c).complete = n + Lines(b).complete
      /\ Lines(c).records = Lines(a).records \o Lines(b).records
      /\ Lines(c).verdict = IF Lines(a).verdict = "fine" THEN Lines(b).verdict ELSE "malformed"
  BY <1>2, <1>3, <1>4, <1>6
<1> QED
  BY <1>7 DEF a, b

\* Of each file, something is seen, and a first part of it at least.
LEMMA SeenIs ==
  ASSUME NEW p \in Plans, Ready(p)
  PROVE  /\ IsFiles(p.snapshot) /\ IsFiles(Seen(p)) /\ DOMAIN Seen(p) = p.files
         /\ DOMAIN p.snapshot = p.files
         /\ \A f \in p.files : ToSet(Lines(Seen(p)[f]).records) \subseteq
                                  ToSet(Lines(p.snapshot[f]).records)
<1>1. p.files \in SUBSET Names /\ p.snapshot \in FileMaps
  BY DEF Plans
<1>2. IsFiles(p.snapshot) /\ DOMAIN p.snapshot = p.files
  BY <1>1, FilesAre, Zenon DEF Ready
<1>3. \A f \in p.files : p.snapshot[f] \in Seq(Chunks)
  BY <1>2, Zenon DEF IsFiles
<1>4. ASSUME NEW f \in p.files
      PROVE  /\ Seen(p)[f] \in Seq(Chunks)
             /\ ToSet(Lines(Seen(p)[f]).records) \subseteq ToSet(Lines(p.snapshot[f]).records)
  <2>1. PICK c \in Seq(Chunks) : c = p.snapshot[f]
    BY <1>3
  <2>2. PICK n \in 0 .. Len(c) : n = p.offset[f] /\ Lines(SubSeq(c, 1, n)).complete = n
    BY <2>1, Zenon DEF Ready
  <2>3. Seen(p)[f] \in {SubSeq(c, 1, n), c}
    BY <2>1, <2>2, Zenon DEF Seen
  <2> DEFINE b == SubSeq(c, n + 1, Len(c))
  <2>4. /\ SubSeq(c, 1, n) \in Seq(Chunks) /\ b \in Seq(Chunks)
        /\ Lines(c).records = Lines(SubSeq(c, 1, n)).records \o Lines(b).records
    BY <2>2, Split
  <2> HIDE DEF b
  <2>5. ToSet(Lines(SubSeq(c, 1, n)).records) \subseteq ToSet(Lines(c).records)
    <3>1. PICK x \in Seq(Recs), y \in Seq(Recs) : x = Lines(SubSeq(c, 1, n)).records /\ y = Lines(b).records
      BY <2>4, RecordsAre
    <3>2. ToSet(x \o y) = ToSet(x) \cup ToSet(y)
      BY ElementsOfConcat
    <3> QED
      BY <2>4, <3>1, <3>2, Zenon
  <2> QED
    BY <2>1, <2>3, <2>4, <2>5, Zenon
<1>5. DOMAIN Seen(p) = p.files /\ Seen(p) = [f \in p.files |-> Seen(p)[f]]
  BY Zenon DEF Seen
<1>6. IsFiles(Seen(p))
  BY <1>1, <1>4, <1>5, Zenon DEF IsFiles
<1> QED
  BY <1>2, <1>4, <1>5, <1>6

\* The journals that are not indexable because of what was seen.
LEMMA NotIndexable ==
  ASSUME NEW p \in Plans, Ready(p), ~Agree(ToSet(Journal(Seen(p), "calls")))
  PROVE  ~Indexable(p.snapshot)
<1>1. /\ IsFiles(p.snapshot) /\ IsFiles(Seen(p)) /\ DOMAIN Seen(p) = p.files
      /\ DOMAIN p.snapshot = p.files
      /\ \A f \in p.files : ToSet(Lines(Seen(p)[f]).records) \subseteq
                                  ToSet(Lines(p.snapshot[f]).records)
  BY SeenIs
<1>2. ToSet(Journal(Seen(p), "calls")) \in SUBSET ToSet(Journal(p.snapshot, "calls"))
  <2>1. PICK a : a = Seen(p)
    OBVIOUS
  <2>2. PICK b : b = p.snapshot
    OBVIOUS
  <2>3. /\ IsFiles(a) /\ IsFiles(b) /\ DOMAIN a \subseteq DOMAIN b
        /\ \A f \in DOMAIN a : ToSet(Lines(a[f]).records) \subseteq ToSet(Lines(b[f]).records)
    BY <1>1, <2>1, <2>2
  <2>4. ToSet(Journal(a, "calls")) \subseteq ToSet(Journal(b, "calls"))
    BY <2>3, MoreRecords
  <2> QED
    BY <2>1, <2>2, <2>4
<1>3. ~Agree(ToSet(Journal(p.snapshot, "calls")))
  BY <1>2, AgreeLess, Zenon
<1> QED
  BY <1>3, Zenon DEF Indexable

-----------------------------------------------------------------------------
(* A file is visited.                                                       *)

KindsAre == \A f : KindOf(f) \in Phases

\* There is no third kind of file.
LEMMA Kinds == KindsAre
BY DEF KindOf, Phases, KindsAre

\* The plan p goes on to q: f is the next file.
Visiting(p, f) == p.pc \in Phases /\ f \in p.todo /\ \A g \in p.todo : f <= g

Visited(p, q, f) ==
    /\ q.files = p.files /\ q.snapshot = p.snapshot /\ q.offset = p.offset
    /\ q.pc = p.pc /\ q.todo = p.todo \ {f}

\* The lines of f that are new, and what is then known of it.
NewLines(p, f) == Lines(SubSeq(p.snapshot[f], p.offset[f] + 1, Len(p.snapshot[f])))
ReadTo(p, f) == p.offset[f] + NewLines(p, f).complete
SourceOf(p, f) == [offset |-> ReadTo(p, f), digest |-> SubSeq(p.snapshot[f], 1, ReadTo(p, f))]

\* The plan stays one that goes on.
LEMMA VisitedIsReady ==
  ASSUME NEW p \in Plans, Ready(p), NEW f, Visiting(p, f), NEW q, Visited(p, q, f)
  PROVE  Ready(q)
<1>1. /\ DOMAIN q.snapshot = q.files /\ DOMAIN q.offset = q.files
      /\ \A g \in q.files : /\ q.offset[g] \in 0 .. Len(q.snapshot[g])
                            /\ Lines(SubSeq(q.snapshot[g], 1, q.offset[g])).complete = q.offset[g]
      /\ \A g, h \in q.files :
           q.offset[g] # Len(q.snapshot[g]) /\ KindOf(h) = KindOf(g) /\ h > g => q.offset[h] = 0
  BY Zenon DEF Ready, Visited
<1>2. ASSUME NEW g \in q.todo
      PROVE  /\ g \in q.files /\ KindOf(g) = q.pc
             /\ \A h \in q.files : KindOf(h) = q.pc /\ h > g => h \in q.todo
  <2>1. g \in p.todo /\ g # f /\ f <= g /\ f \in p.todo
    BY Zenon DEF Visited, Visiting
  <2>2. \A h \in p.todo : /\ h \in p.files /\ KindOf(h) = p.pc
                          /\ \A k \in p.files : KindOf(k) = p.pc /\ k > h => k \in p.todo
    BY Zenon DEF Ready, Visiting
  <2>3. \A h \in q.files : h > g => h # f
    <3>1. f \in Nat /\ g \in Nat
      BY <2>1, JournalIndexAssumption DEF Plans, Names
    <3>2. ~(f > g)
      BY <2>1, <3>1
    <3> QED
      BY <3>2, Zenon
  <2> QED
    BY <2>1, <2>2, <2>3, Zenon DEF Visited
<1> QED
  BY <1>1, <1>2, Zenon DEF Ready

\* Nothing is new.
LEMMA SeenSame ==
  ASSUME NEW p, NEW q, q.files = p.files, q.snapshot = p.snapshot, q.offset = p.offset,
         Pending(q) = Pending(p)
  PROVE  Seen(q) = Seen(p)
BY Zenon DEF Seen

\* The visited file is no longer pending.
LEMMA PendingVisited ==
  ASSUME NEW p, Ready(p), NEW f, Visiting(p, f), NEW q, Visited(p, q, f)
  PROVE  f \in p.files /\ f \in Pending(p) /\ Pending(q) = Pending(p) \ {f}
<1>1. f \in p.files /\ KindOf(f) = p.pc /\ p.pc \in Phases /\ f \in p.todo
  BY Zenon DEF Ready, Visiting
<1>2. "calls" # "annotations"
  OBVIOUS
<1>3. p.pc = "calls" => KindOf(f) # "annotations"
  BY <1>1, <1>2, Zenon
<1>4. f \in Pending(p)
  BY <1>1, Zenon DEF Pending
<1>5. \A g : g \in Pending(q) <=> g \in Pending(p) /\ g # f
  BY <1>1, <1>3, Zenon DEF Pending, Visited
<1> QED
  BY <1>1, <1>4, <1>5, Zenon

\* A file without new lines adds nothing to what is seen.
LEMMA NothingNew ==
  ASSUME NEW p \in Plans, Ready(p), NEW f, Visiting(p, f), NEW q, Visited(p, q, f),
         p.offset[f] = Len(p.snapshot[f])
  PROVE  Seen(q) = Seen(p)
<1>1. f \in p.files /\ f \in Pending(p) /\ Pending(q) = Pending(p) \ {f}
  BY PendingVisited
<1>2. p.snapshot[f] \in Seq(Chunks)
  BY <1>1, SeenIs, Zenon DEF IsFiles
<1>3. SubSeq(p.snapshot[f], 1, p.offset[f]) = p.snapshot[f]
  BY <1>2, SubSeqFull
<1>4. q.files = p.files /\ q.snapshot = p.snapshot /\ q.offset = p.offset
  BY Zenon DEF Visited
<1>5. \A g \in p.files : Seen(q)[g] = Seen(p)[g]
  BY <1>1, <1>3, <1>4, Zenon DEF Seen
<1>6. Seen(p) = [g \in p.files |-> Seen(p)[g]] /\ Seen(q) = [g \in p.files |-> Seen(q)[g]]
  BY <1>4, Zenon DEF Seen
<1> QED
  BY <1>5, <1>6, Zenon

\* The new lines of f are new records of its kind.
LEMMA SeenGrows ==
  ASSUME NEW p \in Plans, Ready(p), NEW f, Visiting(p, f), NEW q, Visited(p, q, f),
         p.offset[f] # Len(p.snapshot[f])
  PROVE  /\ f \in p.files /\ KindOf(f) = p.pc /\ p.snapshot[f] \in Seq(Chunks)
         /\ NewLines(p, f).records \in Seq(Recs)
         /\ Seen(q)[f] = p.snapshot[f]
         /\ Lines(Seen(q)[f]).complete = ReadTo(p, f)
         /\ Lines(Seen(q)[f]).verdict =
               IF Lines(Seen(p)[f]).verdict = "fine" THEN NewLines(p, f).verdict ELSE "malformed"
         /\ FileGrows(Seen(p), Seen(q), f, NewLines(p, f).records)
<1>1. f \in p.files /\ f \in Pending(p) /\ Pending(q) = Pending(p) \ {f}
  BY PendingVisited
<1>2. p.snapshot[f] \in Seq(Chunks)
  BY <1>1, SeenIs, Zenon DEF IsFiles
<1>3. q.files = p.files /\ q.snapshot = p.snapshot /\ q.offset = p.offset
  BY Zenon DEF Visited
<1>4. Seen(q)[f] = p.snapshot[f] /\ Seen(p)[f] = SubSeq(p.snapshot[f], 1, p.offset[f])
  BY <1>1, <1>3, Zenon DEF Seen
<1>5. \A g \in p.files : g # f => Seen(q)[g] = Seen(p)[g]
  BY <1>1, <1>3, Zenon DEF Seen
<1>6. PICK c \in Seq(Chunks) : c = p.snapshot[f]
  BY <1>2
<1>7. PICK n \in 0 .. Len(c) : n = p.offset[f] /\ Lines(SubSeq(c, 1, n)).complete = n
  BY <1>1, <1>6, Zenon DEF Ready
<1>8. LET b == SubSeq(c, n + 1, Len(c))
      IN  /\ b \in Seq(Chunks)
          /\ Lines(c).complete = n + Lines(b).complete
          /\ Lines(c).records = Lines(SubSeq(c, 1, n)).records \o Lines(b).records
          /\ Lines(c).verdict = IF Lines(SubSeq(c, 1, n)).verdict = "fine" THEN Lines(b).verdict
                                ELSE "malformed"
  <2>1. Lines(SubSeq(c, 1, n)).complete = n
    BY <1>7
  <2> QED
    BY <2>1, Split, Zenon
<1>9. NewLines(p, f) = Lines(SubSeq(c, n + 1, Len(c))) /\ NewLines(p, f).records \in Seq(Recs)
  BY <1>6, <1>7, <1>8, RecordsAre, Zenon DEF NewLines
<1>10. KindOf(f) = p.pc
  BY Zenon DEF Ready, Visiting
<1>11. ASSUME NEW g \in p.files, g > f, KindOf(g) = KindOf(f) PROVE Seen(p)[g] = <<>>
  <2>1. g \in p.todo /\ p.pc \in Phases
    BY <1>10, <1>11, Zenon DEF Ready, Visiting
  <2>2. p.offset[g] = 0
    BY <1>1, <1>11, Zenon DEF Ready
  <2>3. Seen(p)[g] = SubSeq(p.snapshot[g], 1, 0)
    BY <2>1, <2>2, Zenon DEF Seen, Pending
  <2> QED
    BY <2>3, SubSeqEmpty
<1>12. DOMAIN Seen(q) = p.files /\ DOMAIN Seen(p) = p.files
  BY <1>3, Zenon DEF Seen
<1>13. FileGrows(Seen(p), Seen(q), f, NewLines(p, f).records)
  BY <1>4, <1>5, <1>6, <1>7, <1>8, <1>9, <1>11, <1>12, Zenon DEF FileGrows
<1> QED
  BY <1>1, <1>2, <1>4, <1>6, <1>7, <1>8, <1>9, <1>10, <1>13, Zenon DEF ReadTo

\* The sources describe what is seen then.
LEMMA SourcesVisited ==
  ASSUME NEW p \in Plans, Ready(p), NEW f, Visiting(p, f), NEW q, Visited(p, q, f),
         p.offset[f] # Len(p.snapshot[f]), NEW sources, SourcesOf(sources, Seen(p))
  PROVE  SourcesOf(With(sources, f, SourceOf(p, f)), Seen(q))
<1>1. /\ f \in p.files /\ Seen(q)[f] = p.snapshot[f]
      /\ Lines(Seen(q)[f]).complete = ReadTo(p, f)
      /\ FileGrows(Seen(p), Seen(q), f, NewLines(p, f).records)
  BY SeenGrows
<1>2. DOMAIN Seen(p) = p.files /\ DOMAIN Seen(q) = p.files
  BY Zenon DEF Seen, Visited
<1>3. \A g \in p.files : g # f => Seen(q)[g] = Seen(p)[g]
  BY <1>1, <1>2, Zenon DEF FileGrows
<1> DEFINE w == With(sources, f, SourceOf(p, f))
<1>4. /\ DOMAIN w = DOMAIN sources \cup {f} /\ w[f] = SourceOf(p, f)
      /\ \A g \in DOMAIN sources : g # f => w[g] = sources[g]
  BY Zenon DEF With
<1>5. /\ SourceOf(p, f).offset = ReadTo(p, f)
      /\ SourceOf(p, f).digest = SubSeq(p.snapshot[f], 1, ReadTo(p, f))
  BY DEF SourceOf
<1> HIDE DEF w
<1>6. DOMAIN sources \subseteq p.files
  BY <1>2, Zenon DEF SourcesOf
<1>7. ASSUME NEW g \in DOMAIN w
      PROVE  w[g].offset = Lines(Seen(q)[g]).complete /\ w[g].digest = SubSeq(Seen(q)[g], 1, w[g].offset)
  <2>1. CASE g = f
    BY <1>1, <1>4, <1>5, <2>1, Zenon
  <2>2. CASE g # f
    <3>1. g \in DOMAIN sources /\ w[g] = sources[g] /\ Seen(q)[g] = Seen(p)[g]
      BY <1>3, <1>4, <1>6, <2>2, Zenon
    <3> QED
      BY <3>1, Zenon DEF SourcesOf
  <2> QED
    BY <2>1, <2>2
<1>8. ASSUME NEW g \in p.files, g \notin DOMAIN w PROVE Seen(q)[g] = <<>>
  BY <1>2, <1>3, <1>4, <1>8, Zenon DEF SourcesOf
<1>9. SourcesOf(w, Seen(q))
  BY <1>1, <1>2, <1>4, <1>6, <1>7, <1>8, Zenon DEF SourcesOf
<1> QED
  BY <1>9 DEF w

\* One more source.
LEMMA SourceMapGrows ==
  ASSUME NEW sources \in SourceMaps, NEW f \in Names, NEW v \in Source
  PROVE  With(sources, f, v) \in SourceMaps
<1>1. PICK F \in SUBSET Names : sources \in [F -> Source]
  BY Zenon DEF SourceMaps
<1>2. DOMAIN sources = F /\ F \cup {f} \in SUBSET Names
  BY <1>1, Zenon
<1>3. \A g \in F \cup {f} : (IF g = f THEN v ELSE sources[g]) \in Source
  BY <1>1, Zenon
<1>4. With(sources, f, v) \in [F \cup {f} -> Source]
  BY <1>2, <1>3, Zenon DEF With
<1> QED
  BY <1>2, <1>4, Zenon DEF SourceMaps

\* The source of a visited file is one.
LEMMA SourceIs ==
  ASSUME NEW p \in Plans, Ready(p), NEW f, Visiting(p, f), p.offset[f] # Len(p.snapshot[f])
  PROVE  SourceOf(p, f) \in Source
<1> DEFINE q == [p EXCEPT !.todo = @ \ {f}]
<1>1. Visited(p, q, f)
  BY DEF Visited, Plans
<1>2. /\ f \in p.files /\ p.snapshot[f] \in Seq(Chunks)
      /\ Lines(Seen(q)[f]).complete = ReadTo(p, f) /\ Seen(q)[f] = p.snapshot[f]
  <2> HIDE DEF q
  <2> QED
    BY <1>1, SeenGrows
<1> HIDE DEF q
<1>3. ReadTo(p, f) \in 0 .. Len(p.snapshot[f])
  BY <1>2, LinesAre
<1>4. SubSeq(p.snapshot[f], 1, ReadTo(p, f)) \in Seq(Chunks)
  <2>1. \A i \in 1 .. ReadTo(p, f) : p.snapshot[f][i] \in Chunks
    BY <1>2, <1>3, LenProperties
  <2>2. ReadTo(p, f) \in Int
    BY <1>2, <1>3, LenProperties
  <2> QED
    BY <2>1, <2>2, SubSeqProperties
<1>5. ReadTo(p, f) \in Nat
  BY <1>2, <1>3, LenProperties
<1> QED
  BY <1>4, <1>5 DEF SourceOf, Source

\* The new calls of f are taken in, or the journals are not indexable.
VisitedIndex(result, p, f) == [result.index EXCEPT !.sources = With(@, f, SourceOf(p, f))]

CallsVisited(next, index, p, f) ==
    /\ next \in Indexes /\ next.annotations = index.annotations /\ next.windows = index.windows
    /\ NewLines(p, f).records = <<>> => next.calls = index.calls

\* Only the sources change with it.
LEMMA NewSources ==
  ASSUME NEW p \in Plans, Ready(p), NEW f, Visiting(p, f), p.offset[f] # Len(p.snapshot[f]),
         NEW result, result.index \in Indexes
  PROVE  LET next == VisitedIndex(result, p, f)
         IN  /\ next \in Indexes /\ next.sources = With(result.index.sources, f, SourceOf(p, f))
             /\ next.calls = result.index.calls /\ next.windows = result.index.windows
             /\ next.annotations = result.index.annotations
             /\ next.replayed = result.index.replayed /\ next.version = result.index.version
<1>1. PICK i \in Indexes : i = result.index
  OBVIOUS
<1>2. f \in Names
  BY DEF Plans, Visiting
<1>3. i.sources \in SourceMaps
  BY DEF Indexes
<1>4. PICK s \in SourceMaps : s = With(i.sources, f, SourceOf(p, f))
  BY <1>2, <1>3, SourceIs, SourceMapGrows
<1>5. VisitedIndex(result, p, f) = [i EXCEPT !.sources = s]
  BY <1>1, <1>4 DEF VisitedIndex
<1> QED
  BY <1>1, <1>4, <1>5 DEF Indexes

\* The calls of a file are taken in, or no reconstruction takes them in.
LEMMA VisitCalls ==
  ASSUME NEW p \in Plans, Ready(p), NEW f, Visiting(p, f), NEW q \in Plans, Visited(p, q, f),
         p.pc = "calls", p.offset[f] # Len(p.snapshot[f]),
         NEW index \in Indexes, Derived(index, Seen(p)),
         NEW result, result = AcceptAll("calls", index, NewLines(p, f))
  PROVE  /\ result.verdict = "fine" =>
              /\ CallsVisited(VisitedIndex(result, p, f), index, p, f)
              /\ Derived(VisitedIndex(result, p, f), Seen(q))
         /\ result.verdict # "fine" => ~Indexable(p.snapshot)
<1> DEFINE l == NewLines(p, f)
           next == VisitedIndex(result, p, f)
<1>1. /\ f \in p.files /\ KindOf(f) = "calls" /\ l.records \in Seq(Recs)
      /\ Seen(q)[f] = p.snapshot[f]
      /\ Lines(Seen(q)[f]).verdict =
            IF Lines(Seen(p)[f]).verdict = "fine" THEN l.verdict ELSE "malformed"
      /\ FileGrows(Seen(p), Seen(q), f, l.records)
  BY SeenGrows
<1>2. Ready(q)
  BY VisitedIsReady
<1>3. /\ IsFiles(Seen(p)) /\ DOMAIN Seen(p) = p.files
      /\ IsFiles(Seen(q)) /\ DOMAIN Seen(q) = p.files
      /\ DOMAIN p.snapshot = p.files
  BY <1>2, SeenIs, Zenon DEF Visited
<1> HIDE DEF l
<1>4. PICK a : a = Seen(p)
  OBVIOUS
<1>5. PICK b : b = Seen(q)
  OBVIOUS
<1>6. PICK r \in Seq(Recs) : r = Journal(a, "calls")
  BY <1>3, <1>4, JournalIs
<1>7. Journal(b, "calls") = r \o l.records /\ Journal(b, "annotations") = Journal(a, "annotations")
  <2>1. IsFiles(a) /\ IsFiles(b) /\ f \in DOMAIN a /\ FileGrows(a, b, f, l.records)
    BY <1>1, <1>3, <1>4, <1>5
  <2>2. "annotations" # KindOf(f)
    BY <1>1
  <2>3. PICK xs \in Seq(Recs) : xs = l.records
    BY <1>1
  <2>4. /\ Journal(b, KindOf(f)) = Journal(a, KindOf(f)) \o xs
        /\ \A kind : kind # KindOf(f) => Journal(b, kind) = Journal(a, kind)
    BY <2>1, <2>3, JournalGrows
  <2> QED
    BY <1>1, <1>6, <2>2, <2>3, <2>4, Zenon
<1>8. /\ SourcesOf(index.sources, a) /\ CallsOf(index, r) /\ Agree(ToSet(r))
      /\ RowsOf(index.annotations, Journal(a, "annotations"))
      /\ \A g \in p.files : Lines(a[g]).verdict = "fine"
  BY <1>3, <1>4, <1>6, Zenon DEF Derived
<1>9. Lines(b[f]).verdict = l.verdict
  BY <1>1, <1>4, <1>5, <1>8, Zenon
<1>10. CASE l.verdict = "fine"
  <2>1. CallsTaken(result, index, r \o l.records)
    <3>1. CallsTaken(AcceptAll("calls", index, l), index, r \o l.records)
      BY <1>1, <1>8, <1>10, AcceptCalls
    <3> QED
      BY <3>1, Zenon DEF l
  <2>2. ASSUME result.verdict = "fine" PROVE CallsVisited(next, index, p, f) /\ Derived(next, b)
    <3>1. /\ result.index \in Indexes /\ SameRest(result.index, index)
          /\ CallsOf(result.index, r \o l.records) /\ Agree(ToSet(r \o l.records))
      BY <2>1, <2>2, Zenon DEF CallsTaken
    <3>2. /\ next \in Indexes /\ next.sources = With(result.index.sources, f, SourceOf(p, f))
          /\ next.calls = result.index.calls /\ next.windows = result.index.windows
          /\ next.annotations = result.index.annotations
          /\ next.replayed = result.index.replayed
      BY <3>1, NewSources
    <3> HIDE DEF next
    <3>3. SourcesOf(next.sources, b)
      <4>1. SourcesOf(With(index.sources, f, SourceOf(p, f)), Seen(q))
        BY <1>4, <1>8, SourcesVisited
      <4> QED
        BY <1>5, <3>1, <3>2, <4>1, Zenon DEF SameRest
    <3>4. \A g \in p.files : Lines(b[g]).verdict = "fine"
      <4> TAKE g \in p.files
      <4>1. g # f => b[g] = a[g]
        BY <1>1, <1>3, <1>4, <1>5, Zenon DEF FileGrows
      <4> QED
        BY <1>8, <1>9, <1>10, <4>1, Zenon
    <3>5. CallsOf(next, r \o l.records)
      BY <3>1, <3>2, Zenon DEF CallsOf
    <3>6. RowsOf(next.annotations, Journal(b, "annotations"))
      BY <1>7, <1>8, <3>1, <3>2, Zenon DEF SameRest
    <3>7. Derived(next, b)
      BY <1>3, <1>5, <1>7, <3>1, <3>3, <3>4, <3>5, <3>6, Zenon DEF Derived
    <3>8. l.records = <<>> => result.index.calls = index.calls
      <4> SUFFICES ASSUME l.records = <<>> PROVE result.index.calls = index.calls
        OBVIOUS
      <4>1. AcceptAll("calls", index, l) = [index |-> index, verdict |-> l.verdict]
        BY AcceptNone
      <4>2. result = [index |-> index, verdict |-> l.verdict]
        BY <4>1, Zenon DEF l
      <4> QED
        BY <4>2
    <3>9. CallsVisited(next, index, p, f)
      BY <3>1, <3>2, <3>8, Zenon DEF CallsVisited, SameRest, l
    <3> QED
      BY <3>7, <3>9
  <2>3. ASSUME result.verdict # "fine" PROVE ~Indexable(p.snapshot)
    <3>1. ~Agree(ToSet(Journal(Seen(q), "calls")))
      BY <1>5, <1>7, <2>1, <2>3, Zenon DEF CallsTaken
    <3>2. ~Indexable(q.snapshot)
      BY <1>2, <3>1, NotIndexable
    <3> QED
      BY <3>2, Zenon DEF Visited
  <2> QED
    BY <1>5, <2>2, <2>3
<1>11. CASE l.verdict # "fine"
  <2>1. result.verdict # "fine"
    BY <1>1, <1>11, MalformedCalls DEF l
  <2>2. ~Indexable(p.snapshot)
    BY <1>1, <1>3, <1>5, <1>9, <1>11, Zenon DEF Indexable
  <2> QED
    BY <2>1, <2>2
<1> QED
  BY <1>10, <1>11

\* So are the new annotations.
NotesVisited(next, index) ==
    /\ next \in Indexes /\ next.calls = index.calls /\ next.windows = index.windows
    /\ Linked(index.annotations, index.calls) => Linked(next.annotations, next.calls)

\* The annotations of a file are taken in, or it has a malformed line.
LEMMA VisitNotes ==
  ASSUME NEW p \in Plans, Ready(p), NEW f, Visiting(p, f), NEW q \in Plans, Visited(p, q, f),
         p.pc = "annotations", p.offset[f] # Len(p.snapshot[f]),
         NEW index \in Indexes, Derived(index, Seen(p)),
         NEW result, result = AcceptAll("annotations", index, NewLines(p, f))
  PROVE  /\ result.verdict = "fine" =>
              /\ NotesVisited(VisitedIndex(result, p, f), index)
              /\ Derived(VisitedIndex(result, p, f), Seen(q))
         /\ result.verdict # "fine" => ~Indexable(p.snapshot)
<1> DEFINE l == NewLines(p, f)
           next == VisitedIndex(result, p, f)
<1>1. /\ f \in p.files /\ KindOf(f) = "annotations" /\ l.records \in Seq(Recs)
      /\ Seen(q)[f] = p.snapshot[f]
      /\ Lines(Seen(q)[f]).verdict =
            IF Lines(Seen(p)[f]).verdict = "fine" THEN l.verdict ELSE "malformed"
      /\ FileGrows(Seen(p), Seen(q), f, l.records)
  BY SeenGrows
<1>2. Ready(q)
  BY VisitedIsReady
<1>3. /\ IsFiles(Seen(p)) /\ DOMAIN Seen(p) = p.files
      /\ IsFiles(Seen(q)) /\ DOMAIN Seen(q) = p.files
      /\ DOMAIN p.snapshot = p.files
  BY <1>2, SeenIs, Zenon DEF Visited
<1> HIDE DEF l
<1>4. PICK a : a = Seen(p)
  OBVIOUS
<1>5. PICK b : b = Seen(q)
  OBVIOUS
<1>6. PICK r \in Seq(Recs) : r = Journal(a, "annotations")
  BY <1>3, <1>4, JournalIs
<1>7. Journal(b, "annotations") = r \o l.records /\ Journal(b, "calls") = Journal(a, "calls")
  <2>1. IsFiles(a) /\ IsFiles(b) /\ f \in DOMAIN a /\ FileGrows(a, b, f, l.records)
    BY <1>1, <1>3, <1>4, <1>5
  <2>2. "calls" # KindOf(f)
    BY <1>1
  <2>3. PICK xs \in Seq(Recs) : xs = l.records
    BY <1>1
  <2>4. /\ Journal(b, KindOf(f)) = Journal(a, KindOf(f)) \o xs
        /\ \A kind : kind # KindOf(f) => Journal(b, kind) = Journal(a, kind)
    BY <2>1, <2>3, JournalGrows
  <2> QED
    BY <1>1, <1>6, <2>2, <2>3, <2>4, Zenon
<1>8. /\ SourcesOf(index.sources, a) /\ CallsOf(index, Journal(a, "calls"))
      /\ Agree(ToSet(Journal(a, "calls"))) /\ RowsOf(index.annotations, r)
      /\ \A g \in p.files : Lines(a[g]).verdict = "fine"
  BY <1>3, <1>4, <1>6, Zenon DEF Derived
<1>9. Lines(b[f]).verdict = l.verdict
  BY <1>1, <1>4, <1>5, <1>8, Zenon
<1>10. NotesTaken(result, index, l.verdict, r \o l.records)
  <2>1. NotesTaken(AcceptAll("annotations", index, l), index, l.verdict, r \o l.records)
    BY <1>1, <1>8, AcceptNotes
  <2> QED
    BY <2>1, Zenon DEF l
<1>11. /\ result.verdict = l.verdict /\ result.index \in Indexes /\ SameCalls(result.index, index)
       /\ RowsOf(result.index.annotations, r \o l.records)
       /\ Linked(index.annotations, index.calls) => Linked(result.index.annotations, index.calls)
  BY <1>10, Zenon DEF NotesTaken
<1>12. CASE l.verdict = "fine"
  <2>1. /\ next \in Indexes /\ next.sources = With(result.index.sources, f, SourceOf(p, f))
        /\ next.calls = result.index.calls /\ next.windows = result.index.windows
        /\ next.annotations = result.index.annotations
        /\ next.replayed = result.index.replayed
    BY <1>11, NewSources
  <2> HIDE DEF next
  <2>2. SourcesOf(next.sources, b)
    <3>1. SourcesOf(With(index.sources, f, SourceOf(p, f)), Seen(q))
      BY <1>4, <1>8, SourcesVisited
    <3> QED
      BY <1>5, <1>11, <2>1, <3>1, Zenon DEF SameCalls
  <2>3. \A g \in p.files : Lines(b[g]).verdict = "fine"
    <3> TAKE g \in p.files
    <3>1. g # f => b[g] = a[g]
      BY <1>1, <1>3, <1>4, <1>5, Zenon DEF FileGrows
    <3> QED
      BY <1>8, <1>9, <1>12, <3>1, Zenon
  <2>4. CallsOf(next, Journal(b, "calls"))
    BY <1>7, <1>8, <1>11, <2>1, Zenon DEF CallsOf, SameCalls
  <2>5. Derived(next, b)
    BY <1>3, <1>5, <1>7, <1>8, <1>11, <2>1, <2>2, <2>3, <2>4, Zenon DEF Derived
  <2>6. NotesVisited(next, index)
    BY <1>11, <2>1, Zenon DEF NotesVisited, SameCalls
  <2> QED
    BY <1>5, <1>11, <1>12, <2>5, <2>6, Zenon DEF next
<1>13. CASE l.verdict # "fine"
  <2>1. ~Indexable(p.snapshot)
    BY <1>1, <1>3, <1>5, <1>9, <1>13, Zenon DEF Indexable
  <2> QED
    BY <1>11, <1>13, <2>1
<1> QED
  BY <1>12, <1>13

-----------------------------------------------------------------------------
(* A refresh begins to visit.                                               *)

\* No files, no records.
LEMMA EmptyJournal ==
  ASSUME NEW kind
  PROVE  Journal(NoFiles, kind) = <<>>
<1>1. IsFiles(NoFiles) /\ DOMAIN NoFiles = {}
  BY Zenon DEF IsFiles, NoFiles
<1>2. Journal(NoFiles, kind) \in Seq(Recs) /\ ToSet(Journal(NoFiles, kind)) = {}
  BY <1>1, JournalIs, Zenon
<1>3. PICK s \in Seq(Recs) : s = Journal(NoFiles, kind) /\ ToSet(s) = {}
  BY <1>2
<1>4. s = <<>>
  <2>1. \A i \in 1 .. Len(s) : s[i] \in ToSet(s)
    BY LenProperties DEF ToSet
  <2>2. Len(s) = 0
    <3>1. Len(s) \in Nat /\ \A i \in 1 .. Len(s) : FALSE
      BY <1>3, <2>1, LenProperties
    <3> QED
      BY <3>1
  <2> QED
    BY <2>2, EmptySeq
<1> QED
  BY <1>3, <1>4

\* An index of nothing.
LEMMA NothingIndexed ==
  /\ EmptyIndex \in Indexes /\ Derived(EmptyIndex, NoFiles)
  /\ EmptyIndex.windows = EmptyIndex.calls /\ Linked(EmptyIndex.annotations, EmptyIndex.calls)
<1>1. /\ EmptyIndex.version = "none" /\ EmptyIndex.sources = NoFiles /\ EmptyIndex.replayed = 0
      /\ EmptyIndex.calls = <<>> /\ EmptyIndex.windows = <<>> /\ EmptyIndex.annotations = <<>>
  BY DEF EmptyIndex
<1>2. NoFiles \in SourceMaps /\ DOMAIN NoFiles = {}
  <2>1. NoFiles \in [{} -> Source] /\ {} \in SUBSET Names /\ DOMAIN NoFiles = {}
    BY Zenon DEF NoFiles
  <2> QED
    BY <2>1, Zenon DEF SourceMaps
<1>3. EmptyIndex \in Indexes
  BY <1>2, EmptySeq DEF EmptyIndex, Indexes
<1>4. SourcesOf(NoFiles, NoFiles) /\ \A f \in DOMAIN NoFiles : Lines(NoFiles[f]).verdict = "fine"
  BY <1>2, Zenon DEF SourcesOf
<1>5. ToSet(<<>>) = {} /\ Identified(<<>>) = {}
  BY DEF ToSet, Identified
<1>6. Agree({})
  BY Zenon DEF Agree
<1>7. Kept(<<>>, <<>>)
  <2>1. Firsts(<<>>) = {}
    BY DEF Firsts
  <2>2. Cardinality(Firsts(<<>>)) = 0
    BY <2>1, FS_EmptySet
  <2> DEFINE o == [k \in 1 .. 0 |-> 0]
  <2>3. 1 .. 0 = {} /\ DOMAIN o = {}
    OBVIOUS
  <2>4. o \in [1 .. Cardinality(Firsts(<<>>)) -> Firsts(<<>>)]
    BY <2>1, <2>2, <2>3
  <2> HIDE DEF o
  <2>5. <<>> = [k \in DOMAIN o |-> <<>>[o[k]]]
    BY <2>3
  <2> QED
    BY <2>3, <2>4, <2>5, Zenon DEF Kept
<1>8. CallsOf(EmptyIndex, <<>>)
  <2>1. EmptyIndex.replayed = Len(<<>>) - Len(EmptyIndex.calls)
    BY <1>1
  <2> QED
    BY <1>1, <1>7, <2>1, Zenon DEF CallsOf
<1>9. RowsOf(<<>>, <<>>)
  BY DEF RowsOf
<1>10. Linked(<<>>, <<>>)
  BY DEF Linked
<1>11. Derived(EmptyIndex, NoFiles)
  BY <1>1, <1>4, <1>5, <1>6, <1>8, <1>9, EmptyJournal, Zenon DEF Derived
<1> QED
  BY <1>1, <1>3, <1>10, <1>11, Zenon

\* The plan goes on where the index ends.
GoesOn(q, sources) ==
    /\ DOMAIN q.snapshot = q.files /\ DOMAIN q.offset = q.files
    /\ DOMAIN sources \subseteq q.files
    /\ q.pc = "calls" /\ q.todo = {f \in q.files : KindOf(f) = "calls"}
    /\ \A f \in q.files :
         IF f \in DOMAIN sources
         THEN q.offset[f] = sources[f].offset /\ IsPrefix(sources[f].digest, q.snapshot[f])
         ELSE q.offset[f] = 0
    /\ \A f, g \in q.files :
         q.offset[f] # Len(q.snapshot[f]) /\ KindOf(g) = KindOf(f) /\ g > f => q.offset[g] = 0

\* A journal that begins with what was read of another one.
LEMMA SameBeginning ==
  ASSUME NEW c \in Seq(Chunks), NEW d \in Seq(Chunks),
         IsPrefix(SubSeq(c, 1, Lines(c).complete), d)
  PROVE  LET n == Lines(c).complete
             e == SubSeq(d, 1, n)
         IN  /\ n \in 0 .. Len(d) /\ e = SubSeq(c, 1, n) /\ e = SubSeq(e, 1, n)
             /\ Lines(e).complete = n /\ Lines(e).records = Lines(c).records
             /\ Lines(e).verdict = Lines(c).verdict
<1>1. PICK n \in Nat : n = Lines(c).complete
  BY LinesAre, LenProperties
<1>2. PICK p \in Seq(Chunks) : /\ p = SubSeq(c, 1, n) /\ Len(p) = n
                               /\ Lines(p).complete = n /\ Lines(p).records = Lines(c).records
                               /\ Lines(p).verdict = Lines(c).verdict
  BY <1>1, LinesOfPrefix
<1>3. SubSeq(p, 1, n) = p
  BY <1>2, SubSeqFull
<1>4. n <= Len(d) /\ SubSeq(p, 1, n) = SubSeq(d, 1, n)
  BY <1>1, <1>2 DEF IsPrefix
<1>5. n \in 0 .. Len(d)
  BY <1>4, LenProperties
<1> QED
  BY <1>1, <1>2, <1>3, <1>4, <1>5

\* What the index was derived from is what the plan has seen when it goes on.
LEMMA StartAgain ==
  ASSUME NEW index \in Indexes, NEW s, IsFiles(s), Derived(index, s),
         NEW q \in Plans, GoesOn(q, index.sources)
  PROVE  Ready(q) /\ Derived(index, Seen(q))
<1> DEFINE sources == index.sources
<1>1. /\ DOMAIN q.snapshot = q.files /\ DOMAIN q.offset = q.files
      /\ DOMAIN sources \subseteq q.files
      /\ q.pc = "calls" /\ q.todo = {f \in q.files : KindOf(f) = "calls"}
  BY Zenon DEF GoesOn
<1>2. \A f \in q.files :
         IF f \in DOMAIN sources
         THEN q.offset[f] = sources[f].offset /\ IsPrefix(sources[f].digest, q.snapshot[f])
         ELSE q.offset[f] = 0
  BY Zenon DEF GoesOn
<1>3. \A f, g \in q.files :
         q.offset[f] # Len(q.snapshot[f]) /\ KindOf(g) = KindOf(f) /\ g > f => q.offset[g] = 0
  BY Zenon DEF GoesOn
<1>4. q.files \subseteq Names /\ \A f \in q.files : q.snapshot[f] \in Seq(Chunks)
  <2>1. IsFiles(q.snapshot) /\ q.files \in SUBSET Names
    BY FilesAre DEF Plans
  <2> QED
    BY <1>1, <2>1, Zenon DEF IsFiles
<1>5. /\ DOMAIN sources \subseteq DOMAIN s
      /\ \A f \in DOMAIN sources : /\ sources[f].offset = Lines(s[f]).complete
                                   /\ sources[f].digest = SubSeq(s[f], 1, sources[f].offset)
      /\ \A f \in DOMAIN s : f \notin DOMAIN sources => s[f] = <<>>
  BY Zenon DEF Derived, SourcesOf
<1> HIDE DEF sources
<1>6. Pending(q) = q.files
  BY <1>1, Kinds, Zenon DEF Pending, KindsAre, Phases
<1>7. \A f \in q.files : Seen(q)[f] = SubSeq(q.snapshot[f], 1, q.offset[f])
  BY <1>6, Zenon DEF Seen
<1>8. DOMAIN Seen(q) = q.files
  BY Zenon DEF Seen
<1>9. ASSUME NEW f \in q.files, f \in DOMAIN sources
      PROVE  /\ q.offset[f] \in 0 .. Len(q.snapshot[f]) /\ q.offset[f] = sources[f].offset
             /\ sources[f].digest = SubSeq(Seen(q)[f], 1, q.offset[f])
             /\ Lines(Seen(q)[f]).complete = q.offset[f]
             /\ Lines(Seen(q)[f]).records = Lines(s[f]).records
             /\ Lines(Seen(q)[f]).verdict = "fine"
  <2>1. PICK c \in Seq(Chunks) : c = s[f]
    BY <1>5, <1>9, Zenon DEF IsFiles
  <2>2. PICK d \in Seq(Chunks) : d = q.snapshot[f]
    BY <1>4
  <2>3. PICK n : n = Lines(c).complete
    OBVIOUS
  <2>4. sources[f].offset = n /\ sources[f].digest = SubSeq(c, 1, n) /\ q.offset[f] = n
    BY <1>2, <1>5, <1>9, <2>1, <2>3, Zenon
  <2>5. IsPrefix(SubSeq(c, 1, Lines(c).complete), d)
    BY <1>2, <1>9, <2>2, <2>3, <2>4, Zenon
  <2>6. PICK e : e = SubSeq(d, 1, n)
    OBVIOUS
  <2>7. /\ n \in 0 .. Len(d) /\ e = SubSeq(c, 1, n) /\ e = SubSeq(e, 1, n)
        /\ Lines(e).complete = n /\ Lines(e).records = Lines(c).records
        /\ Lines(e).verdict = Lines(c).verdict
    BY <2>3, <2>5, <2>6, SameBeginning
  <2>8. Lines(c).verdict = "fine"
    BY <1>5, <1>9, <2>1, Zenon DEF Derived
  <2>9. Seen(q)[f] = e
    BY <1>7, <2>2, <2>4, <2>6, Zenon
  <2> QED
    BY <2>1, <2>2, <2>4, <2>7, <2>8, <2>9, Zenon
<1>10. ASSUME NEW f \in q.files, f \notin DOMAIN sources
       PROVE  /\ q.offset[f] \in 0 .. Len(q.snapshot[f]) /\ Seen(q)[f] = <<>>
              /\ Lines(Seen(q)[f]).complete = q.offset[f]
              /\ Lines(Seen(q)[f]).records = <<>> /\ Lines(Seen(q)[f]).verdict = "fine"
  <2>1. q.offset[f] = 0
    BY <1>2, <1>10, Zenon
  <2>2. Seen(q)[f] = <<>>
    BY <1>7, <2>1, SubSeqEmpty
  <2>3. 0 \in 0 .. Len(q.snapshot[f])
    BY <1>4, LenProperties
  <2>4. Lines(<<>>).complete = 0 /\ Lines(<<>>).records = <<>> /\ Lines(<<>>).verdict = "fine"
    BY NoLines DEF Nothing
  <2> QED
    BY <2>1, <2>2, <2>3, <2>4, Zenon
<1>11. Ready(q)
  <2>1. \A f \in q.files : /\ q.offset[f] \in 0 .. Len(q.snapshot[f])
                           /\ Lines(SubSeq(q.snapshot[f], 1, q.offset[f])).complete = q.offset[f]
    BY <1>7, <1>9, <1>10, Zenon
  <2> QED
    BY <1>1, <1>3, <2>1, Zenon DEF Ready
<1>12. ASSUME NEW kind PROVE Journal(Seen(q), kind) = Journal(s, kind)
  <2>1. \A f \in Names : RecordsIn(Seen(q), kind)[f] = RecordsIn(s, kind)[f]
    <3> TAKE f \in Names
    <3>1. Lines(<<>>).records = <<>>
      BY NoLines DEF Nothing
    <3>2. CASE f \in DOMAIN sources
      BY <1>1, <1>5, <1>8, <1>9, <3>2, Zenon DEF RecordsIn
    <3>3. CASE f \notin DOMAIN sources
      <4>1. f \in DOMAIN s => Lines(s[f]).records = <<>>
        BY <1>5, <3>1, <3>3, Zenon
      <4>2. f \in q.files => Lines(Seen(q)[f]).records = <<>>
        BY <1>10, <3>3, Zenon
      <4> QED
        BY <1>8, <4>1, <4>2, Zenon DEF RecordsIn
    <3> QED
      BY <3>2, <3>3
  <2> QED
    BY <2>1, SameJournal, Zenon
<1>13. SourcesOf(sources, Seen(q))
  <2>1. \A f \in DOMAIN sources : /\ sources[f].offset = Lines(Seen(q)[f]).complete
                                  /\ sources[f].digest = SubSeq(Seen(q)[f], 1, sources[f].offset)
    BY <1>1, <1>9, ZenonT(60)
  <2> QED
    BY <1>1, <1>8, <1>10, <2>1, Zenon DEF SourcesOf
<1>14. \A f \in DOMAIN Seen(q) : Lines(Seen(q)[f]).verdict = "fine"
  BY <1>8, <1>9, <1>10, Zenon
<1>15. Derived(index, Seen(q))
  BY <1>12, <1>13, <1>14, Zenon DEF Derived, sources
<1> QED
  BY <1>11, <1>15

\* What is complete and linked is the index of the journals.
LEMMA DerivedIsIndex ==
  ASSUME NEW index \in Indexes, NEW s, IsFiles(s), Derived(index, s),
         index.windows = index.calls, Linked(index.annotations, index.calls)
  PROVE  Indexable(s) /\ IsIndexOf(index, s)
<1>1. Indexable(s)
  BY Zenon DEF Derived, Indexable
<1>2. PICK records \in Seq(Recs) : records = Journal(s, "calls")
  BY JournalIs
<1>3. PICK notes \in Seq(Recs) : notes = Journal(s, "annotations")
  BY JournalIs
<1>4. CallsOf(index, records) /\ RowsOf(index.annotations, notes)
  BY <1>2, <1>3, Zenon DEF Derived
<1>5. PICK rows \in Seq(Rows) : rows = index.annotations
  BY DEF Indexes
<1>6. rows = [k \in DOMAIN notes |-> [record |-> notes[k], call |-> Target(index.calls, notes[k])]]
  <2>1. /\ DOMAIN rows = DOMAIN notes /\ DOMAIN notes = 1 .. Len(notes)
        /\ rows = [k \in DOMAIN notes |-> rows[k]] /\ \A k \in DOMAIN notes : rows[k] \in Rows
    <3>1. Len(rows) = Len(notes)
      BY <1>4, <1>5, Zenon DEF RowsOf
    <3>2. DOMAIN rows = 1 .. Len(rows) /\ DOMAIN notes = 1 .. Len(notes) /\ rows \in [1 .. Len(rows) -> Rows]
      BY LenProperties
    <3> QED
      BY <3>1, <3>2, Zenon
  <2>2. ASSUME NEW k \in DOMAIN notes
        PROVE  rows[k] = [record |-> notes[k], call |-> Target(index.calls, notes[k])]
    <3>1. rows[k].record = notes[k]
      BY <1>4, <1>5, <2>1, <2>2, Zenon DEF RowsOf
    <3>2. rows[k].call = Target(index.calls, notes[k])
      BY <1>5, <2>1, <2>2, <3>1, Zenon DEF Linked
    <3>3. rows[k] = [record |-> rows[k].record, call |-> rows[k].call]
      <4>1. rows[k] \in Rows
        BY <2>1, <2>2, Zenon
      <4> QED
        BY <4>1 DEF Rows
    <3> QED
      BY <3>1, <3>2, <3>3, Zenon
  <2> QED
    BY <2>1, <2>2, Zenon
<1>7. Kept(index.calls, records) /\ index.replayed = Len(records) - Len(index.calls)
  BY <1>4, Zenon DEF CallsOf
<1>8. Kept(index.calls, Journal(s, "calls"))
  BY <1>2, <1>7, Zenon
<1>9. index.replayed = Len(Journal(s, "calls")) - Len(index.calls)
  BY <1>2, <1>7, Zenon
<1>10. index.annotations = [k \in DOMAIN Journal(s, "annotations") |->
                              [record |-> Journal(s, "annotations")[k],
                               call |-> Target(index.calls, Journal(s, "annotations")[k])]]
  BY <1>3, <1>5, <1>6, Zenon
<1>11. index.windows = index.calls
  OBVIOUS
<1>12. IsIndexOf(index, s)
  BY <1>8, <1>9, <1>10, <1>11, Zenon DEF IsIndexOf, Kept
<1> QED
  BY <1>1, <1>12

-----------------------------------------------------------------------------
(* The invariant.                                                           *)

Bounds == [writes : Nat, edits : Nat, refreshes : Nat, scenario : Scenarios]

TypeInv ==
    /\ journals \in FileMaps /\ db \in Indexes /\ work \in Indexes /\ plan \in Plans
    /\ bounds \in Bounds /\ basis \in FileMaps

\* What is committed is the index of the journals it was derived from.
CommittedInv ==
    db.version = "current" => /\ Derived(db, basis) /\ db.windows = db.calls
                              /\ Linked(db.annotations, db.calls)

RefusedInv == refused # NoFiles => ~Indexable(refused)

\* While it prepares, an incremental refresh has found what was read before.
PreparingInv ==
    plan.pc = "prepare" =>
        /\ plan.todo \subseteq plan.files /\ plan.changed = {}
        /\ DOMAIN plan.snapshot = plan.files \ plan.todo
        /\ DOMAIN plan.offset = plan.files \ plan.todo
        /\ plan.mode = "incremental" =>
             /\ plan.prior = db.sources /\ db.version = "current"
             /\ \A f \in DOMAIN plan.snapshot :
                  IF f \in DOMAIN plan.prior
                  THEN /\ plan.offset[f] = plan.prior[f].offset
                       /\ IsPrefix(plan.prior[f].digest, plan.snapshot[f])
                  ELSE plan.offset[f] = 0

\* While it works, the index is that of what it has seen, except for what it
\* derives at the end of each phase.
WorkingInv ==
    plan.pc \in {"calls", "annotations", "inventory", "finish"} =>
        /\ Ready(plan) /\ Derived(work, Seen(plan))
        /\ \/ work.windows = work.calls
           \/ plan.pc = "calls" /\ ("calls" \in plan.changed \/ plan.mode = "rebuild")
        /\ \/ Linked(work.annotations, work.calls)
           \/ plan.pc \in Phases /\ plan.changed # {}

IInv == TypeInv /\ CommittedInv /\ RefusedInv /\ PreparingInv /\ WorkingInv

\* One file more, or another value for it.
LEMMA FileMapGrows ==
  ASSUME NEW files \in FileMaps, NEW f \in Names, NEW v \in Seq(Chunks)
  PROVE  With(files, f, v) \in FileMaps /\ DOMAIN With(files, f, v) = DOMAIN files \cup {f}
<1>1. PICK F \in SUBSET Names : files \in [F -> Seq(Chunks)]
  BY Zenon DEF FileMaps
<1>2. DOMAIN files = F /\ F \cup {f} \in SUBSET Names
  BY <1>1, Zenon
<1>3. \A g \in F \cup {f} : (IF g = f THEN v ELSE files[g]) \in Seq(Chunks)
  BY <1>1, Zenon
<1>4. With(files, f, v) \in [F \cup {f} -> Seq(Chunks)]
  BY <1>2, <1>3, Zenon DEF With
<1> QED
  BY <1>2, <1>4, Zenon DEF FileMaps

\* A file that does not exist has no chunks.
LEMMA ContentIs ==
  ASSUME TypeInv, NEW f
  PROVE  Content(f) \in Seq(Chunks)
<1>1. IsFiles(journals)
  BY FilesAre, Zenon DEF TypeInv
<1> QED
  BY <1>1, EmptySeq, Zenon DEF Content, IsFiles

\* Writers write the records of their scenario.
LEMMA RecordsAreKnown ==
  ASSUME bounds.scenario \in Scenarios, NEW f
  PROVE  RecordsOf(f) \subseteq Recs
<1>1. PICK s \in Scenarios : s = bounds.scenario
  OBVIOUS
<1>2. s.calls \cup s.notes \in {t.calls \cup t.notes : t \in Scenarios}
  BY Zenon
<1>3. s.calls \cup s.notes \subseteq Recs
  BY <1>2, Zenon DEF Recs
<1>4. RecordsOf(f) = s.calls \/ RecordsOf(f) = s.notes
  BY <1>1, Zenon DEF RecordsOf
<1> QED
  BY <1>3, <1>4, Zenon

\* What the writers and the editors touch.
Untouched == UNCHANGED <<db, work, plan, basis, refused>>

\* They append chunks.
LEMMA AppendIsTyped ==
  ASSUME TypeInv, NEW f \in Names, NEW c \in Chunks, Append_(f, c)
  PROVE  Untouched /\ journals' \in FileMaps /\ bounds' \in Bounds
<1>1. Untouched
  BY DEF Append_, Untouched
<1>2. Append(Content(f), c) \in Seq(Chunks)
  BY ContentIs, AppendProperties
<1>3. journals' = With(journals, f, Append(Content(f), c)) /\ journals \in FileMaps
  BY DEF Append_, TypeInv
<1>4. journals' \in FileMaps
  BY <1>2, <1>3, FileMapGrows
<1>5. bounds' \in Bounds
  BY DEF Append_, TypeInv, Bounds
<1> QED
  BY <1>1, <1>4, <1>5

\* Editors leave chunks behind.
LEMMA EditIsTyped ==
  ASSUME TypeInv, Edit
  PROVE  Untouched /\ journals' \in FileMaps /\ bounds' \in Bounds
<1>1. Untouched
  BY DEF Edit, Untouched
<1>2. bounds' \in Bounds
  BY DEF Edit, TypeInv, Bounds
<1>3. journals' \in FileMaps
  <2>1. PICK kind \in bounds.scenario.kinds, f \in DOMAIN journals : journals' \in Edited(f, kind)
    BY DEF Edit
  <2>2. kind \in {"replace", "truncate", "remove"}
    <3>1. bounds.scenario \in Scenarios
      BY DEF TypeInv, Bounds
    <3> QED
      BY <2>1, <3>1, JournalIndexAssumption, Zenon DEF Scenario
  <2>3. IsFiles(journals)
    BY FilesAre, Zenon DEF TypeInv
  <2>4. PICK c \in Seq(Chunks) : c = journals[f]
    BY <2>3, Zenon DEF IsFiles
  <2>5. \A v \in Seq(Chunks) : [journals EXCEPT ![f] = v] \in FileMaps
    <3> TAKE v \in Seq(Chunks)
    <3>1. PICK F \in SUBSET Names : journals \in [F -> Seq(Chunks)]
      BY Zenon DEF FileMaps, TypeInv
    <3>2. [journals EXCEPT ![f] = v] \in [F -> Seq(Chunks)]
      BY <3>1
    <3> QED
      BY <3>2, Zenon DEF FileMaps
  <2>6. CASE kind = "replace"
    <3>1. PICK k \in DOMAIN c, record \in RecordsOf(f) :
             journals' = [journals EXCEPT ![f] = [c EXCEPT ![k] = Chunk("line", record)]]
      <4>1. journals' \in {[journals EXCEPT ![f] = [@ EXCEPT ![k] = Chunk("line", record)]] :
                                k \in DOMAIN journals[f], record \in RecordsOf(f)}
        BY <2>1, <2>6 DEF Edited
      <4>2. PICK k \in DOMAIN journals[f], record \in RecordsOf(f) :
               journals' = [journals EXCEPT ![f] = [@ EXCEPT ![k] = Chunk("line", record)]]
        BY <4>1
      <4> QED
        BY <2>4, <4>2
    <3>2. record \in Recs
      <4>1. bounds.scenario \in Scenarios
        BY DEF TypeInv, Bounds
      <4> QED
        BY <4>1, RecordsAreKnown, Zenon
    <3>3. Chunk("line", record) \in Chunks
      BY <3>2 DEF Chunk, Chunks
    <3>4. [c EXCEPT ![k] = Chunk("line", record)] \in Seq(Chunks)
      <4>1. c \in [1 .. Len(c) -> Chunks] /\ Len(c) \in Nat
        BY LenProperties
      <4>2. [c EXCEPT ![k] = Chunk("line", record)] \in [1 .. Len(c) -> Chunks]
        BY <3>3, <4>1
      <4> QED
        BY <4>1, <4>2, IsASeq
    <3> QED
      BY <2>5, <3>1, <3>4
  <2>7. CASE kind = "truncate"
    <3>1. PICK n \in 0 .. Len(c) - 1 : journals' = [journals EXCEPT ![f] = SubSeq(c, 1, n)]
      <4>1. journals' \in {[journals EXCEPT ![f] = SubSeq(@, 1, n)] : n \in 0 .. Len(journals[f]) - 1}
        BY <2>1, <2>7 DEF Edited
      <4>2. PICK n \in 0 .. Len(journals[f]) - 1 : journals' = [journals EXCEPT ![f] = SubSeq(@, 1, n)]
        BY <4>1
      <4> QED
        BY <2>4, <4>2
    <3>2. SubSeq(c, 1, n) \in Seq(Chunks)
      <4>1. Len(c) \in Nat /\ n \in Int /\ \A i \in 1 .. n : c[i] \in Chunks
        BY LenProperties
      <4> QED
        BY <4>1, SubSeqProperties
    <3> QED
      BY <2>5, <3>1, <3>2
  <2>8. CASE kind = "remove"
    <3>1. journals' = [g \in DOMAIN journals \ {f} |-> journals[g]]
      BY <2>1, <2>8 DEF Edited
    <3>2. IsFiles(journals')
      BY <2>3, <3>1, Zenon DEF IsFiles
    <3>3. PICK x : x = journals'
      OBVIOUS
    <3>4. x \in FileMaps
      BY <3>2, <3>3, FilesAre
    <3> QED
      BY <3>3, <3>4
  <2> QED
    BY <2>2, <2>6, <2>7, <2>8
<1> QED
  BY <1>1, <1>2, <1>3

\* No writer touches the index or the plan.
LEMMA WritersAreTyped ==
  ASSUME TypeInv, Writers
  PROVE  Untouched /\ journals' \in FileMaps /\ bounds' \in Bounds
<1>0. ASSUME NEW f, NEW r \in RecordsOf(f), NEW part \in {"line", "head", "tail"}
      PROVE  Chunk(part, r) \in Chunks
  <2>1. bounds.scenario \in Scenarios
    BY DEF TypeInv, Bounds
  <2>2. r \in Recs
    BY <2>1, RecordsAreKnown, Zenon
  <2> QED
    BY <2>2 DEF Chunk, Chunks
<1>1. ASSUME NEW f \in Names, NEW r \in RecordsOf(f), AppendRecord(f, r)
      PROVE  Untouched /\ journals' \in FileMaps /\ bounds' \in Bounds
  <2>1. Append_(f, Chunk("line", r)) /\ Chunk("line", r) \in Chunks
    BY <1>0, <1>1 DEF AppendRecord
  <2> QED
    BY <2>1, AppendIsTyped
<1>2. ASSUME NEW f \in Names, NEW r \in RecordsOf(f), AppendTorn(f, r)
      PROVE  Untouched /\ journals' \in FileMaps /\ bounds' \in Bounds
  <2>1. Append_(f, Chunk("head", r)) /\ Chunk("head", r) \in Chunks
    BY <1>0, <1>2 DEF AppendTorn
  <2> QED
    BY <2>1, AppendIsTyped
<1>3. ASSUME NEW f \in Names, CompleteTail(f)
      PROVE  Untouched /\ journals' \in FileMaps /\ bounds' \in Bounds
  <2>1. PICK c \in Seq(Chunks) : c = Content(f) /\ c # <<>>
    BY <1>3, ContentIs DEF CompleteTail
  <2>2. Last(c) \in Chunks
    <3>1. Len(c) \in 1 .. Len(c)
      BY <2>1, EmptySeq, LenProperties
    <3> QED
      BY <3>1, LenProperties DEF Last
  <2>3. Chunk("tail", Last(c).record) \in Chunks
    BY <2>2 DEF Chunk, Chunks
  <2>4. Append_(f, Chunk("tail", Last(c).record))
    BY <1>3, <2>1, Zenon DEF CompleteTail
  <2> QED
    BY <2>3, <2>4, AppendIsTyped
<1> QED
  BY <1>1, <1>2, <1>3, EditIsTyped, Zenon DEF Writers

-----------------------------------------------------------------------------
(* Every step keeps it.                                                     *)

Maps(S) == UNION {[F -> S] : F \in SUBSET Names}

\* One more file, or another value for it.
LEMMA WithIs ==
  ASSUME NEW S, NEW m \in Maps(S), NEW f \in Names, NEW v \in S
  PROVE  With(m, f, v) \in Maps(S)
<1>1. PICK F \in SUBSET Names : m \in [F -> S]
  BY Zenon DEF Maps
<1>2. DOMAIN m = F /\ F \cup {f} \in SUBSET Names
  BY <1>1, Zenon
<1>3. \A g \in F \cup {f} : (IF g = f THEN v ELSE m[g]) \in S
  BY <1>1, Zenon
<1>4. With(m, f, v) \in [F \cup {f} -> S]
  BY <1>2, <1>3, Zenon DEF With
<1> QED
  BY <1>2, <1>4, Zenon DEF Maps

\* The plan of no refresh.
LEMMA IdleIs == Idle \in Plans
<1>1. \A S : NoFiles \in UNION {[F -> S] : F \in SUBSET Names}
  <2> TAKE S
  <2>1. NoFiles \in [{} -> S] /\ {} \in SUBSET Names
    BY Zenon DEF NoFiles
  <2> QED
    BY <2>1, Zenon
<1>2. NoFiles \in SourceMaps /\ NoFiles \in FileMaps /\ NoFiles \in UNION {[F -> Nat] : F \in SUBSET Names}
  BY <1>1, Zenon DEF SourceMaps, FileMaps
<1> QED
  BY <1>2 DEF Idle, Plans

\* No journal, no index.
LEMMA InitIsGood == Init => IInv
<1> SUFFICES ASSUME Init PROVE IInv
  OBVIOUS
<1>1. /\ journals = NoFiles /\ db = EmptyIndex /\ work = EmptyIndex /\ plan = Idle
      /\ basis = NoFiles /\ refused = NoFiles
  BY DEF Init
<1>2. NoFiles \in FileMaps
  BY FilesAre, Zenon DEF IsFiles, NoFiles
<1>3. bounds \in Bounds
  BY DEF Init, Bounds
<1>4. TypeInv
  BY <1>1, <1>2, <1>3, NothingIndexed, IdleIs, Zenon DEF TypeInv
<1>5. db.version = "none" /\ plan.pc = "idle"
  BY <1>1 DEF EmptyIndex, Idle
<1>6. CommittedInv /\ PreparingInv /\ WorkingInv
  BY <1>5 DEF CommittedInv, PreparingInv, WorkingInv
<1>7. RefusedInv
  BY <1>1 DEF RefusedInv
<1> QED
  BY <1>4, <1>6, <1>7 DEF IInv

\* What is committed does not change.
LEMMA StaysCommitted ==
  ASSUME CommittedInv, UNCHANGED <<db, basis>>
  PROVE  CommittedInv'
BY Zenon DEF CommittedInv

\* Nor does what was refused, unless the new refusal is right.
LEMMA StaysRefused ==
  ASSUME RefusedInv, refused' = refused \/ ~Indexable(refused')
  PROVE  RefusedInv'
BY Zenon DEF RefusedInv

\* A refresh that fails or dies leaves what was committed.
LEMMA RollbackIsGood ==
  ASSUME IInv, Rollback, refused' = refused \/ ~Indexable(refused')
  PROVE  IInv'
<1>1. /\ plan' = Idle /\ work' = db /\ journals' = journals /\ db' = db
      /\ bounds' = bounds /\ basis' = basis
  BY DEF Rollback
<1>2. TypeInv'
  BY <1>1, IdleIs, Zenon DEF IInv, TypeInv
<1>3. plan'.pc = "idle"
  BY <1>1 DEF Idle
<1>4. PreparingInv' /\ WorkingInv'
  BY <1>3 DEF PreparingInv, WorkingInv
<1>5. CommittedInv' /\ RefusedInv'
  BY <1>1, StaysCommitted, StaysRefused DEF IInv
<1> QED
  BY <1>2, <1>4, <1>5 DEF IInv

\* The invariant is not about the journals as they are now.
LEMMA WritersAreGood ==
  ASSUME IInv, Writers
  PROVE  IInv'
<1>1. Untouched /\ journals' \in FileMaps /\ bounds' \in Bounds
  BY WritersAreTyped DEF IInv
<1>2. db' = db /\ work' = work /\ plan' = plan /\ basis' = basis /\ refused' = refused
  BY <1>1 DEF Untouched
<1>3. TypeInv'
  BY <1>1, <1>2, Zenon DEF IInv, TypeInv
<1>4. CommittedInv' /\ RefusedInv'
  BY <1>2, StaysCommitted, StaysRefused DEF IInv
<1>5. PreparingInv'
  BY <1>2, Zenon DEF IInv, PreparingInv
<1>6. WorkingInv'
  BY <1>2, Zenon DEF IInv, WorkingInv
<1> QED
  BY <1>3, <1>4, <1>5, <1>6 DEF IInv

\* A refresh begins with the sources of the index, or with none.
LEMMA BeginIsGood ==
  ASSUME IInv, NEW rebuilding \in BOOLEAN, Begin(rebuilding)
  PROVE  IInv'
<1> DEFINE compatible == db.version = "current" /\ ~rebuilding
<1>1. /\ journals' = journals /\ db' = db /\ work' = db /\ basis' = basis /\ refused' = refused
  BY DEF Begin
<1>2. bounds' \in Bounds
  BY DEF Begin, IInv, TypeInv, Bounds
<1>3. plan' = [Idle EXCEPT !.pc = "prepare",
                 !.files = DOMAIN journals, !.todo = DOMAIN journals,
                 !.prior = IF compatible THEN db.sources ELSE NoFiles,
                 !.mode = IF compatible THEN "incremental" ELSE "rebuild"]
  BY DEF Begin
<1>4. PICK prior \in SourceMaps : prior = IF compatible THEN db.sources ELSE NoFiles
  BY NothingIndexed DEF IInv, TypeInv, Indexes, EmptyIndex
<1>5. PICK mode \in {"incremental", "rebuild"} :
         mode = IF compatible THEN "incremental" ELSE "rebuild"
  BY Zenon
<1>6. DOMAIN journals \in SUBSET Names
  BY FilesAre, Zenon DEF IInv, TypeInv, IsFiles
<1> HIDE DEF compatible
<1>7. plan' = [Idle EXCEPT !.pc = "prepare", !.files = DOMAIN journals,
                 !.todo = DOMAIN journals, !.prior = prior, !.mode = mode]
  BY <1>3, <1>4, <1>5
<1>8. plan' \in Plans
  <2>1. PICK d \in SUBSET Names : d = DOMAIN journals
    BY <1>6
  <2> QED
    BY <1>7, <2>1, IdleIs DEF Plans
<1>9. /\ plan'.pc = "prepare" /\ plan'.files = DOMAIN journals /\ plan'.todo = DOMAIN journals
      /\ plan'.prior = prior /\ plan'.mode = mode /\ plan'.snapshot = NoFiles
      /\ plan'.offset = NoFiles /\ plan'.changed = {}
  BY <1>7 DEF Idle
<1>10. TypeInv'
  BY <1>1, <1>2, <1>8, Zenon DEF IInv, TypeInv
<1>11. PreparingInv'
  <2>1. DOMAIN NoFiles = {} /\ DOMAIN journals \ DOMAIN journals = {}
    BY DEF NoFiles
  <2>2. mode = "incremental" => prior = db.sources /\ db.version = "current"
    BY <1>4, <1>5 DEF compatible
  <2> QED
    BY <1>1, <1>9, <2>1, <2>2, Zenon DEF PreparingInv
<1>12. WorkingInv'
  BY <1>9 DEF WorkingInv
<1>13. CommittedInv' /\ RefusedInv'
  BY <1>1, StaysCommitted, StaysRefused DEF IInv
<1> QED
  BY <1>10, <1>11, <1>12, <1>13 DEF IInv

\* It compares a file with its source.
LEMMA PrepareIsGood ==
  ASSUME IInv, Prepare
  PROVE  IInv'
<1>0. plan \in Plans /\ plan.pc = "prepare" /\ plan.todo # {} /\ plan.todo \in SUBSET Names
  BY DEF Prepare, IInv, TypeInv, Plans
<1>1. PICK f : f = First(plan.todo)
  OBVIOUS
<1>2. f \in plan.todo /\ f \in Names
  BY <1>0, <1>1, FirstIs
<1> DEFINE checked == f \in DOMAIN plan.prior
           matches == checked /\ Begins(f, plan.prior[f].digest)
           offset == IF matches THEN plan.prior[f].offset ELSE 0
           mode == IF checked /\ ~matches THEN "rebuild" ELSE plan.mode
<1>3. CASE f \notin DOMAIN journals
  <2>1. Rollback /\ refused' = refused
    BY <1>1, <1>3, Zenon DEF Prepare
  <2> QED
    BY <2>1, RollbackIsGood
<1>4. CASE f \in DOMAIN journals
  <2>1. /\ Step([plan EXCEPT !.todo = @ \ {f}, !.snapshot = With(@, f, journals[f]),
                             !.offset = With(@, f, offset), !.mode = mode])
        /\ UNCHANGED <<work, instant>>
    BY <1>1, <1>4, Zenon DEF Prepare
  <2>2. /\ journals' = journals /\ db' = db /\ work' = work /\ basis' = basis
        /\ refused' = refused /\ bounds' = bounds
        /\ plan' = [plan EXCEPT !.todo = @ \ {f}, !.snapshot = With(@, f, journals[f]),
                                !.offset = With(@, f, offset), !.mode = mode]
    BY <2>1 DEF Step
  <2>3. journals[f] \in Seq(Chunks)
    BY <1>4, FilesAre, Zenon DEF IInv, TypeInv, IsFiles
  <2>4. offset \in Nat
    <3>1. PICK F \in SUBSET Names : plan.prior \in [F -> Source]
      BY <1>0 DEF Plans, SourceMaps
    <3>2. checked => plan.prior[f].offset \in Nat
      BY <3>1 DEF Source
    <3> QED
      BY <3>2
  <2>5. mode \in {"incremental", "rebuild"}
    BY <1>0 DEF Plans
  <2>6. PICK s : s = With(plan.snapshot, f, journals[f])
    OBVIOUS
  <2>7. PICK o : o = With(plan.offset, f, offset)
    OBVIOUS
  <2>8. /\ s \in FileMaps /\ DOMAIN s = DOMAIN plan.snapshot \cup {f} /\ s[f] = journals[f]
        /\ \A g \in DOMAIN plan.snapshot : g # f => s[g] = plan.snapshot[g]
    <3>1. PICK m \in Maps(Seq(Chunks)) : m = plan.snapshot
      BY <1>0 DEF Plans, FileMaps, Maps
    <3>2. PICK v \in Seq(Chunks) : v = journals[f]
      BY <2>3
    <3>3. s = With(m, f, v)
      BY <2>6, <3>1, <3>2, Zenon
    <3>4. With(m, f, v) \in Maps(Seq(Chunks))
      BY <1>2, WithIs, Zenon
    <3>5. /\ DOMAIN With(m, f, v) = DOMAIN m \cup {f} /\ With(m, f, v)[f] = v
          /\ \A g \in DOMAIN m : g # f => With(m, f, v)[g] = m[g]
      BY Zenon DEF With
    <3> QED
      BY <3>1, <3>2, <3>3, <3>4, <3>5, Zenon DEF FileMaps, Maps
  <2>9. /\ o \in UNION {[F -> Nat] : F \in SUBSET Names}
        /\ DOMAIN o = DOMAIN plan.offset \cup {f} /\ o[f] = offset
        /\ \A g \in DOMAIN plan.offset : g # f => o[g] = plan.offset[g]
    <3>1. PICK m \in Maps(Nat) : m = plan.offset
      BY <1>0 DEF Plans, Maps
    <3> HIDE DEF offset
    <3>2. PICK v \in Nat : v = offset
      BY <2>4
    <3>3. o = With(m, f, v)
      BY <2>7, <3>1, <3>2, Zenon
    <3>4. With(m, f, v) \in Maps(Nat)
      BY <1>2, WithIs, Zenon
    <3>5. /\ DOMAIN With(m, f, v) = DOMAIN m \cup {f} /\ With(m, f, v)[f] = v
          /\ \A g \in DOMAIN m : g # f => With(m, f, v)[g] = m[g]
      BY Zenon DEF With
    <3> QED
      BY <3>1, <3>2, <3>3, <3>4, <3>5, Zenon DEF Maps
  <2> HIDE DEF offset, mode
  <2>10. /\ plan' \in Plans /\ plan'.pc = "prepare" /\ plan'.files = plan.files
         /\ plan'.todo = plan.todo \ {f} /\ plan'.prior = plan.prior /\ plan'.mode = mode
         /\ plan'.snapshot = s /\ plan'.offset = o /\ plan'.changed = plan.changed
    <3>1. plan' = [plan EXCEPT !.todo = plan.todo \ {f}, !.snapshot = s, !.offset = o, !.mode = mode]
      BY <2>2, <2>6, <2>7
    <3>2. plan.todo \ {f} \in SUBSET Names
      BY <1>0
    <3> QED
      BY <1>0, <2>5, <2>8, <2>9, <3>1, <3>2 DEF Plans
  <2>11. TypeInv'
    BY <2>2, <2>10, Zenon DEF IInv, TypeInv
  <2>12. PreparingInv'
    <3>1. /\ plan.todo \subseteq plan.files /\ plan.changed = {}
          /\ DOMAIN plan.snapshot = plan.files \ plan.todo
          /\ DOMAIN plan.offset = plan.files \ plan.todo
      BY <1>0, Zenon DEF IInv, PreparingInv
    <3>2. /\ plan.todo \ {f} \subseteq plan.files
          /\ DOMAIN s = plan.files \ (plan.todo \ {f}) /\ DOMAIN o = plan.files \ (plan.todo \ {f})
      BY <1>2, <2>8, <2>9, <3>1, Zenon
    <3>3. ASSUME mode = "incremental"
          PROVE  /\ plan.prior = db.sources /\ db.version = "current"
                 /\ \A g \in DOMAIN s :
                      IF g \in DOMAIN plan.prior
                      THEN o[g] = plan.prior[g].offset /\ IsPrefix(plan.prior[g].digest, s[g])
                      ELSE o[g] = 0
      <4>1. plan.mode = "incremental" /\ (checked => matches)
        BY <3>3 DEF mode
      <4>2. /\ plan.prior = db.sources /\ db.version = "current"
            /\ \A g \in DOMAIN plan.snapshot :
                 IF g \in DOMAIN plan.prior
                 THEN /\ plan.offset[g] = plan.prior[g].offset
                      /\ IsPrefix(plan.prior[g].digest, plan.snapshot[g])
                 ELSE plan.offset[g] = 0
        BY <1>0, <4>1, Zenon DEF IInv, PreparingInv
      <4>3. IF f \in DOMAIN plan.prior
            THEN o[f] = plan.prior[f].offset /\ IsPrefix(plan.prior[f].digest, s[f])
            ELSE o[f] = 0
        BY <2>8, <2>9, <4>1, Zenon DEF offset, Begins
      <4>4. ASSUME NEW g \in DOMAIN s, g # f
            PROVE  IF g \in DOMAIN plan.prior
                   THEN o[g] = plan.prior[g].offset /\ IsPrefix(plan.prior[g].digest, s[g])
                   ELSE o[g] = 0
        <5>1. g \in DOMAIN plan.snapshot /\ g \in DOMAIN plan.offset
          BY <2>8, <3>1, <4>4, Zenon
        <5>2. s[g] = plan.snapshot[g] /\ o[g] = plan.offset[g]
          BY <2>8, <2>9, <4>4, <5>1, Zenon
        <5> QED
          BY <4>2, <5>1, <5>2, Zenon
      <4> QED
        BY <4>2, <4>3, <4>4, Zenon
    <3> QED
      BY <2>2, <2>10, <3>1, <3>2, <3>3, Zenon DEF PreparingInv
  <2>13. WorkingInv'
    BY <2>10 DEF WorkingInv
  <2>14. CommittedInv' /\ RefusedInv'
    BY <2>2, StaysCommitted, StaysRefused DEF IInv
  <2> QED
    BY <2>11, <2>12, <2>13, <2>14 DEF IInv
<1> QED
  BY <1>3, <1>4

-----------------------------------------------------------------------------
(* The steps of a refresh that goes on.                                     *)

\* What the plan says at the end of prepare.
LEMMA Prepared ==
  ASSUME IInv, plan.pc = "prepare", plan.todo = {}
  PROVE  /\ plan.changed = {} /\ DOMAIN plan.snapshot = plan.files /\ DOMAIN plan.offset = plan.files
         /\ plan.mode = "incremental" =>
              /\ plan.prior = db.sources /\ db.version = "current"
              /\ \A f \in plan.files :
                   IF f \in DOMAIN plan.prior
                   THEN /\ plan.offset[f] = plan.prior[f].offset
                        /\ IsPrefix(plan.prior[f].digest, plan.snapshot[f])
                   ELSE plan.offset[f] = 0
<1>1. DOMAIN plan.snapshot = plan.files /\ DOMAIN plan.offset = plan.files
  BY Zenon DEF IInv, PreparingInv
<1> QED
  BY <1>1, Zenon DEF IInv, PreparingInv

\* An incremental refresh reads on where the last one ended.
LEMMA ReadsOn ==
  ASSUME IInv, plan.pc = "prepare", plan.todo = {}, plan.mode = "incremental",
         KeepsOrder("calls"), KeepsOrder("annotations"),
         NEW q, q.pc = "calls", q.files = plan.files, q.snapshot = plan.snapshot,
         q.todo = {f \in plan.files : KindOf(f) = "calls"},
         q.offset = [f \in plan.files |-> plan.offset[f]]
  PROVE  GoesOn(q, db.sources)
<1>1. /\ DOMAIN plan.snapshot = plan.files /\ DOMAIN plan.offset = plan.files
      /\ plan.prior = db.sources
      /\ \A f \in plan.files :
           IF f \in DOMAIN plan.prior
           THEN /\ plan.offset[f] = plan.prior[f].offset
                /\ IsPrefix(plan.prior[f].digest, plan.snapshot[f])
           ELSE plan.offset[f] = 0
  BY Prepared
<1>2. ASSUME NEW kind \in Phases
      PROVE  /\ \A f \in DOMAIN plan.prior : KindOf(f) = kind => f \in plan.files
             /\ \A f \in DOMAIN plan.prior, g \in plan.files :
                  KindOf(f) = kind /\ KindOf(g) = kind /\ g \notin DOMAIN plan.prior => f < g
             /\ \A f, g \in DOMAIN plan.prior :
                  KindOf(f) = kind /\ KindOf(g) = kind /\ f < g =>
                     Len(plan.snapshot[f]) = plan.offset[f]
  <2>1. KeepsOrder(kind)
    BY DEF Phases
  <2> DEFINE old == {f \in DOMAIN plan.prior : KindOf(f) = kind}
  <2>2. /\ old \subseteq plan.files
        /\ \A f \in old, g \in {h \in plan.files : KindOf(h) = kind} \ old : f < g
        /\ \A f \in old : (\E g \in old : f < g) => Len(plan.snapshot[f]) = plan.offset[f]
    BY <2>1, Zenon DEF KeepsOrder, KeepsOrderOfNames
  <2> QED
    BY <2>2, Zenon
<1>3. DOMAIN plan.prior \subseteq plan.files
  BY <1>2, Kinds, Zenon DEF KindsAre
<1>4. plan.files \subseteq Nat
  BY JournalIndexAssumption DEF IInv, TypeInv, Plans, Names
<1>5. \A f \in plan.files : q.offset[f] = plan.offset[f]
  BY Zenon
<1>6. ASSUME NEW f \in plan.files, NEW g \in plan.files,
             q.offset[f] # Len(q.snapshot[f]), KindOf(g) = KindOf(f), g > f
      PROVE  q.offset[g] = 0
  <2>1. KindOf(f) \in Phases
    BY Kinds, Zenon DEF KindsAre
  <2>2. f < g /\ ~(g < f)
    BY <1>4, <1>6
  <2>3. g \notin DOMAIN plan.prior
    <3> SUFFICES ASSUME g \in DOMAIN plan.prior PROVE FALSE
      OBVIOUS
    <3>1. f \in DOMAIN plan.prior
      BY <1>2, <1>6, <2>1, <2>2, Zenon
    <3>2. Len(plan.snapshot[f]) = plan.offset[f]
      BY <1>2, <1>6, <2>1, <2>2, <3>1, Zenon
    <3> QED
      BY <1>5, <1>6, <3>2, Zenon
  <2> QED
    BY <1>1, <1>5, <2>3, Zenon
<1>7. DOMAIN q.offset = plan.files
  BY Zenon
<1> QED
  BY <1>1, <1>3, <1>5, <1>6, <1>7, ZenonT(60) DEF GoesOn

\* Any other begins with nothing.
LEMMA ReadsAll ==
  ASSUME IInv, plan.pc = "prepare", plan.todo = {},
         NEW q, q.pc = "calls", q.files = plan.files, q.snapshot = plan.snapshot,
         q.todo = {f \in plan.files : KindOf(f) = "calls"},
         q.offset = [f \in plan.files |-> 0]
  PROVE  GoesOn(q, NoFiles)
<1>1. DOMAIN plan.snapshot = plan.files
  BY Prepared
<1>2. DOMAIN NoFiles = {}
  BY DEF NoFiles
<1>3. DOMAIN q.offset = plan.files /\ \A f \in plan.files : q.offset[f] = 0
  BY Zenon
<1> QED
  BY <1>1, <1>2, <1>3, Zenon DEF GoesOn

\* It goes on where the index ends, or begins with an empty one.
LEMMA DecideIsGood ==
  ASSUME IInv, Decide
  PROVE  IInv'
<1> DEFINE incremental == /\ plan.mode = "incremental"
                          /\ KeepsOrder("calls") /\ KeepsOrder("annotations")
<1>1. /\ journals' = journals /\ db' = db /\ bounds' = bounds /\ basis' = basis
      /\ refused' = refused /\ work' = IF incremental THEN db ELSE EmptyIndex
      /\ plan.pc = "prepare" /\ plan.todo = {}
      /\ plan' = [plan EXCEPT
                    !.pc = "calls", !.todo = {f \in plan.files : KindOf(f) = "calls"},
                    !.mode = IF incremental THEN @ ELSE "rebuild",
                    !.offset = [f \in plan.files |-> IF incremental THEN @[f] ELSE 0]]
  BY Zenon DEF Decide, Step
<1> HIDE DEF incremental
<1>2. plan \in Plans /\ plan.changed = {} /\ DOMAIN plan.offset = plan.files
  BY <1>1, Prepared DEF IInv, TypeInv
<1>3. PICK todo \in SUBSET Names : todo = {f \in plan.files : KindOf(f) = "calls"}
  BY <1>2 DEF Plans
<1>4. PICK mode \in {"incremental", "rebuild"} :
         mode = IF incremental THEN plan.mode ELSE "rebuild"
  BY <1>2 DEF Plans
<1>5. PICK offset \in Maps(Nat) :
         offset = [f \in plan.files |-> IF incremental THEN plan.offset[f] ELSE 0]
  <2>1. PICK F \in SUBSET Names : plan.offset \in [F -> Nat]
    BY <1>2 DEF Plans
  <2>2. F = plan.files
    BY <1>2, <2>1, Zenon
  <2>3. \A f \in F : (IF incremental THEN plan.offset[f] ELSE 0) \in Nat
    BY <2>1
  <2>4. [f \in F |-> IF incremental THEN plan.offset[f] ELSE 0] \in [F -> Nat]
    BY <2>3, Zenon
  <2> QED
    BY <2>2, <2>4, Zenon DEF Maps
<1>6. PICK q : q = plan'
  OBVIOUS
<1>7. q = [plan EXCEPT !.pc = "calls", !.todo = todo, !.mode = mode, !.offset = offset]
  BY <1>1, <1>3, <1>4, <1>5, <1>6
<1>8. /\ q \in Plans /\ q.pc = "calls" /\ q.files = plan.files /\ q.snapshot = plan.snapshot
      /\ q.todo = todo /\ q.mode = mode /\ q.offset = offset /\ q.changed = {}
  BY <1>2, <1>7 DEF Plans, Maps
<1>9. PICK i \in Indexes : i = work'
  BY <1>1, NothingIndexed, Zenon DEF IInv, TypeInv
<1>10. Ready(q) /\ Derived(i, Seen(q)) /\ i.windows = i.calls /\ Linked(i.annotations, i.calls)
  <2>1. CASE incremental
    <3>1. /\ plan.mode = "incremental" /\ KeepsOrder("calls") /\ KeepsOrder("annotations")
          /\ offset = [f \in plan.files |-> plan.offset[f]]
      BY <1>5, <2>1, Zenon DEF incremental
    <3>2. GoesOn(q, db.sources)
      BY <1>1, <1>3, <1>8, <3>1, ReadsOn
    <3>3. db.version = "current"
      BY <1>1, <3>1, Prepared
    <3>4. /\ Derived(db, basis) /\ db.windows = db.calls /\ Linked(db.annotations, db.calls)
      BY <3>3, Zenon DEF IInv, CommittedInv
    <3>5. IsFiles(basis) /\ db \in Indexes
      BY FilesAre, Zenon DEF IInv, TypeInv
    <3>6. i = db
      BY <1>1, <1>9, <2>1, Zenon
    <3>7. Ready(q) /\ Derived(db, Seen(q))
      BY <1>8, <3>2, <3>4, <3>5, StartAgain
    <3> QED
      BY <3>4, <3>6, <3>7, Zenon
  <2>2. CASE ~incremental
    <3>1. offset = [f \in plan.files |-> 0]
      BY <1>5, <2>2, Zenon
    <3>2. GoesOn(q, NoFiles)
      BY <1>1, <1>3, <1>8, <3>1, ReadsAll
    <3>3. EmptyIndex.sources = NoFiles
      BY DEF EmptyIndex
    <3>4. /\ Derived(EmptyIndex, NoFiles) /\ EmptyIndex.windows = EmptyIndex.calls
          /\ Linked(EmptyIndex.annotations, EmptyIndex.calls) /\ EmptyIndex \in Indexes
      BY NothingIndexed, Zenon
    <3>5. IsFiles(NoFiles)
      BY Zenon DEF IsFiles, NoFiles
    <3>6. i = EmptyIndex
      BY <1>1, <1>9, <2>2, Zenon
    <3>7. GoesOn(q, EmptyIndex.sources)
      BY <3>2, <3>3, Zenon
    <3>8. PICK e \in Indexes : e = EmptyIndex
      BY <3>4
    <3>9. PICK n : n = NoFiles
      OBVIOUS
    <3>10. Derived(e, n) /\ IsFiles(n) /\ GoesOn(q, e.sources)
      BY <3>4, <3>5, <3>7, <3>8, <3>9, Zenon
    <3>11. Ready(q) /\ Derived(e, Seen(q))
      BY <1>8, <3>10, StartAgain
    <3> QED
      BY <3>4, <3>6, <3>8, <3>11, Zenon
  <2> QED
    BY <2>1, <2>2
<1>11. TypeInv'
  BY <1>1, <1>6, <1>8, <1>9, Zenon DEF IInv, TypeInv
<1>12. PreparingInv'
  BY <1>6, <1>8 DEF PreparingInv
<1>13. WorkingInv'
  BY <1>6, <1>8, <1>9, <1>10, Zenon DEF WorkingInv
<1>14. CommittedInv' /\ RefusedInv'
  BY <1>1, StaysCommitted, StaysRefused DEF IInv
<1> QED
  BY <1>11, <1>12, <1>13, <1>14 DEF IInv

\* The work that a refresh has done when it goes on.
Working(p, index) ==
    /\ Ready(p) /\ Derived(index, Seen(p))
    /\ \/ index.windows = index.calls
       \/ p.pc = "calls" /\ ("calls" \in p.changed \/ p.mode = "rebuild")
    /\ \/ Linked(index.annotations, index.calls)
       \/ p.pc \in Phases /\ p.changed # {}

\* A step of a refresh keeps the invariant if it keeps this.
LEMMA WorkIsGood ==
  ASSUME IInv, UNCHANGED <<journals, db, bounds, basis, refused>>,
         NEW q \in Plans, plan' = q, q.pc # "prepare", NEW index \in Indexes, work' = index,
         Working(q, index)
  PROVE  IInv'
<1>1. /\ journals' = journals /\ db' = db /\ bounds' = bounds /\ basis' = basis
      /\ refused' = refused
  OBVIOUS
<1>2. TypeInv'
  BY <1>1, Zenon DEF IInv, TypeInv
<1>3. PreparingInv'
  BY Zenon DEF PreparingInv
<1>4. WorkingInv'
  BY Zenon DEF WorkingInv, Working
<1>5. CommittedInv' /\ RefusedInv'
  BY <1>1, StaysCommitted, StaysRefused DEF IInv
<1> QED
  BY <1>2, <1>3, <1>4, <1>5 DEF IInv

\* It visits a file.
LEMMA VisitIsGood ==
  ASSUME IInv, Visit
  PROVE  IInv'
<1>1. /\ plan \in Plans /\ work \in Indexes /\ plan.pc \in Phases /\ plan.todo # {}
      /\ plan.todo \in SUBSET Names
  BY DEF Visit, IInv, TypeInv, Plans, Phases
<1>2. PICK f : f = First(plan.todo)
  OBVIOUS
<1>3. f \in plan.todo /\ \A g \in plan.todo : f <= g
  BY <1>1, <1>2, FirstIs
<1>4. PICK p \in Plans : p = plan
  BY <1>1
<1>5. Visiting(p, f)
  BY <1>1, <1>3, <1>4, Zenon DEF Visiting
<1>6. Working(p, work)
  BY <1>1, <1>4, Zenon DEF IInv, WorkingInv, Working, Phases
<1>7. Ready(p) /\ Derived(work, Seen(p))
  BY <1>6, Zenon DEF Working
<1>8. PICK result : result = AcceptAll(p.pc, work, NewLines(p, f))
  OBVIOUS
<1>9. IF p.offset[f] = Len(p.snapshot[f])
      THEN Step([p EXCEPT !.todo = @ \ {f}]) /\ work' = work
      ELSE \/ Rollback /\ refused' = refused
           \/ result.verdict # "fine" /\ Rollback /\ refused' = p.snapshot
           \/ /\ result.verdict = "fine" /\ work' = VisitedIndex(result, p, f)
              /\ Step([p EXCEPT !.todo = @ \ {f},
                                !.changed = IF NewLines(p, f).records = <<>> THEN @
                                            ELSE @ \cup {p.pc}])
  BY <1>2, <1>4, <1>8, Zenon DEF Visit, NewLines, VisitedIndex, SourceOf, ReadTo
<1>10. ASSUME NEW changed \in SUBSET Phases
       PROVE  LET q == [p EXCEPT !.todo = @ \ {f}, !.changed = changed]
              IN  /\ q \in Plans /\ Visited(p, q, f) /\ q.pc = p.pc /\ q.pc # "prepare"
                  /\ q.mode = p.mode /\ q.changed = changed
  BY <1>1, <1>4 DEF Plans, Visited, Phases
<1>11. CASE p.offset[f] = Len(p.snapshot[f])
  <2>1. Step([p EXCEPT !.todo = @ \ {f}]) /\ work' = work
    BY <1>9, <1>11, Zenon
  <2>2. PICK changed \in SUBSET Phases : changed = p.changed
    BY <1>1, <1>4 DEF Plans
  <2>3. PICK q : q = [p EXCEPT !.todo = @ \ {f}, !.changed = changed]
    OBVIOUS
  <2>4. /\ q \in Plans /\ Visited(p, q, f) /\ q.pc = p.pc /\ q.pc # "prepare"
        /\ q.mode = p.mode /\ q.changed = changed
    BY <1>10, <2>3, Zenon
  <2>5. plan' = q
    BY <2>1, <2>2, <2>3 DEF Step, Plans
  <2>6. Ready(q) /\ Seen(q) = Seen(p)
    BY <1>5, <1>7, <1>11, <2>4, VisitedIsReady, NothingNew
  <2>7. Working(q, work)
    BY <1>6, <2>2, <2>4, <2>6, Zenon DEF Working
  <2>8. UNCHANGED <<journals, db, bounds, basis, refused>>
    BY <2>1 DEF Step
  <2> QED
    BY <1>1, <2>1, <2>4, <2>5, <2>7, <2>8, WorkIsGood
<1>12. CASE p.offset[f] # Len(p.snapshot[f])
  <2>0. ASSUME NEW q \in Plans, Visited(p, q, f)
        PROVE  /\ result.verdict = "fine" => Derived(VisitedIndex(result, p, f), Seen(q))
               /\ result.verdict # "fine" => ~Indexable(p.snapshot)
               /\ p.pc = "calls" /\ result.verdict = "fine" =>
                    CallsVisited(VisitedIndex(result, p, f), work, p, f)
               /\ p.pc = "annotations" /\ result.verdict = "fine" =>
                    NotesVisited(VisitedIndex(result, p, f), work)
    <3>1. CASE p.pc = "calls"
      <4>1. result = AcceptAll("calls", work, NewLines(p, f))
        BY <1>8, <3>1, Zenon
      <4>2. /\ result.verdict = "fine" =>
                 /\ CallsVisited(VisitedIndex(result, p, f), work, p, f)
                 /\ Derived(VisitedIndex(result, p, f), Seen(q))
            /\ result.verdict # "fine" => ~Indexable(p.snapshot)
        BY <1>1, <1>5, <1>7, <1>12, <2>0, <3>1, <4>1, VisitCalls
      <4> QED
        BY <3>1, <4>2
    <3>2. CASE p.pc = "annotations"
      <4>1. result = AcceptAll("annotations", work, NewLines(p, f))
        BY <1>8, <3>2, Zenon
      <4>2. /\ result.verdict = "fine" =>
                 /\ NotesVisited(VisitedIndex(result, p, f), work)
                 /\ Derived(VisitedIndex(result, p, f), Seen(q))
            /\ result.verdict # "fine" => ~Indexable(p.snapshot)
        BY <1>1, <1>5, <1>7, <1>12, <2>0, <3>2, <4>1, VisitNotes
      <4> QED
        BY <3>2, <4>2
    <3> QED
      BY <1>1, <1>4, <3>1, <3>2 DEF Phases
  <2>1. CASE Rollback /\ refused' = refused
    BY <2>1, RollbackIsGood
  <2>2. CASE result.verdict # "fine" /\ Rollback /\ refused' = p.snapshot
    <3>1. PICK q : q = [p EXCEPT !.todo = @ \ {f}, !.changed = {}]
      OBVIOUS
    <3>2. q \in Plans /\ Visited(p, q, f)
      <4>1. {} \in SUBSET Phases
        OBVIOUS
      <4> QED
        BY <1>10, <3>1, <4>1, Zenon
    <3>3. ~Indexable(refused')
      BY <2>0, <2>2, <3>2, Zenon
    <3> QED
      BY <2>2, <3>3, RollbackIsGood
  <2>3. CASE /\ result.verdict = "fine" /\ work' = VisitedIndex(result, p, f)
             /\ Step([p EXCEPT !.todo = @ \ {f},
                               !.changed = IF NewLines(p, f).records = <<>> THEN @
                                           ELSE @ \cup {p.pc}])
    <3>1. PICK changed \in SUBSET Phases :
             changed = IF NewLines(p, f).records = <<>> THEN p.changed ELSE p.changed \cup {p.pc}
      BY <1>1, <1>4 DEF Plans
    <3>2. PICK q : q = [p EXCEPT !.todo = @ \ {f}, !.changed = changed]
      OBVIOUS
    <3>3. /\ q \in Plans /\ Visited(p, q, f) /\ q.pc = p.pc /\ q.pc # "prepare"
          /\ q.mode = p.mode /\ q.changed = changed
      BY <1>10, <3>2, Zenon
    <3>4. plan' = q
      BY <2>3, <3>1, <3>2, Zenon DEF Step
    <3>5. PICK i : i = VisitedIndex(result, p, f)
      OBVIOUS
    <3>6. /\ Derived(i, Seen(q))
          /\ p.pc = "calls" => CallsVisited(i, work, p, f)
          /\ p.pc = "annotations" => NotesVisited(i, work)
      BY <2>0, <2>3, <3>3, <3>5, Zenon
    <3>7. i \in Indexes
      BY <1>1, <1>4, <3>6, Zenon DEF CallsVisited, NotesVisited, Phases
    <3>8. Ready(q)
      BY <1>5, <1>7, <3>3, VisitedIsReady
    <3>9. p.pc \in {"calls", "annotations"} /\ "calls" # "annotations"
      BY <1>1, <1>4 DEF Phases
    <3>10. \/ i.windows = i.calls
           \/ q.pc = "calls" /\ ("calls" \in q.changed \/ q.mode = "rebuild")
      <4>1. CASE p.pc = "calls"
        <5>1. CASE NewLines(p, f).records = <<>>
          BY <1>6, <3>1, <3>3, <3>6, <4>1, <5>1, Zenon DEF Working, CallsVisited
        <5>2. CASE NewLines(p, f).records # <<>>
          BY <3>1, <3>3, <4>1, <5>2, Zenon
        <5> QED
          BY <5>1, <5>2
      <4>2. CASE p.pc = "annotations"
        BY <1>6, <3>6, <3>9, <4>2, Zenon DEF Working, NotesVisited
      <4> QED
        BY <3>9, <4>1, <4>2
    <3>11. \/ Linked(i.annotations, i.calls)
           \/ q.pc \in Phases /\ q.changed # {}
      <4>1. CASE NewLines(p, f).records # <<>>
        <5>1. p.pc \in changed
          BY <3>1, <4>1, Zenon
        <5> QED
          BY <1>1, <1>4, <3>3, <5>1, Zenon
      <4>2. CASE NewLines(p, f).records = <<>>
        <5>1. changed = p.changed
          BY <3>1, <4>2, Zenon
        <5>2. Linked(work.annotations, work.calls) \/ p.changed # {}
          BY <1>6, Zenon DEF Working
        <5>3. Linked(work.annotations, work.calls) => Linked(i.annotations, i.calls)
          BY <3>6, <3>9, <4>2, Zenon DEF CallsVisited, NotesVisited
        <5> QED
          BY <1>1, <1>4, <3>3, <5>1, <5>2, <5>3, Zenon
      <4> QED
        BY <4>1, <4>2
    <3>12. Working(q, i)
      BY <3>6, <3>8, <3>10, <3>11, Zenon DEF Working
    <3>13. UNCHANGED <<journals, db, bounds, basis, refused>>
      BY <2>3 DEF Step
    <3>14. work' = i
      BY <2>3, <3>5, Zenon
    <3> QED
      BY <3>3, <3>4, <3>7, <3>12, <3>13, <3>14, WorkIsGood
  <2> QED
    BY <1>9, <1>12, <2>1, <2>2, <2>3, Zenon
<1> QED
  BY <1>11, <1>12

\* Nothing more is seen when one phase ends and the next one begins.
LEMMA PhaseIsOver ==
  ASSUME NEW p, Ready(p), NEW q, q.files = p.files, q.snapshot = p.snapshot,
         q.offset = p.offset, Pending(q) = Pending(p),
         q.pc \in Phases => q.todo = {f \in q.files : KindOf(f) = q.pc}
  PROVE  Ready(q) /\ Seen(q) = Seen(p)
<1>1. Seen(q) = Seen(p)
  BY SeenSame
<1>2. Ready(q)
  BY Zenon DEF Ready
<1> QED
  BY <1>1, <1>2

\* What an index says does not depend on its windows and links.
LEMMA StillDerived ==
  ASSUME NEW index, NEW s, Derived(index, s), NEW next, next.sources = index.sources,
         next.calls = index.calls, next.replayed = index.replayed,
         RowsOf(next.annotations, Journal(s, "annotations"))
  PROVE  Derived(next, s)
BY Zenon DEF Derived, CallsOf

\* It derives the windows.
LEMMA CorrelateIsGood ==
  ASSUME IInv, Correlate
  PROVE  IInv'
<1>1. /\ UNCHANGED <<journals, db, bounds, basis, refused>>
      /\ plan \in Plans /\ work \in Indexes /\ plan.pc = "calls" /\ plan.todo = {}
  BY DEF Correlate, Step, IInv, TypeInv
<1>2. Working(plan, work)
  BY <1>1, Zenon DEF IInv, WorkingInv, Working
<1>3. PICK todo \in SUBSET Names : todo = {f \in plan.files : KindOf(f) = "annotations"}
  BY <1>1 DEF Plans
<1>4. PICK q : q = [plan EXCEPT !.pc = "annotations", !.todo = todo]
  OBVIOUS
<1>5. plan' = q
  BY <1>3, <1>4 DEF Correlate, Step
<1>6. /\ q \in Plans /\ q.pc = "annotations" /\ q.todo = todo /\ q.files = plan.files
      /\ q.snapshot = plan.snapshot /\ q.offset = plan.offset /\ q.changed = plan.changed
  BY <1>1, <1>4 DEF Plans
<1>7. Pending(q) = Pending(plan)
  <2>1. \A f : f \in Pending(q) <=> f \in Pending(plan)
    <3> TAKE f
    <3>1. "annotations" # "calls" /\ "annotations" \in Phases /\ "calls" \in Phases
      BY DEF Phases
    <3> QED
      BY <1>1, <1>3, <1>6, <3>1, Zenon DEF Pending
  <2> QED
    BY <2>1, Zenon DEF Pending
<1>8. Ready(q) /\ Seen(q) = Seen(plan)
  BY <1>2, <1>3, <1>6, <1>7, PhaseIsOver, Zenon DEF Working
<1>9. PICK i : i = IF "calls" \in plan.changed \/ plan.mode = "rebuild"
                   THEN [work EXCEPT !.windows = work.calls] ELSE work
  OBVIOUS
<1>10. work' = i
  BY <1>9, Zenon DEF Correlate
<1>11. /\ i \in Indexes /\ i.sources = work.sources /\ i.calls = work.calls
       /\ i.replayed = work.replayed /\ i.annotations = work.annotations
       /\ "calls" \in plan.changed \/ plan.mode = "rebuild" => i.windows = i.calls
       /\ ~("calls" \in plan.changed \/ plan.mode = "rebuild") => i = work
  BY <1>1, <1>9 DEF Indexes
<1>12. i.windows = i.calls
  BY <1>2, <1>11, Zenon DEF Working
<1>13. Derived(i, Seen(q))
  <2>1. Derived(work, Seen(q))
    BY <1>2, <1>8, Zenon DEF Working
  <2>2. RowsOf(i.annotations, Journal(Seen(q), "annotations"))
    BY <1>11, <2>1, Zenon DEF Derived
  <2> QED
    BY <1>11, <2>1, <2>2, StillDerived
<1>14. Linked(i.annotations, i.calls) \/ (q.pc \in Phases /\ q.changed # {})
  <2>1. q.pc \in Phases
    BY <1>6 DEF Phases
  <2> QED
    BY <1>2, <1>6, <1>11, <2>1, Zenon DEF Working
<1>15. Working(q, i) /\ q.pc # "prepare"
  BY <1>6, <1>8, <1>12, <1>13, <1>14 DEF Working
<1> QED
  BY <1>1, <1>5, <1>6, <1>10, <1>11, <1>15, WorkIsGood

\* It links the annotations.
LEMMA RelinkIsGood ==
  ASSUME IInv, Relink
  PROVE  IInv'
<1>1. /\ UNCHANGED <<journals, db, bounds, basis, refused>>
      /\ plan \in Plans /\ work \in Indexes /\ plan.pc = "annotations" /\ plan.todo = {}
  BY DEF Relink, Step, IInv, TypeInv
<1>2. Working(plan, work)
  BY <1>1, Zenon DEF IInv, WorkingInv, Working
<1>3. PICK q : q = [plan EXCEPT !.pc = "inventory"]
  OBVIOUS
<1>4. plan' = q
  BY <1>3 DEF Relink, Step
<1>5. /\ q \in Plans /\ q.pc = "inventory" /\ q.files = plan.files
      /\ q.snapshot = plan.snapshot /\ q.offset = plan.offset
  BY <1>1, <1>3 DEF Plans
<1>6. q.pc \notin Phases /\ q.pc # "calls" /\ plan.pc # "calls"
  BY <1>1, <1>5 DEF Phases
<1>7. Pending(q) = Pending(plan)
  BY <1>1, <1>5, <1>6, Zenon DEF Pending
<1>8. Ready(q) /\ Seen(q) = Seen(plan)
  BY <1>2, <1>5, <1>6, <1>7, PhaseIsOver, Zenon DEF Working
<1>9. PICK rows \in Seq(Rows) : rows = work.annotations
  BY <1>1 DEF Indexes
<1>10. PICK calls \in Seq(Recs) : calls = work.calls
  BY <1>1 DEF Indexes
<1> DEFINE linked(row) == [row EXCEPT !.call = Target(calls, row.record)]
           links == [k \in DOMAIN rows |-> linked(rows[k])]
<1>11. \A row \in Rows : /\ linked(row) \in Rows /\ linked(row).record = row.record
                         /\ linked(row).call = Target(calls, row.record)
  <2> TAKE row \in Rows
  <2>1. Target(calls, row.record) \in Nat
    BY TargetIs
  <2> QED
    BY <2>1 DEF Rows
<1> HIDE DEF linked
<1>12. /\ DOMAIN rows = 1 .. Len(rows) /\ Len(rows) \in Nat
       /\ \A k \in DOMAIN rows : rows[k] \in Rows
  BY LenProperties
<1>13. /\ links \in Seq(Rows) /\ Len(links) = Len(rows) /\ DOMAIN links = DOMAIN rows
       /\ \A k \in DOMAIN rows : links[k].record = rows[k].record
       /\ Linked(links, calls)
  <2>1. links \in [1 .. Len(rows) -> Rows]
    BY <1>11, <1>12, Zenon
  <2>2. links \in Seq(Rows) /\ Len(links) = Len(rows)
    BY <1>12, <2>1, IsASeq, LenProperties
  <2>3. DOMAIN links = DOMAIN rows /\ \A k \in DOMAIN rows : links[k] = linked(rows[k])
    BY Zenon
  <2>4. Linked(links, calls)
    BY <1>11, <1>12, <2>3, Zenon DEF Linked
  <2> QED
    BY <1>11, <1>12, <2>2, <2>3, <2>4, Zenon
<1>14. PICK i : i = IF plan.changed # {} THEN [work EXCEPT !.annotations = links] ELSE work
  OBVIOUS
<1>15. work' = i
  BY <1>9, <1>10, <1>14, Zenon DEF Relink, linked
<1> HIDE DEF links
<1>16. /\ i \in Indexes /\ i.sources = work.sources /\ i.calls = work.calls
       /\ i.replayed = work.replayed /\ i.windows = work.windows
       /\ i.annotations = IF plan.changed # {} THEN links ELSE rows
  BY <1>1, <1>9, <1>13, <1>14 DEF Indexes
<1>17. i.windows = i.calls
  BY <1>2, <1>6, <1>16, Zenon DEF Working
<1>18. Linked(i.annotations, i.calls)
  BY <1>2, <1>9, <1>10, <1>13, <1>16, Zenon DEF Working
<1>19. Derived(i, Seen(q))
  <2>1. Derived(work, Seen(q))
    BY <1>2, <1>8, Zenon DEF Working
  <2>2. PICK notes : notes = Journal(Seen(q), "annotations")
    OBVIOUS
  <2>3. Len(rows) = Len(notes) /\ \A k \in 1 .. Len(notes) : rows[k].record = notes[k]
    BY <1>9, <2>1, <2>2, Zenon DEF Derived, RowsOf
  <2>4. Len(links) = Len(notes) /\ \A k \in 1 .. Len(notes) : links[k].record = notes[k]
    BY <1>12, <1>13, <2>3, Zenon
  <2>5. RowsOf(i.annotations, notes)
    BY <1>16, <2>3, <2>4, Zenon DEF RowsOf
  <2> QED
    BY <1>16, <2>1, <2>2, <2>5, StillDerived, Zenon
<1>20. Working(q, i) /\ q.pc # "prepare"
  BY <1>5, <1>8, <1>17, <1>18, <1>19 DEF Working
<1> QED
  BY <1>1, <1>4, <1>5, <1>15, <1>16, <1>20, WorkIsGood

\* The checks at the end see nothing more.
LEMMA ChecksAreGood ==
  ASSUME IInv, plan.pc \in {"inventory", "finish"}, NEW todo \in SUBSET Names,
         Step([plan EXCEPT !.pc = "finish", !.todo = todo]), UNCHANGED work
  PROVE  IInv'
<1>1. /\ UNCHANGED <<journals, db, bounds, basis, refused>>
      /\ plan \in Plans /\ work \in Indexes
  BY DEF Step, IInv, TypeInv
<1>2. Working(plan, work)
  BY <1>1, Zenon DEF IInv, WorkingInv, Working
<1>3. PICK q : q = [plan EXCEPT !.pc = "finish", !.todo = todo]
  OBVIOUS
<1>4. plan' = q /\ work' = work
  BY <1>3 DEF Step
<1>5. /\ q \in Plans /\ q.pc = "finish" /\ q.files = plan.files
      /\ q.snapshot = plan.snapshot /\ q.offset = plan.offset
  BY <1>1, <1>3 DEF Plans
<1>6. q.pc \notin Phases /\ q.pc # "calls" /\ plan.pc \notin Phases /\ plan.pc # "calls"
  BY <1>5 DEF Phases
<1>7. Pending(q) = Pending(plan)
  BY <1>5, <1>6, Zenon DEF Pending
<1>8. Ready(q) /\ Seen(q) = Seen(plan)
  BY <1>2, <1>5, <1>6, <1>7, PhaseIsOver, Zenon DEF Working
<1>9. Working(q, work) /\ q.pc # "prepare"
  BY <1>2, <1>5, <1>6, <1>8 DEF Working
<1> QED
  BY <1>1, <1>4, <1>5, <1>9, WorkIsGood

\* It compares the names of the files.
LEMMA InventoryIsGood ==
  ASSUME IInv, Inventory
  PROVE  IInv'
<1>1. CASE Rollback /\ UNCHANGED refused
  BY <1>1, RollbackIsGood
<1>2. CASE Step([plan EXCEPT !.pc = "finish", !.todo = plan.files]) /\ UNCHANGED <<work, instant>>
  <2>1. plan.files \in SUBSET Names
    BY DEF IInv, TypeInv, Plans
  <2>2. plan.pc = "inventory"
    BY DEF Inventory
  <2> QED
    BY <1>2, <2>1, <2>2, ChecksAreGood
<1> QED
  BY <1>1, <1>2 DEF Inventory

\* It compares a file with what it read.
LEMMA FinishFileIsGood ==
  ASSUME IInv, FinishFile
  PROVE  IInv'
<1>1. PICK f : f = First(plan.todo)
  OBVIOUS
<1>2. CASE Rollback /\ UNCHANGED refused
  BY <1>2, RollbackIsGood
<1>3. CASE Step([plan EXCEPT !.todo = @ \ {f}]) /\ UNCHANGED <<work, instant>>
  <2>1. plan.pc = "finish" /\ plan \in Plans
    BY DEF FinishFile, IInv, TypeInv
  <2>2. plan.todo \ {f} \in SUBSET Names
    BY <2>1 DEF Plans
  <2>3. [plan EXCEPT !.pc = "finish", !.todo = plan.todo \ {f}] = [plan EXCEPT !.todo = @ \ {f}]
    BY <2>1 DEF Plans
  <2>4. Step([plan EXCEPT !.pc = "finish", !.todo = plan.todo \ {f}])
    BY <1>3, <2>3 DEF Step
  <2> QED
    BY <1>3, <2>1, <2>2, <2>4, ChecksAreGood
<1> QED
  BY <1>1, <1>2, <1>3 DEF FinishFile

\* What is committed is the index of the snapshot.
LEMMA CommitIsGood ==
  ASSUME IInv, Commit
  PROVE  IInv'
<1>1. /\ plan.pc = "finish" /\ plan' = Idle /\ work' = db' /\ basis' = plan.snapshot
      /\ db' = [work EXCEPT !.version = "current"]
      /\ journals' = journals /\ bounds' = bounds /\ refused' = refused
  BY DEF Commit
<1>2. plan \in Plans /\ work \in Indexes
  BY DEF IInv, TypeInv
<1>3. Working(plan, work)
  BY <1>1, Zenon DEF IInv, WorkingInv, Working
<1>4. plan.pc \notin Phases /\ plan.pc # "calls"
  BY <1>1 DEF Phases
<1>5. Pending(plan) = {}
  BY <1>4, Zenon DEF Pending
<1>6. Seen(plan) = plan.snapshot /\ plan.snapshot \in FileMaps
  <2>1. plan.snapshot \in FileMaps
    BY <1>2 DEF Plans
  <2>2. plan.snapshot = [f \in plan.files |-> plan.snapshot[f]]
    BY <1>3, <2>1, FilesAre, Zenon DEF Working, Ready, IsFiles
  <2>3. Seen(plan) = [f \in plan.files |-> plan.snapshot[f]]
    BY <1>5, Zenon DEF Seen
  <2> QED
    BY <2>1, <2>2, <2>3, Zenon
<1>7. PICK i : i = [work EXCEPT !.version = "current"]
  OBVIOUS
<1>8. /\ i \in Indexes /\ i.sources = work.sources /\ i.calls = work.calls
      /\ i.replayed = work.replayed /\ i.windows = work.windows
      /\ i.annotations = work.annotations
  BY <1>2, <1>7 DEF Indexes
<1>9. i.windows = i.calls /\ Linked(i.annotations, i.calls)
  BY <1>3, <1>4, <1>8, Zenon DEF Working
<1>10. Derived(i, plan.snapshot)
  <2>1. Derived(work, plan.snapshot)
    BY <1>3, <1>6, Zenon DEF Working
  <2>2. RowsOf(i.annotations, Journal(plan.snapshot, "annotations"))
    BY <1>8, <2>1, Zenon DEF Derived
  <2> QED
    BY <1>8, <2>1, <2>2, StillDerived
<1>11. TypeInv'
  BY <1>1, <1>6, <1>7, <1>8, IdleIs, Zenon DEF IInv, TypeInv
<1>12. CommittedInv'
  BY <1>1, <1>7, <1>9, <1>10, Zenon DEF CommittedInv
<1>13. RefusedInv'
  BY <1>1, StaysRefused DEF IInv
<1>14. plan'.pc = "idle"
  BY <1>1 DEF Idle
<1>15. PreparingInv' /\ WorkingInv'
  BY <1>14 DEF PreparingInv, WorkingInv
<1> QED
  BY <1>11, <1>12, <1>13, <1>15 DEF IInv

-----------------------------------------------------------------------------
(* The theorems.                                                            *)

\* Every step keeps the invariant.
LEMMA NextIsGood ==
  ASSUME IInv, Next
  PROVE  IInv'
<1>1. CASE Die
  BY <1>1, RollbackIsGood DEF Die
<1>2. CASE Writers
  BY <1>2, WritersAreGood
<1>3. ASSUME NEW rebuilding \in BOOLEAN, Begin(rebuilding) PROVE IInv'
  BY <1>3, BeginIsGood
<1>4. CASE Prepare
  BY <1>4, PrepareIsGood
<1>5. CASE Decide
  BY <1>5, DecideIsGood
<1>6. CASE Visit
  BY <1>6, VisitIsGood
<1>7. CASE Correlate
  BY <1>7, CorrelateIsGood
<1>8. CASE Relink
  BY <1>8, RelinkIsGood
<1>9. CASE Inventory
  BY <1>9, InventoryIsGood
<1>10. CASE FinishFile
  BY <1>10, FinishFileIsGood
<1>11. CASE Commit
  BY <1>11, CommitIsGood
<1> QED
  BY <1>1, <1>2, <1>3, <1>4, <1>5, <1>6, <1>7, <1>8, <1>9, <1>10, <1>11 DEF Next, Refresh

\* So does no step.
LEMMA StutteringIsGood ==
  ASSUME IInv, UNCHANGED vars
  PROVE  IInv'
<1>1. /\ journals' = journals /\ db' = db /\ work' = work /\ plan' = plan /\ bounds' = bounds
      /\ basis' = basis /\ refused' = refused
  BY DEF vars
<1>2. TypeInv'
  BY <1>1, Zenon DEF IInv, TypeInv
<1>3. CommittedInv' /\ RefusedInv'
  BY <1>1, StaysCommitted, StaysRefused DEF IInv
<1>4. PreparingInv'
  BY <1>1, Zenon DEF IInv, PreparingInv
<1>5. WorkingInv'
  BY <1>1, Zenon DEF IInv, WorkingInv
<1> QED
  BY <1>2, <1>3, <1>4, <1>5 DEF IInv

\* The invariant of the refresh: an open transaction holds the index of what it
\* has read so far, a committed one that of the journals it was derived from.
THEOREM IndexIsThatOfWhatWasRead == Spec => []IInv
<1>1. IInv /\ [Next]_vars => IInv'
  BY NextIsGood, StutteringIsGood
<1> QED
  BY InitIsGood, <1>1, PTL DEF Spec

\* The invariant says what is wanted.
LEMMA GoodMeansSame == IInv => SameAsReconstruction
<1> SUFFICES ASSUME IInv PROVE SameAsReconstruction
  OBVIOUS
<1>1. ASSUME db.version = "current" PROVE Indexable(basis) /\ IsIndexOf(db, basis)
  <2>1. /\ Derived(db, basis) /\ db.windows = db.calls /\ Linked(db.annotations, db.calls)
    BY <1>1, Zenon DEF IInv, CommittedInv
  <2>2. IsFiles(basis) /\ db \in Indexes
    BY FilesAre, Zenon DEF IInv, TypeInv
  <2> QED
    BY <2>1, <2>2, DerivedIsIndex
<1>2. refused # NoFiles => ~Indexable(refused)
  BY DEF IInv, RefusedInv
<1> QED
  BY <1>1, <1>2, Zenon DEF SameAsReconstruction

\* However the journals grow and change while refreshes read them file by file,
\* whatever refreshes fail or die, an index that was brought up to date
\* incrementally is the one that reading its journals from nothing gives, and
\* only journals that such a reading refuses are refused (index.rs, refresh).
THEOREM IncrementalIsReconstruction == Spec => []SameAsReconstruction
BY IndexIsThatOfWhatWasRead, GoodMeansSame, PTL

-----------------------------------------------------------------------------
(* The journals as the writers leave them.                                  *)

\* A prefix, place by place.
LEMMA PrefixIs ==
  ASSUME NEW S, NEW s \in Seq(S), NEW t \in Seq(S)
  PROVE  IsPrefix(s, t) <=> Len(s) <= Len(t) /\ \A i \in 1 .. Len(s) : s[i] = t[i]
<1>1. PICK n \in Nat : n = Len(s) /\ s \in [1 .. n -> S]
  BY LenProperties
<1>2. PICK m \in Nat : m = Len(t) /\ t \in [1 .. m -> S]
  BY LenProperties
<1>3. SubSeq(s, 1, n) = s
  BY <1>1, SubSeqFull
<1>4. ASSUME n <= m
      PROVE  SubSeq(s, 1, n) = SubSeq(t, 1, n) <=> \A i \in 1 .. n : s[i] = t[i]
  <2>1. \A i \in 1 .. n : t[i] \in S
    BY <1>2, <1>4
  <2>2. PICK u \in Seq(S) : u = SubSeq(t, 1, n) /\ Len(u) = n /\ \A i \in 1 .. n : u[i] = t[i]
    <3>1. 1 \in Int /\ n \in Int /\ t = t
      BY <1>1
    <3>2. /\ SubSeq(t, 1, n) \in Seq(S)
          /\ Len(SubSeq(t, 1, n)) = IF 1 <= n THEN n - 1 + 1 ELSE 0
          /\ \A i \in 1 .. n - 1 + 1 : SubSeq(t, 1, n)[i] = t[1 + i - 1]
      BY <2>1, <3>1, SubSeqProperties
    <3>3. n - 1 + 1 = n /\ (IF 1 <= n THEN n - 1 + 1 ELSE 0) = n /\ \A i \in 1 .. n : 1 + i - 1 = i
      BY <1>1
    <3>4. /\ Len(SubSeq(t, 1, n)) = n
          /\ \A i \in 1 .. n : SubSeq(t, 1, n)[i] = t[i]
      BY <3>2, <3>3, Zenon
    <3> QED
      BY <3>2, <3>4, Zenon
  <2>3. u \in [1 .. n -> S]
    BY <2>2, LenProperties
  <2>4. s = u <=> \A i \in 1 .. n : s[i] = u[i]
    BY <1>1, <2>3
  <2> QED
    BY <1>3, <2>2, <2>4, Zenon
<1>5. IsPrefix(s, t) <=> n <= m /\ SubSeq(s, 1, n) = SubSeq(t, 1, n)
  BY <1>1, <1>2, Zenon DEF IsPrefix
<1> QED
  BY <1>1, <1>2, <1>4, <1>5, Zenon

\* Growing twice is growing.
LEMMA PrefixOfPrefix ==
  ASSUME NEW S, NEW s \in Seq(S), NEW t \in Seq(S), NEW u \in Seq(S),
         IsPrefix(s, t), IsPrefix(t, u)
  PROVE  IsPrefix(s, u)
<1>1. Len(s) \in Nat /\ Len(t) \in Nat /\ Len(u) \in Nat
  BY LenProperties
<1>2. /\ Len(s) <= Len(t)
      /\ \A i \in 1 .. Len(s) : s[i] = t[i]
      /\ Len(t) <= Len(u)
      /\ \A i \in 1 .. Len(t) : t[i] = u[i]
  BY PrefixIs
<1>3. Len(s) <= Len(u) /\ \A i \in 1 .. Len(s) : s[i] = u[i]
  BY <1>1, <1>2
<1> QED
  BY <1>3, PrefixIs, Zenon

\* Of two beginnings of a journal, one is the beginning of the other.
LEMMA PrefixesOfOne ==
  ASSUME NEW S, NEW s \in Seq(S), NEW t \in Seq(S), NEW u \in Seq(S),
         IsPrefix(s, u), IsPrefix(t, u), Len(s) <= Len(t)
  PROVE  IsPrefix(s, t)
<1>1. Len(s) \in Nat /\ Len(t) \in Nat /\ Len(u) \in Nat
  BY LenProperties
<1>2. /\ \A i \in 1 .. Len(s) : s[i] = u[i]
      /\ \A i \in 1 .. Len(t) : t[i] = u[i]
  BY PrefixIs
<1>3. \A i \in 1 .. Len(s) : s[i] = t[i]
  BY <1>1, <1>2
<1> QED
  BY <1>3, PrefixIs, Zenon

\* Every journal begins with itself.
LEMMA PrefixOfItself ==
  ASSUME NEW S, NEW s \in Seq(S)
  PROVE  IsPrefix(s, s)
<1>1. Len(s) <= Len(s)
  BY LenProperties
<1> QED
  BY <1>1, PrefixIs, Zenon

\* Writers make the journals longer; only an editor does more.
Longer(a, b) ==
    /\ DOMAIN a \subseteq DOMAIN b
    /\ \A f \in DOMAIN a : IsPrefix(a[f], b[f])

\* Appending a chunk makes them longer.
LEMMA AppendIsLonger ==
  ASSUME IInv, NEW f \in Names, NEW c \in Chunks, Append_(f, c)
  PROVE  Longer(journals, journals') /\ bounds'.edits = bounds.edits /\ f \in DOMAIN journals'
         /\ journals'[f] = Append(Content(f), c)
<1>1. bounds'.edits = bounds.edits
  BY DEF IInv, TypeInv, Bounds, Append_
<1>2. PICK d \in Seq(Chunks) : d = Content(f)
  BY ContentIs DEF IInv
<1>3. journals' = With(journals, f, Append(d, c))
  BY <1>2, Zenon DEF Append_
<1>4. PICK x : x = journals'
  OBVIOUS
<1>5. /\ DOMAIN x = DOMAIN journals \cup {f} /\ x[f] = Append(d, c)
      /\ \A g \in DOMAIN journals : g # f => x[g] = journals[g]
  BY <1>3, <1>4, Zenon DEF With
<1>6. IsFiles(journals)
  BY FilesAre, Zenon DEF IInv, TypeInv
<1>7. IsPrefix(d, Append(d, c))
  <2>1. /\ Append(d, c) \in Seq(Chunks) /\ Len(d) <= Len(Append(d, c))
        /\ \A i \in 1 .. Len(d) : d[i] = Append(d, c)[i]
    BY AppendProperties, LenProperties
  <2> QED
    BY <2>1, PrefixIs, Zenon
<1>8. ASSUME NEW g \in DOMAIN journals PROVE IsPrefix(journals[g], x[g])
  <2>1. CASE g = f
    <3>1. journals[g] = d
      BY <1>2, <1>8, <2>1, Zenon DEF Content
    <3> QED
      BY <1>5, <1>7, <2>1, <3>1, Zenon
  <2>2. CASE g # f
    <3>1. PICK e \in Seq(Chunks) : e = journals[g]
      BY <1>6, <1>8, Zenon DEF IsFiles
    <3>2. x[g] = e
      BY <1>5, <1>8, <2>2, <3>1, Zenon
    <3>3. IsPrefix(e, e)
      BY PrefixOfItself, Zenon
    <3> QED
      BY <3>1, <3>2, <3>3, Zenon
  <2> QED
    BY <2>1, <2>2
<1> QED
  BY <1>1, <1>2, <1>4, <1>5, <1>8, Zenon DEF Longer

\* What a step of the writers does.
LEMMA Wrote ==
  ASSUME IInv, Writers
  PROVE  \/ Longer(journals, journals') /\ bounds'.edits = bounds.edits
         \/ Edit /\ bounds'.edits = bounds.edits + 1
<1>0. ASSUME NEW f, NEW r \in RecordsOf(f), NEW part \in {"line", "head", "tail"}
      PROVE  Chunk(part, r) \in Chunks
  <2>1. bounds.scenario \in Scenarios
    BY DEF IInv, TypeInv, Bounds
  <2>2. r \in Recs
    BY <2>1, RecordsAreKnown, Zenon
  <2> QED
    BY <2>2 DEF Chunk, Chunks
<1>1. ASSUME NEW f \in Names, NEW r \in RecordsOf(f), AppendRecord(f, r) \/ AppendTorn(f, r)
      PROVE  Longer(journals, journals') /\ bounds'.edits = bounds.edits
  <2>1. PICK c \in Chunks : Append_(f, c)
    BY <1>0, <1>1 DEF AppendRecord, AppendTorn
  <2> QED
    BY <2>1, AppendIsLonger
<1>2. ASSUME NEW f \in Names, CompleteTail(f)
      PROVE  Longer(journals, journals') /\ bounds'.edits = bounds.edits
  <2>1. PICK c \in Seq(Chunks) : c = Content(f) /\ c # <<>>
    BY <1>2, ContentIs DEF CompleteTail, IInv
  <2>2. Last(c) \in Chunks
    <3>1. Len(c) \in 1 .. Len(c)
      BY <2>1, EmptySeq, LenProperties
    <3> QED
      BY <3>1, LenProperties DEF Last
  <2>3. Chunk("tail", Last(c).record) \in Chunks
    BY <2>2 DEF Chunk, Chunks
  <2>4. Append_(f, Chunk("tail", Last(c).record))
    BY <1>2, <2>1, Zenon DEF CompleteTail
  <2> QED
    BY <2>3, <2>4, AppendIsLonger
<1>3. ASSUME Edit PROVE bounds'.edits = bounds.edits + 1
  BY <1>3 DEF Edit, IInv, TypeInv, Bounds
<1> QED
  BY <1>1, <1>2, <1>3, Zenon DEF Writers

-----------------------------------------------------------------------------
(* The journals of one moment.                                              *)

\* Editors that do not restore what they changed: one line is replaced at most.
FewEdits == \A s \in Scenarios : s.edits = 0 \/ (s.edits = 1 /\ s.kinds \subseteq {"replace"})

EditsInv == bounds.edits <= bounds.scenario.edits

\* What was read is still there, or it was changed in its place.
StillThere(a, b) == Len(a) <= Len(b) /\ (IsPrefix(a, b) \/ bounds.edits = 1)

\* What was read of a file was there when the plan was complete; if it had been
\* changed by then, the change is still there to be noticed.
Noticed(f) ==
    /\ Len(plan.snapshot[f]) <= Len(instant[f])
    /\ \/ IsPrefix(plan.snapshot[f], instant[f])
       \/ bounds.edits = 1 /\ IsPrefix(instant[f], journals[f])
    /\ plan.pc = "finish" /\ f \notin plan.todo => IsPrefix(plan.snapshot[f], instant[f])

MomentInv ==
    /\ EditsInv /\ instant \in FileMaps
    /\ plan.pc = "prepare" =>
         /\ plan.files \subseteq DOMAIN journals
         /\ \A f \in DOMAIN plan.snapshot : StillThere(plan.snapshot[f], journals[f])
    /\ plan.pc \in {"calls", "annotations", "inventory", "finish"} =>
         /\ plan.files \subseteq DOMAIN instant /\ DOMAIN instant \subseteq DOMAIN journals
         /\ \A f \in plan.files : Noticed(f)
    /\ plan.pc = "finish" => DOMAIN instant = plan.files

\* There is one change at most.
LEMMA EditsAre ==
  ASSUME IInv, FewEdits, EditsInv
  PROVE  bounds.edits = 0 \/ (bounds.edits = 1 /\ ~Edit)
<1>1. bounds.edits \in Nat /\ bounds.scenario \in Scenarios
  BY DEF IInv, TypeInv, Bounds
<1>2. bounds.scenario.edits = 0 \/ bounds.scenario.edits = 1
  BY <1>1, Zenon DEF FewEdits
<1>3. Edit => bounds.edits < bounds.scenario.edits
  BY DEF Edit
<1> QED
  BY <1>1, <1>2, <1>3 DEF EditsInv

\* A line is replaced.
LEMMA ReplacedIs ==
  ASSUME IInv, FewEdits, EditsInv, Edit
  PROVE  /\ DOMAIN journals' = DOMAIN journals /\ bounds.edits = 0 /\ bounds'.edits = 1
         /\ EditsInv'
         /\ \A f \in DOMAIN journals : Len(journals'[f]) = Len(journals[f])
<1>1. /\ bounds.edits \in Nat /\ bounds.scenario \in Scenarios
      /\ bounds.edits < bounds.scenario.edits
      /\ bounds'.edits = bounds.edits + 1 /\ bounds'.scenario = bounds.scenario
  BY DEF IInv, TypeInv, Bounds, Edit
<1>2. bounds.scenario.edits = 0 \/ (bounds.scenario.edits = 1 /\ bounds.scenario.kinds \subseteq {"replace"})
  BY <1>1, Zenon DEF FewEdits
<1>3. /\ bounds.scenario.edits = 1 /\ bounds.scenario.kinds \subseteq {"replace"}
      /\ bounds.edits = 0 /\ bounds'.edits = 1
  BY <1>1, <1>2
<1>4. PICK kind \in bounds.scenario.kinds, f \in DOMAIN journals : journals' \in Edited(f, kind)
  BY DEF Edit
<1>5. kind = "replace"
  BY <1>3, <1>4
<1>6. IsFiles(journals)
  BY FilesAre, Zenon DEF IInv, TypeInv
<1>7. PICK c \in Seq(Chunks) : c = journals[f]
  BY <1>4, <1>6, Zenon DEF IsFiles
<1>8. PICK k \in DOMAIN c, r \in RecordsOf(f) :
         journals' = [journals EXCEPT ![f] = [c EXCEPT ![k] = Chunk("line", r)]]
  <2>1. journals' \in {[journals EXCEPT ![f] = [@ EXCEPT ![j] = Chunk("line", record)]] :
                                j \in DOMAIN journals[f], record \in RecordsOf(f)}
    BY <1>4, <1>5 DEF Edited
  <2> QED
    BY <1>7, <2>1
<1>9. Len([c EXCEPT ![k] = Chunk("line", r)]) = Len(c)
  <2>1. c \in [1 .. Len(c) -> Chunks] /\ Len(c) \in Nat
    BY LenProperties
  <2>2. PICK n \in Nat : n = Len(c)
    BY <2>1
  <2>3. DOMAIN c = 1 .. n
    BY <2>1, <2>2
  <2> DEFINE T == Chunks \cup {Chunk("line", r)}
             d == [c EXCEPT ![k] = Chunk("line", r)]
  <2>4. d \in [1 .. n -> T]
    BY <2>1, <2>2, <2>3
  <2>5. d \in Seq(T)
    BY <2>4, IsASeq
  <2>6. Len(d) = n
    BY <2>4, <2>5, LenProperties
  <2> QED
    BY <2>2, <2>6
<1>10. PICK x : x = journals'
  OBVIOUS
<1>11. PICK d : d = [c EXCEPT ![k] = Chunk("line", r)]
  OBVIOUS
<1>12. x = [journals EXCEPT ![f] = d]
  BY <1>8, <1>10, <1>11
<1>13. DOMAIN x = DOMAIN journals /\ x[f] = d /\ \A g \in DOMAIN journals : g # f => x[g] = journals[g]
  BY <1>4, <1>12
<1>14. \A g \in DOMAIN journals : Len(x[g]) = Len(journals[g])
  BY <1>7, <1>9, <1>11, <1>13, Zenon
<1>15. EditsInv'
  BY <1>1, <1>3 DEF EditsInv
<1> QED
  BY <1>3, <1>10, <1>13, <1>14, <1>15

\* The types of what is compared.
LEMMA ComparedAre ==
  ASSUME IInv, instant \in FileMaps
  PROVE  /\ \A f \in DOMAIN journals : journals[f] \in Seq(Chunks)
         /\ \A f \in DOMAIN instant : instant[f] \in Seq(Chunks)
         /\ \A f \in DOMAIN plan.snapshot : plan.snapshot[f] \in Seq(Chunks)
         /\ bounds.edits \in Nat
<1>1. plan.snapshot \in FileMaps /\ bounds.edits \in Nat
  BY DEF IInv, TypeInv, Plans, Bounds
<1> QED
  BY <1>1, FilesAre, Zenon DEF IInv, TypeInv, IsFiles

\* At first nothing was read.
LEMMA InitIsOfOneMoment == Init => MomentInv
<1> SUFFICES ASSUME Init PROVE MomentInv
  OBVIOUS
<1>1. instant = NoFiles /\ plan.pc = "idle" /\ bounds.edits = 0 /\ bounds.scenario \in Scenarios
  BY DEF Init, Idle
<1>2. NoFiles \in FileMaps
  BY FilesAre, Zenon DEF IsFiles, NoFiles
<1>3. EditsInv
  BY <1>1, JournalIndexAssumption DEF EditsInv, Scenario
<1> QED
  BY <1>1, <1>2, <1>3 DEF MomentInv

\* A refresh that does not go on.
LEMMA IdleIsOfOneMoment ==
  ASSUME MomentInv, plan'.pc = "idle", UNCHANGED <<bounds, instant>>
  PROVE  MomentInv'
BY DEF MomentInv, EditsInv

\* Writers keep what was read, or a change is still to be noticed.
LEMMA WritersAtOneMoment ==
  ASSUME IInv, FewEdits, MomentInv, Writers
  PROVE  MomentInv'
<1>1. /\ plan' = plan /\ instant' = instant /\ bounds'.scenario = bounds.scenario
      /\ bounds.edits \in Nat /\ bounds.scenario \in Scenarios
  <2>1. plan' = plan
    BY WritersAreTyped DEF IInv, Untouched
  <2>2. instant' = instant
    BY DEF Writers, AppendRecord, AppendTorn, CompleteTail, Append_, Edit
  <2>3. bounds'.scenario = bounds.scenario
    BY DEF Writers, AppendRecord, AppendTorn, CompleteTail, Append_, Edit, IInv, TypeInv, Bounds
  <2> QED
    BY <2>1, <2>2, <2>3 DEF IInv, TypeInv, Bounds
<1>2. PICK b \in FileMaps : b = journals'
  BY WritersAreTyped DEF IInv
<1>3. \A f \in DOMAIN b : b[f] \in Seq(Chunks)
  BY FilesAre, Zenon DEF IsFiles
<1>4. /\ \A f \in DOMAIN journals : journals[f] \in Seq(Chunks)
      /\ \A f \in DOMAIN instant : instant[f] \in Seq(Chunks)
      /\ \A f \in DOMAIN plan.snapshot : plan.snapshot[f] \in Seq(Chunks)
  BY ComparedAre DEF MomentInv
<1>5. EditsInv /\ instant \in FileMaps
  BY DEF MomentInv
<1>6. /\ EditsInv' /\ DOMAIN journals \subseteq DOMAIN b
      /\ \A f \in DOMAIN journals :
           Len(journals[f]) <= Len(b[f]) /\ (IsPrefix(journals[f], b[f]) \/ bounds'.edits = 1)
      /\ \/ bounds'.edits = bounds.edits /\ \A f \in DOMAIN journals : IsPrefix(journals[f], b[f])
         \/ bounds.edits = 0 /\ bounds'.edits = 1
  <2>1. CASE Longer(journals, journals') /\ bounds'.edits = bounds.edits
    <3>1. EditsInv'
      BY <1>1, <1>5, <2>1, Zenon DEF EditsInv
    <3>2. DOMAIN journals \subseteq DOMAIN b /\ \A f \in DOMAIN journals : IsPrefix(journals[f], b[f])
      BY <1>2, <2>1, Zenon DEF Longer
    <3>3. \A f \in DOMAIN journals : Len(journals[f]) <= Len(b[f])
      BY <1>3, <1>4, <3>2, Zenon DEF IsPrefix
    <3> QED
      BY <2>1, <3>1, <3>2, <3>3, Zenon
  <2>2. CASE Edit
    <3>1. /\ DOMAIN b = DOMAIN journals /\ bounds.edits = 0 /\ bounds'.edits = 1
          /\ EditsInv' /\ \A f \in DOMAIN journals : Len(b[f]) = Len(journals[f])
      BY <1>2, <1>5, <2>2, ReplacedIs, Zenon
    <3>2. \A f \in DOMAIN journals : Len(journals[f]) <= Len(b[f])
      BY <1>4, <3>1, LenProperties
    <3> QED
      BY <3>1, <3>2, Zenon
  <2> QED
    BY <2>1, <2>2, Wrote
<1>7. ASSUME plan.pc = "prepare"
      PROVE  /\ plan.files \subseteq DOMAIN b
             /\ \A f \in DOMAIN plan.snapshot :
                  /\ Len(plan.snapshot[f]) <= Len(b[f])
                  /\ IsPrefix(plan.snapshot[f], b[f]) \/ bounds'.edits = 1
  <2>1. /\ plan.files \subseteq DOMAIN journals
        /\ \A f \in DOMAIN plan.snapshot :
             /\ Len(plan.snapshot[f]) <= Len(journals[f])
             /\ IsPrefix(plan.snapshot[f], journals[f]) \/ bounds.edits = 1
    BY <1>7, Zenon DEF MomentInv, StillThere
  <2>2. DOMAIN plan.snapshot \subseteq plan.files
    BY <1>7, Zenon DEF IInv, PreparingInv
  <2>3. ASSUME NEW f \in DOMAIN plan.snapshot
        PROVE  /\ Len(plan.snapshot[f]) <= Len(b[f])
               /\ IsPrefix(plan.snapshot[f], b[f]) \/ bounds'.edits = 1
    <3>1. f \in DOMAIN journals /\ f \in DOMAIN b
      BY <1>6, <2>1, <2>2, <2>3, Zenon
    <3>2. PICK s \in Seq(Chunks) : s = plan.snapshot[f]
      BY <1>4, <2>3
    <3>3. PICK t \in Seq(Chunks) : t = journals[f]
      BY <1>4, <3>1
    <3>4. PICK u \in Seq(Chunks) : u = b[f]
      BY <1>3, <3>1
    <3>5. Len(s) \in Nat /\ Len(t) \in Nat /\ Len(u) \in Nat /\ Len(s) <= Len(t) /\ Len(t) <= Len(u)
      BY <1>6, <2>1, <2>3, <3>1, <3>2, <3>3, <3>4, LenProperties
    <3>6. Len(s) <= Len(u)
      BY <3>5
    <3>7. IsPrefix(s, t) /\ IsPrefix(t, u) => IsPrefix(s, u)
      BY PrefixOfPrefix
    <3>8. IsPrefix(s, t) \/ bounds.edits = 1
      BY <2>1, <2>3, <3>2, <3>3, Zenon
    <3>9. IsPrefix(t, u) \/ bounds'.edits = 1
      BY <1>6, <3>1, <3>3, <3>4, Zenon
    <3>10. bounds.edits = 1 => bounds'.edits = 1
      BY <1>6
    <3> QED
      BY <3>2, <3>4, <3>6, <3>7, <3>8, <3>9, <3>10, Zenon
  <2> QED
    BY <1>6, <2>1, <2>3, Zenon
<1>8. ASSUME plan.pc \in {"calls", "annotations", "inventory", "finish"}
      PROVE  /\ plan.files \subseteq DOMAIN instant /\ DOMAIN instant \subseteq DOMAIN b
             /\ \A f \in plan.files :
                  /\ Len(plan.snapshot[f]) <= Len(instant[f])
                  /\ \/ IsPrefix(plan.snapshot[f], instant[f])
                     \/ bounds'.edits = 1 /\ IsPrefix(instant[f], b[f])
                  /\ plan.pc = "finish" /\ f \notin plan.todo => IsPrefix(plan.snapshot[f], instant[f])
  <2>1. /\ plan.files \subseteq DOMAIN instant /\ DOMAIN instant \subseteq DOMAIN journals
        /\ \A f \in plan.files :
             /\ Len(plan.snapshot[f]) <= Len(instant[f])
             /\ \/ IsPrefix(plan.snapshot[f], instant[f])
                \/ bounds.edits = 1 /\ IsPrefix(instant[f], journals[f])
             /\ plan.pc = "finish" /\ f \notin plan.todo => IsPrefix(plan.snapshot[f], instant[f])
    BY <1>8, Zenon DEF MomentInv, Noticed
  <2>2. ASSUME NEW f \in plan.files, bounds.edits = 1, IsPrefix(instant[f], journals[f])
        PROVE  bounds'.edits = 1 /\ IsPrefix(instant[f], b[f])
    <3>1. f \in DOMAIN instant /\ f \in DOMAIN journals /\ f \in DOMAIN b
      BY <1>6, <2>1, <2>2, Zenon
    <3>2. PICK s \in Seq(Chunks) : s = instant[f]
      BY <1>4, <3>1
    <3>3. PICK t \in Seq(Chunks) : t = journals[f]
      BY <1>4, <3>1
    <3>4. PICK u \in Seq(Chunks) : u = b[f]
      BY <1>3, <3>1
    <3>5. bounds'.edits = 1 /\ IsPrefix(t, u)
      BY <1>6, <2>2, <3>1, <3>3, <3>4
    <3>6. IsPrefix(s, t)
      BY <2>2, <3>2, <3>3
    <3>7. IsPrefix(s, u)
      BY <3>5, <3>6, PrefixOfPrefix
    <3> QED
      BY <3>2, <3>4, <3>5, <3>7
  <2> QED
    BY <1>6, <2>1, <2>2, Zenon
<1>9. plan.pc = "finish" => DOMAIN instant = plan.files
  BY DEF MomentInv
<1> QED
  BY <1>1, <1>2, <1>5, <1>6, <1>7, <1>8, <1>9, Zenon DEF MomentInv, StillThere, Noticed

\* The steps of a refresh that leave the journals, and what is compared, alone.
LEMMA RefreshAtOneMoment ==
  ASSUME IInv, MomentInv, UNCHANGED <<journals, bounds, instant>>,
         plan.pc \in {"calls", "annotations", "inventory"},
         plan'.pc \in {"calls", "annotations", "inventory"},
         plan'.files = plan.files, plan'.snapshot = plan.snapshot
  PROVE  MomentInv'
<1>1. plan.pc # "finish" /\ plan'.pc # "finish" /\ plan'.pc # "prepare"
  OBVIOUS
<1>2. journals' = journals /\ bounds' = bounds /\ instant' = instant
  OBVIOUS
<1>3. EditsInv' /\ instant' \in FileMaps
  BY <1>2 DEF MomentInv, EditsInv
<1>4. /\ plan.files \subseteq DOMAIN instant /\ DOMAIN instant \subseteq DOMAIN journals
      /\ \A f \in plan.files : Noticed(f)
  BY Zenon DEF MomentInv
<1>5. \A f \in plan'.files : Noticed(f)'
  BY <1>1, <1>2, <1>4, Zenon DEF Noticed
<1> QED
  BY <1>1, <1>2, <1>3, <1>4, <1>5, Zenon DEF MomentInv

\* What is read now is there.
LEMMA PrepareAtOneMoment ==
  ASSUME IInv, MomentInv, Prepare
  PROVE  MomentInv'
<1>1. plan \in Plans /\ plan.pc = "prepare" /\ plan.todo # {} /\ plan.todo \in SUBSET Names
  BY DEF Prepare, IInv, TypeInv, Plans
<1>2. PICK f : f = First(plan.todo)
  OBVIOUS
<1>3. f \in plan.todo
  BY <1>1, <1>2, FirstIs
<1>4. CASE f \notin DOMAIN journals
  <2>1. plan'.pc = "idle" /\ UNCHANGED <<bounds, instant>>
    BY <1>2, <1>4 DEF Prepare, Rollback, Idle
  <2> QED
    BY <2>1, IdleIsOfOneMoment
<1>5. CASE f \in DOMAIN journals
  <2> DEFINE checked == f \in DOMAIN plan.prior
             matches == checked /\ Begins(f, plan.prior[f].digest)
             offset == IF matches THEN plan.prior[f].offset ELSE 0
             mode == IF checked /\ ~matches THEN "rebuild" ELSE plan.mode
  <2>1. /\ plan' = [plan EXCEPT !.todo = @ \ {f}, !.snapshot = With(@, f, journals[f]),
                                !.offset = With(@, f, offset), !.mode = mode]
        /\ UNCHANGED <<journals, bounds, instant>>
    BY <1>2, <1>5, Zenon DEF Prepare, Step
  <2> HIDE DEF offset, mode
  <2>2. PICK s : s = With(plan.snapshot, f, journals[f])
    OBVIOUS
  <2>3. plan'.pc = "prepare" /\ plan'.files = plan.files /\ plan'.snapshot = s
    <3>1. plan' = [plan EXCEPT !.todo = @ \ {f}, !.snapshot = s,
                                !.offset = With(@, f, offset), !.mode = mode]
      BY <2>1, <2>2
    <3> QED
      BY <1>1, <3>1 DEF Plans
  <2>4. /\ DOMAIN s = DOMAIN plan.snapshot \cup {f} /\ s[f] = journals[f]
        /\ \A g \in DOMAIN plan.snapshot : g # f => s[g] = plan.snapshot[g]
    BY <2>2, Zenon DEF With
  <2>5. /\ plan.files \subseteq DOMAIN journals
        /\ \A g \in DOMAIN plan.snapshot : StillThere(plan.snapshot[g], journals[g])
    BY <1>1, Zenon DEF MomentInv
  <2>6. StillThere(journals[f], journals[f])
    <3>1. PICK c \in Seq(Chunks) : c = journals[f]
      BY <1>5, ComparedAre DEF MomentInv
    <3>2. IsPrefix(c, c) /\ Len(c) <= Len(c)
      BY PrefixOfItself, LenProperties
    <3> QED
      BY <3>1, <3>2, Zenon DEF StillThere
  <2>7. \A g \in DOMAIN s : StillThere(s[g], journals[g])
    BY <2>4, <2>5, <2>6, Zenon
  <2>8. EditsInv' /\ instant' \in FileMaps
    BY <2>1 DEF MomentInv, EditsInv
  <2>9. plan'.pc \notin {"calls", "annotations", "inventory", "finish"} /\ plan'.pc # "finish"
    BY <2>3
  <2>10. journals' = journals /\ bounds' = bounds
    BY <2>1
  <2> QED
    BY <2>3, <2>5, <2>7, <2>8, <2>9, <2>10, Zenon DEF MomentInv, StillThere
<1> QED
  BY <1>4, <1>5

\* The last checks notice the change, if there was one.
LEMMA RefreshKeepsMoment ==
  ASSUME IInv, FewEdits, MomentInv, Refresh
  PROVE  MomentInv'
<1>0. plan \in Plans
  BY DEF IInv, TypeInv
<1>1. ASSUME NEW rebuilding \in BOOLEAN, Begin(rebuilding) PROVE MomentInv'
  <2>1. /\ journals' = journals /\ instant' = instant /\ bounds'.edits = bounds.edits
        /\ bounds'.scenario = bounds.scenario
    BY <1>1 DEF Begin, IInv, TypeInv, Bounds
  <2>2. plan'.pc = "prepare" /\ plan'.files = DOMAIN journals /\ plan'.snapshot = NoFiles
    BY <1>1 DEF Begin, Idle
  <2>3. EditsInv' /\ instant' \in FileMaps
    BY <2>1, Zenon DEF MomentInv, EditsInv
  <2>4. DOMAIN NoFiles = {}
    BY DEF NoFiles
  <2>5. plan'.pc \notin {"calls", "annotations", "inventory", "finish"} /\ plan'.pc # "finish"
    BY <2>2
  <2> QED
    BY <2>1, <2>2, <2>3, <2>4, <2>5, Zenon DEF MomentInv
<1>2. CASE Prepare
  BY <1>2, PrepareAtOneMoment
<1>3. CASE Decide
  <2>1. /\ journals' = journals /\ instant' = journals /\ bounds' = bounds
        /\ plan'.pc = "calls" /\ plan'.files = plan.files /\ plan'.snapshot = plan.snapshot
    BY <1>0, <1>3 DEF Decide, Step, Plans
  <2>2. plan.pc = "prepare" /\ plan.todo = {}
    BY <1>3 DEF Decide
  <2>3. DOMAIN plan.snapshot = plan.files
    BY <2>2, Prepared
  <2>4. /\ plan.files \subseteq DOMAIN journals
        /\ \A f \in plan.files : /\ Len(plan.snapshot[f]) <= Len(journals[f])
                                 /\ IsPrefix(plan.snapshot[f], journals[f]) \/ bounds.edits = 1
    BY <2>2, <2>3, Zenon DEF MomentInv, StillThere
  <2>5. \A f \in plan.files : IsPrefix(journals[f], journals[f])
    <3> TAKE f \in plan.files
    <3>1. PICK c \in Seq(Chunks) : c = journals[f]
      BY <2>4, ComparedAre DEF MomentInv
    <3>2. IsPrefix(c, c)
      BY PrefixOfItself
    <3> QED
      BY <3>1, <3>2
  <2>6. plan'.pc # "finish" /\ plan'.pc # "prepare"
    BY <2>1
  <2>7. \A f \in plan'.files : Noticed(f)'
    BY <2>1, <2>4, <2>5, <2>6, Zenon DEF Noticed
  <2>8. EditsInv' /\ instant' \in FileMaps
    BY <2>1 DEF MomentInv, EditsInv, IInv, TypeInv
  <2> QED
    BY <2>1, <2>4, <2>6, <2>7, <2>8, Zenon DEF MomentInv
<1>4. CASE Visit
  <2>1. plan.pc \in {"calls", "annotations"}
    BY <1>4 DEF Visit
  <2>2. CASE plan'.pc = "idle"
    <3>1. UNCHANGED <<bounds, instant>>
      BY <1>4, Zenon DEF Visit, Step, Rollback
    <3> QED
      BY <2>2, <3>1, IdleIsOfOneMoment
  <2>3. CASE plan'.pc # "idle"
    <3>1. plan' # Idle
      BY <2>3 DEF Idle
    <3>2. PICK f : f = First(plan.todo)
      OBVIOUS
    <3>3. PICK changed : /\ plan' = [plan EXCEPT !.todo = @ \ {f}, !.changed = changed]
                         /\ UNCHANGED <<journals, bounds, instant>>
      <4> DEFINE some == plan.changed \cup {plan.pc}
      <4>1. UNCHANGED <<journals, bounds, instant>>
        BY <1>4, <3>1, Zenon DEF Visit, Step, Rollback
      <4>2. \/ plan' = [plan EXCEPT !.todo = @ \ {f}]
            \/ plan' = [plan EXCEPT !.todo = @ \ {f}, !.changed = @]
            \/ plan' = [plan EXCEPT !.todo = @ \ {f}, !.changed = @ \cup {plan.pc}]
        BY <1>4, <3>1, <3>2, Zenon DEF Visit, Step, Rollback
      <4>3. \/ plan' = [plan EXCEPT !.todo = @ \ {f}, !.changed = plan.changed]
            \/ plan' = [plan EXCEPT !.todo = @ \ {f}, !.changed = some]
        BY <1>0, <4>2 DEF Plans
      <4> HIDE DEF some
      <4> QED
        BY <4>1, <4>3
    <3>4. plan'.pc = plan.pc /\ plan'.files = plan.files /\ plan'.snapshot = plan.snapshot
      BY <1>0, <3>3 DEF Plans
    <3> QED
      BY <2>1, <3>3, <3>4, RefreshAtOneMoment
  <2> QED
    BY <2>2, <2>3
<1>5. CASE Correlate
  <2>1. /\ UNCHANGED <<journals, bounds, instant>>
        /\ plan.pc = "calls" /\ plan'.pc = "annotations"
        /\ plan'.files = plan.files /\ plan'.snapshot = plan.snapshot
    BY <1>0, <1>5 DEF Correlate, Step, Plans
  <2> QED
    BY <2>1, RefreshAtOneMoment
<1>6. CASE Relink
  <2>1. /\ UNCHANGED <<journals, bounds, instant>>
        /\ plan.pc = "annotations" /\ plan'.pc = "inventory"
        /\ plan'.files = plan.files /\ plan'.snapshot = plan.snapshot
    BY <1>0, <1>6 DEF Relink, Step, Plans
  <2> QED
    BY <2>1, RefreshAtOneMoment
<1>7. CASE Inventory
  <2>1. CASE DOMAIN journals # plan.files
    <3>1. plan'.pc = "idle" /\ UNCHANGED <<bounds, instant>>
      BY <1>7, <2>1 DEF Inventory, Rollback, Idle
    <3> QED
      BY <3>1, IdleIsOfOneMoment
  <2>2. CASE DOMAIN journals = plan.files
    <3>1. /\ journals' = journals /\ bounds' = bounds /\ instant' = instant
          /\ plan.pc = "inventory" /\ plan'.pc = "finish" /\ plan'.todo = plan.files
          /\ plan'.files = plan.files /\ plan'.snapshot = plan.snapshot
      BY <1>0, <1>7, <2>2 DEF Inventory, Step, Plans
    <3>2. /\ plan.files \subseteq DOMAIN instant /\ DOMAIN instant \subseteq DOMAIN journals
          /\ \A f \in plan.files : Noticed(f)
      BY <3>1, Zenon DEF MomentInv
    <3>3. DOMAIN instant = plan.files
      BY <2>2, <3>2
    <3>4. \A f \in plan'.files : Noticed(f)'
      BY <3>1, <3>2, Zenon DEF Noticed
    <3>5. EditsInv' /\ instant' \in FileMaps
      BY <3>1 DEF MomentInv, EditsInv
    <3>6. plan'.pc # "prepare"
      BY <3>1
    <3> QED
      BY <3>1, <3>2, <3>3, <3>4, <3>5, <3>6, Zenon DEF MomentInv
  <2> QED
    BY <2>1, <2>2
<1>8. CASE FinishFile
  <2>1. PICK f : f = First(plan.todo)
    OBVIOUS
  <2>2. CASE ~StillBegins(f)
    <3>1. plan'.pc = "idle" /\ UNCHANGED <<bounds, instant>>
      BY <1>8, <2>1, <2>2 DEF FinishFile, Rollback, Idle
    <3> QED
      BY <3>1, IdleIsOfOneMoment
  <2>3. CASE StillBegins(f)
    <3>1. /\ journals' = journals /\ bounds' = bounds /\ instant' = instant
          /\ plan.pc = "finish" /\ plan'.pc = "finish" /\ plan'.todo = plan.todo \ {f}
          /\ plan'.files = plan.files /\ plan'.snapshot = plan.snapshot
      BY <1>0, <1>8, <2>1, <2>3 DEF FinishFile, Step, Plans
    <3>2. /\ plan.files \subseteq DOMAIN instant /\ DOMAIN instant \subseteq DOMAIN journals
          /\ DOMAIN instant = plan.files /\ \A g \in plan.files : Noticed(g)
      BY <3>1, Zenon DEF MomentInv
    <3>3. ASSUME f \in plan.files PROVE IsPrefix(plan.snapshot[f], instant[f])
      <4>1. f \in DOMAIN journals /\ IsPrefix(plan.snapshot[f], journals[f])
        BY <2>3, Zenon DEF StillBegins, Begins
      <4>2. f \in DOMAIN instant /\ f \in DOMAIN plan.snapshot
        <5>1. DOMAIN plan.snapshot = plan.files
          BY <3>1, Zenon DEF IInv, WorkingInv, Ready
        <5> QED
          BY <3>2, <3>3, <5>1, Zenon
      <4>3. PICK s \in Seq(Chunks) : s = plan.snapshot[f]
        BY <4>2, ComparedAre DEF MomentInv
      <4>4. PICK t \in Seq(Chunks) : t = instant[f]
        BY <4>2, ComparedAre DEF MomentInv
      <4>5. PICK u \in Seq(Chunks) : u = journals[f]
        BY <4>1, ComparedAre DEF MomentInv
      <4>6. Len(s) <= Len(t) /\ (IsPrefix(s, t) \/ IsPrefix(t, u))
        BY <3>2, <3>3, <4>3, <4>4, <4>5, Zenon DEF Noticed
      <4>7. IsPrefix(s, u)
        BY <4>1, <4>3, <4>5, Zenon
      <4>8. IsPrefix(t, u) => IsPrefix(s, t)
        BY <4>6, <4>7, PrefixesOfOne
      <4> QED
        BY <4>3, <4>4, <4>6, <4>8, Zenon
    <3>4. \A g \in plan'.files : Noticed(g)'
      BY <3>1, <3>2, <3>3, Zenon DEF Noticed
    <3>5. EditsInv' /\ instant' \in FileMaps
      BY <3>1 DEF MomentInv, EditsInv
    <3>6. plan'.pc # "prepare"
      BY <3>1
    <3> QED
      BY <3>1, <3>2, <3>4, <3>5, <3>6, Zenon DEF MomentInv
  <2> QED
    BY <2>2, <2>3
<1>9. CASE Commit
  <2>1. plan'.pc = "idle" /\ UNCHANGED <<bounds, instant>>
    BY <1>9 DEF Commit, Idle
  <2> QED
    BY <2>1, IdleIsOfOneMoment
<1> QED
  BY <1>1, <1>2, <1>3, <1>4, <1>5, <1>6, <1>7, <1>8, <1>9 DEF Refresh

\* Every step keeps it.
LEMMA NextKeepsMoment ==
  ASSUME IInv, FewEdits, MomentInv, [Next]_vars
  PROVE  MomentInv'
<1>1. CASE Refresh
  BY <1>1, RefreshKeepsMoment
<1>2. CASE Die
  <2>1. plan'.pc = "idle" /\ UNCHANGED <<bounds, instant>>
    BY <1>2 DEF Die, Rollback, Idle
  <2> QED
    BY <2>1, IdleIsOfOneMoment
<1>3. CASE Writers
  BY <1>3, WritersAtOneMoment
<1>4. CASE UNCHANGED vars
  <2>1. plan' = plan /\ journals' = journals /\ bounds' = bounds /\ instant' = instant
    BY <1>4 DEF vars
  <2> QED
    BY <2>1, Zenon DEF MomentInv, EditsInv, Noticed, StillThere
<1> QED
  BY <1>1, <1>2, <1>3, <1>4 DEF Next

\* At the end all files were checked.
LEMMA CommitIsOfOneMoment ==
  ASSUME IInv, MomentInv, Commit
  PROVE  /\ DOMAIN instant = plan.files
         /\ \A f \in plan.files : IsPrefix(plan.snapshot[f], instant[f])
<1>1. plan.pc = "finish" /\ plan.todo = {}
  BY DEF Commit
<1>2. DOMAIN instant = plan.files /\ \A f \in plan.files : Noticed(f)
  BY <1>1, Zenon DEF MomentInv
<1> QED
  BY <1>1, <1>2, Zenon DEF Noticed

\* Reading the journals one after the other while recorders append to them, a
\* refresh commits what all of them began with at one moment, the end of prepare;
\* a line replaced meanwhile is noticed by the last checks (journal.rs, finish).
\* Editors that also restore what they changed are beyond these checks.
THEOREM CommitsOneMoment == ASSUME FewEdits PROVE Spec => OneMoment
<1>1. Init => MomentInv
  BY InitIsOfOneMoment
<1>2. IInv /\ MomentInv /\ [Next]_vars => MomentInv'
  BY NextKeepsMoment
<1>3. IInv /\ MomentInv /\ [Next]_vars
        => [Commit => /\ DOMAIN instant = plan.files
                      /\ \A f \in plan.files : IsPrefix(plan.snapshot[f], instant[f])]_vars
  BY CommitIsOfOneMoment
<1> QED
  BY IndexIsThatOfWhatWasRead, <1>1, <1>2, <1>3, PTL DEF Spec, OneMoment

-----------------------------------------------------------------------------
(* The annotations of calls that were recorded before.                      *)

\* A line of a journal that can be read is one of its records.
LEMMA LinesHold ==
  ASSUME NEW c \in Seq(Chunks), Lines(c).verdict = "fine",
         NEW k \in 1 .. Len(c), c[k].part = "line"
  PROVE  c[k].record \in ToSet(Lines(c).records)
<1> DEFINE Good(d) == Lines(d).verdict = "fine" =>
                        \A i \in 1 .. Len(d) :
                          d[i].part = "line" => d[i].record \in ToSet(Lines(d).records)
           T == {d \in Seq(Chunks) : Good(d)}
<1>1. <<>> \in T
  <2>1. 1 .. Len(<<>>) = {} /\ <<>> \in Seq(Chunks)
    BY EmptySeq
  <2> QED
    BY <2>1, Zenon
<1>2. ASSUME NEW d \in Seq(Chunks), NEW x \in Chunks, d \in T PROVE Append(d, x) \in T
  <2>1. PICK r \in Reading : r = Lines(d)
    BY LinesAre
  <2>2. PICK e \in Seq(Chunks) : /\ e = Append(d, x) /\ Len(e) = Len(d) + 1 /\ e[Len(d) + 1] = x
                                 /\ \A i \in 1 .. Len(d) : e[i] = d[i]
    <3>1. /\ Append(d, x) \in Seq(Chunks) /\ Len(Append(d, x)) = Len(d) + 1
          /\ Append(d, x)[Len(d) + 1] = x
          /\ \A i \in 1 .. Len(d) : Append(d, x)[i] = d[i]
      BY AppendProperties
    <3> QED
      BY <3>1, Zenon
  <2>3. Lines(e) = ReadChunk(r, x)
    BY <2>1, <2>2, LinesAppend
  <2>4. r.records \in Seq(Recs) /\ x.record \in Recs /\ r.verdict \in {"fine", "malformed"}
    BY DEF Reading, Chunks
  <2>5. ASSUME Lines(e).verdict = "fine"
        PROVE  /\ r.verdict = "fine"
               /\ x.part = "line" => Lines(e).records = Append(r.records, x.record)
               /\ Lines(e).records = r.records \/ Lines(e).records = Append(r.records, x.record)
    BY <2>3, <2>4, <2>5 DEF ReadChunk
  <2>6. ToSet(Append(r.records, x.record)) = ToSet(r.records) \cup {x.record}
    BY <2>4, ElementsOfAppend
  <2>7. ASSUME Lines(e).verdict = "fine", NEW i \in 1 .. Len(e), e[i].part = "line"
        PROVE  e[i].record \in ToSet(Lines(e).records)
    <3>1. i \in 1 .. Len(d) \/ i = Len(d) + 1
      BY <2>2, LenProperties
    <3>2. CASE i \in 1 .. Len(d)
      <4>1. d[i].part = "line" /\ d[i] = e[i]
        BY <2>2, <2>7, <3>2, Zenon
      <4>2. d[i].record \in ToSet(r.records)
        BY <1>2, <2>1, <2>5, <2>7, <3>2, <4>1, Zenon
      <4> QED
        BY <2>5, <2>6, <2>7, <4>1, <4>2, Zenon
    <3>3. CASE i = Len(d) + 1
      BY <2>2, <2>5, <2>6, <2>7, <3>3, Zenon
    <3> QED
      BY <3>1, <3>2, <3>3
  <2>8. Good(e)
    BY <2>7, Zenon
  <2> HIDE DEF Good
  <2> QED
    BY <2>2, <2>8, Zenon
<1> HIDE DEF T
<1>3. c \in T
  BY <1>1, <1>2, InductionOnSeq
<1> QED
  BY <1>3, Zenon DEF T

\* An event that was recorded is one call of the index.
LEMMA TargetOfKnown ==
  ASSUME NEW index \in Indexes, NEW records \in Seq(Recs), CallsOf(index, records),
         NEW y \in ToSet(records), y.event # 0, NEW x, x.event = y.event
  PROVE  Target(index.calls, x) # 0
<1>1. PICK calls \in Seq(Recs) : calls = index.calls
  BY DEF Indexes
<1>2. y \in Identified(calls)
  BY <1>1, Zenon DEF CallsOf, Identified
<1>3. PICK i \in DOMAIN calls : calls[i] = y
  BY <1>2, Zenon DEF Identified, ToSet
<1>4. Kept(calls, records)
  BY <1>1, Zenon DEF CallsOf
<1>5. PICK o \in [1 .. Cardinality(Firsts(records)) -> Firsts(records)] :
        /\ \A a, b \in DOMAIN o : a < b => o[a] < o[b]
        /\ calls = [k \in DOMAIN o |-> records[o[k]]]
  BY <1>4, Zenon DEF Kept
<1>6. PICK n \in Nat : n = Cardinality(Firsts(records)) /\ DOMAIN o = 1 .. n /\ DOMAIN calls = 1 .. n
  BY <1>5, FirstsAreFinite
<1>7. ASSUME NEW a \in 1 .. n, NEW b \in 1 .. n, a < b, calls[a].event = calls[b].event,
             calls[b].event # 0
      PROVE  FALSE
  <2>1. o[a] \in Firsts(records) /\ o[b] \in Firsts(records) /\ o[a] < o[b]
    BY <1>5, <1>6, <1>7
  <2>2. o[a] \in 1 .. Len(records) /\ o[b] \in 1 .. Len(records)
    BY <2>1, FirstsAreFinite
  <2>3. o[a] \in 1 .. o[b] - 1
    BY <2>1, <2>2
  <2>4. calls[a] = records[o[a]] /\ calls[b] = records[o[b]]
    BY <1>5, <1>6, Zenon
  <2>5. records[o[b]].event # 0 => \A j \in 1 .. o[b] - 1 : records[j].event # records[o[b]].event
    BY <2>1, Zenon DEF Firsts
  <2> QED
    BY <1>7, <2>3, <2>4, <2>5, Zenon
<1> DEFINE hits == {j \in DOMAIN calls :
                      IF x.event # 0 THEN calls[j].event = x.event
                      ELSE calls[j].session = x.session /\ calls[j].seq = x.seq}
<1>8. Target(calls, x) = IF Cardinality(hits) = 1 THEN CHOOSE j \in hits : TRUE ELSE 0
  BY Zenon DEF Target
<1>9. hits = {j \in DOMAIN calls : calls[j].event = y.event}
  BY Zenon
<1>10. hits = {i}
  <2>1. \A j \in DOMAIN calls : calls[j].event = y.event => j = i
    <3> SUFFICES ASSUME NEW j \in 1 .. n, calls[j].event = y.event PROVE j = i
      BY <1>6
    <3>1. j < i \/ i < j \/ i = j
      BY <1>6
    <3>2. i \in 1 .. n
      BY <1>6
    <3> QED
      BY <1>3, <1>7, <3>1, <3>2, Zenon
  <2> QED
    BY <1>3, <1>9, <2>1, Zenon
<1> HIDE DEF hits
<1>11. Cardinality(hits) = 1
  BY <1>10, FS_Singleton
<1>12. Target(calls, x) = i
  BY <1>8, <1>10, <1>11
<1>13. i # 0
  BY <1>6
<1> QED
  BY <1>1, <1>12, <1>13

\* A line of a call, of the event that an annotation names.
CallAt(g, k, event) ==
    /\ g \in DOMAIN journals /\ k \in 1 .. Len(journals[g]) /\ KindOf(g) = "calls"
    /\ journals[g][k].part = "line" /\ journals[g][k].record.event = event

Within(files, g, k) == g \in DOMAIN files /\ k <= Len(files[g])

\* Where the note is read, so is the call; the snapshot gets there in time.
CallIsRead(note, g, k) ==
    /\ Within(plan.snapshot, note.file, note.position) =>
         \/ Within(plan.snapshot, g, k)
         \/ plan.pc = "prepare" /\ g \in plan.todo
         \/ plan.pc # "finish" /\ g \notin plan.files
    /\ Within(basis, note.file, note.position) => Within(basis, g, k)

NoteIsKnown(note) ==
    /\ note.file \in DOMAIN journals /\ KindOf(note.file) = "annotations"
    /\ note.position \in 1 .. Len(journals[note.file])
    /\ LET event == journals[note.file][note.position].record.event
       IN  event # 0 /\ \E g \in Names, k \in Nat : CallAt(g, k, event) /\ CallIsRead(note, g, k)

InOrder == plan.pc = "prepare" => \A f \in DOMAIN plan.snapshot, g \in plan.todo : f < g

BasisInv == db.version = "current" \/ DOMAIN basis = {}

KnownInv ==
    /\ InOrder /\ BasisInv
    /\ bounds.edits = 0 =>
         /\ Longer(basis, journals) /\ Longer(plan.snapshot, journals)
         /\ \A note \in known : NoteIsKnown(note)

\* What is committed links them.
LEMMA KnownIsLinked == IInv /\ KnownInv => KnownCallsLinked
<1> SUFFICES ASSUME IInv, KnownInv, bounds.edits = 0, NEW note \in known,
                    note.file \in DOMAIN basis, note.position <= Len(basis[note.file]),
                    NEW j \in DOMAIN db.annotations,
                    db.annotations[j].record = basis[note.file][note.position].record
             PROVE  db.annotations[j].call # 0
  BY Zenon DEF KnownCallsLinked
<1>1. /\ IsFiles(basis) /\ IsFiles(journals) /\ db \in Indexes
  BY FilesAre, Zenon DEF IInv, TypeInv
<1>2. db.version = "current"
  BY Zenon DEF KnownInv, BasisInv
<1>3. Derived(db, basis) /\ Linked(db.annotations, db.calls)
  BY <1>2, Zenon DEF IInv, CommittedInv
<1>4. Longer(basis, journals) /\ NoteIsKnown(note)
  BY Zenon DEF KnownInv
<1>5. PICK event : event = journals[note.file][note.position].record.event
  OBVIOUS
<1>6. PICK g \in Names, k \in Nat : CallAt(g, k, event) /\ CallIsRead(note, g, k)
  BY <1>4, <1>5, Zenon DEF NoteIsKnown
<1>7. event # 0 /\ note.position \in 1 .. Len(journals[note.file])
  BY <1>4, <1>5, Zenon DEF NoteIsKnown
<1>8. g \in DOMAIN basis /\ k <= Len(basis[g])
  BY <1>6, Zenon DEF CallIsRead, Within
<1>9. ASSUME NEW f \in DOMAIN basis, NEW i \in Nat, i >= 1, i <= Len(basis[f])
      PROVE  basis[f][i] = journals[f][i] /\ i \in 1 .. Len(basis[f])
  <2>1. PICK s \in Seq(Chunks) : s = basis[f]
    BY <1>1, <1>9, Zenon DEF IsFiles
  <2>2. f \in DOMAIN journals /\ IsPrefix(basis[f], journals[f])
    BY <1>4, <1>9, Zenon DEF Longer
  <2>3. PICK t \in Seq(Chunks) : t = journals[f]
    BY <1>1, <2>2, Zenon DEF IsFiles
  <2>4. IsPrefix(s, t)
    BY <2>1, <2>2, <2>3
  <2>5. \A m \in 1 .. Len(s) : s[m] = t[m]
    BY <2>4, PrefixIs
  <2>6. i \in 1 .. Len(s)
    BY <1>9, <2>1, LenProperties
  <2> QED
    BY <2>1, <2>3, <2>5, <2>6, Zenon
<1>10. basis[note.file][note.position].record.event = event
  <2>1. note.position \in Nat /\ note.position >= 1
    BY <1>7
  <2> QED
    BY <1>5, <1>9, <2>1, Zenon
<1>11. PICK c \in Seq(Chunks) : c = basis[g]
  BY <1>1, <1>8, Zenon DEF IsFiles
<1>12. k \in 1 .. Len(c) /\ c[k].part = "line" /\ c[k].record.event = event
  <2>1. k \in Nat /\ k >= 1 /\ journals[g][k].part = "line" /\ journals[g][k].record.event = event
    BY <1>6 DEF CallAt
  <2> QED
    BY <1>8, <1>9, <1>11, <2>1, Zenon
<1>13. Lines(c).verdict = "fine"
  BY <1>3, <1>8, <1>11, Zenon DEF Derived
<1>14. PICK y : y = c[k].record /\ y \in ToSet(Lines(c).records)
  BY <1>12, <1>13, LinesHold
<1>15. PICK records \in Seq(Recs) : records = Journal(basis, "calls")
  BY <1>1, JournalIs
<1>16. y \in ToSet(records)
  <2>1. KindOf(g) = "calls"
    BY <1>6, Zenon DEF CallAt
  <2>2. \A x : x \in ToSet(Journal(basis, "calls")) <=>
                  \E f \in DOMAIN basis : KindOf(f) = "calls" /\ x \in ToSet(Lines(basis[f]).records)
    BY <1>1, JournalIs
  <2> QED
    BY <1>8, <1>11, <1>14, <1>15, <2>1, <2>2, Zenon
<1>17. CallsOf(db, records)
  BY <1>3, <1>15, Zenon DEF Derived
<1>18. PICK x : x = db.annotations[j].record
  OBVIOUS
<1>19. y.event # 0 /\ x.event = y.event
  BY <1>7, <1>10, <1>12, <1>14, <1>18, Zenon
<1>20. Target(db.calls, x) # 0
  BY <1>1, <1>16, <1>17, <1>19, TargetOfKnown
<1> QED
  BY <1>3, <1>18, <1>20, Zenon DEF Linked

\* Growing twice is growing.
LEMMA LongerThanLonger ==
  ASSUME NEW a, IsFiles(a), NEW b, IsFiles(b), NEW c, IsFiles(c), Longer(a, b), Longer(b, c)
  PROVE  Longer(a, c)
<1>1. DOMAIN a \subseteq DOMAIN b /\ DOMAIN b \subseteq DOMAIN c
  BY Zenon DEF Longer
<1>2. ASSUME NEW f \in DOMAIN a PROVE IsPrefix(a[f], c[f])
  <2>1. f \in DOMAIN b /\ f \in DOMAIN c
    BY <1>1, <1>2
  <2>2. PICK s \in Seq(Chunks) : s = a[f]
    BY <1>2, Zenon DEF IsFiles
  <2>3. PICK t \in Seq(Chunks) : t = b[f]
    BY <2>1, Zenon DEF IsFiles
  <2>4. PICK u \in Seq(Chunks) : u = c[f]
    BY <2>1, Zenon DEF IsFiles
  <2>5. IsPrefix(s, t) /\ IsPrefix(t, u)
    BY <1>2, <2>1, <2>2, <2>3, <2>4, Zenon DEF Longer
  <2>6. IsPrefix(s, u)
    BY <2>5, PrefixOfPrefix
  <2> QED
    BY <2>2, <2>4, <2>6
<1> QED
  BY <1>1, <1>2, Zenon DEF Longer

\* No files are a beginning of all journals.
LEMMA NothingIsShorter == \A journal : Longer(NoFiles, journal)
<1>1. DOMAIN NoFiles = {}
  BY DEF NoFiles
<1> QED
  BY <1>1, Zenon DEF Longer

\* What journals say stays there.
LEMMA StaysThere ==
  ASSUME NEW a, IsFiles(a), NEW b, IsFiles(b), Longer(a, b), NEW f \in DOMAIN a,
         NEW i \in 1 .. Len(a[f])
  PROVE  f \in DOMAIN b /\ i \in 1 .. Len(b[f]) /\ b[f][i] = a[f][i]
<1>1. f \in DOMAIN b /\ IsPrefix(a[f], b[f])
  BY Zenon DEF Longer
<1>2. PICK s \in Seq(Chunks) : s = a[f]
  BY Zenon DEF IsFiles
<1>3. PICK t \in Seq(Chunks) : t = b[f]
  BY <1>1, Zenon DEF IsFiles
<1>4. IsPrefix(s, t)
  BY <1>1, <1>2, <1>3
<1>5. Len(s) <= Len(t)
  BY <1>4, PrefixIs
<1>6. \A m \in 1 .. Len(s) : s[m] = t[m]
  BY <1>4, PrefixIs
<1>7. i \in 1 .. Len(s) /\ i \in 1 .. Len(t)
  <2>1. Len(s) \in Nat /\ Len(t) \in Nat /\ i \in 1 .. Len(s)
    BY <1>2, LenProperties
  <2> QED
    BY <1>5, <2>1
<1> QED
  BY <1>1, <1>2, <1>3, <1>6, <1>7, Zenon

\* At first no annotation is known.
LEMMA InitIsKnown == Init => KnownInv
<1> SUFFICES ASSUME Init PROVE KnownInv
  OBVIOUS
<1>1. basis = NoFiles /\ plan.snapshot = NoFiles /\ plan.pc = "idle" /\ known = {}
  BY DEF Init, Idle
<1>2. DOMAIN basis = {}
  BY <1>1 DEF NoFiles
<1>3. InOrder /\ BasisInv
  BY <1>1, <1>2 DEF InOrder, BasisInv
<1> QED
  BY <1>1, <1>3, NothingIsShorter, Zenon DEF KnownInv

\* A note stays known while the journals grow.
LEMMA NoteStaysKnown ==
  ASSUME IInv, NEW note, NoteIsKnown(note), Longer(journals, journals'), IsFiles(journals'),
         plan' = plan, basis' = basis
  PROVE  NoteIsKnown(note)'
<1>1. PICK b : b = journals'
  OBVIOUS
<1>2. IsFiles(journals) /\ IsFiles(b) /\ Longer(journals, b)
  BY <1>1, FilesAre, Zenon DEF IInv, TypeInv
<1>3. /\ note.file \in DOMAIN b /\ note.position \in 1 .. Len(b[note.file])
      /\ b[note.file][note.position] = journals[note.file][note.position]
      /\ KindOf(note.file) = "annotations"
  <2>1. PICK f \in DOMAIN journals : f = note.file /\ KindOf(f) = "annotations"
    BY Zenon DEF NoteIsKnown
  <2>2. PICK i \in 1 .. Len(journals[f]) : i = note.position
    BY <2>1, Zenon DEF NoteIsKnown
  <2>3. f \in DOMAIN b /\ i \in 1 .. Len(b[f]) /\ b[f][i] = journals[f][i]
    BY <1>2, StaysThere
  <2> QED
    BY <2>1, <2>2, <2>3, Zenon
<1>4. PICK event : event = journals[note.file][note.position].record.event
  OBVIOUS
<1>5. event # 0
  BY <1>4, Zenon DEF NoteIsKnown
<1>6. PICK g \in Names, k \in Nat : CallAt(g, k, event) /\ CallIsRead(note, g, k)
  BY <1>4, Zenon DEF NoteIsKnown
<1>7. /\ g \in DOMAIN b /\ k \in 1 .. Len(b[g]) /\ b[g][k] = journals[g][k]
  BY <1>2, <1>6, StaysThere, ZenonT(60) DEF CallAt
<1>8. CallAt(g, k, event)'
  BY <1>1, <1>6, <1>7, Zenon DEF CallAt
<1>9. CallIsRead(note, g, k)'
  BY <1>6, Zenon DEF CallIsRead, Within
<1>10. event = journals'[note.file][note.position].record.event
  BY <1>1, <1>3, <1>4, Zenon
<1> QED
  BY <1>1, <1>3, <1>5, <1>8, <1>9, <1>10, Zenon DEF NoteIsKnown

\* A new note is not read yet.
LEMMA NewNoteIsKnown ==
  ASSUME IInv, Longer(basis, journals), Longer(plan.snapshot, journals),
         NEW f \in Names, NEW record \in RecordsOf(f), AppendRecord(f, record),
         KindOf(f) = "annotations", NEW call \in bounds.scenario.calls,
         call.event = record.event, record.event # 0, Holds(call),
         NEW note, note = [file |-> f, position |-> Len(Content(f)) + 1]
  PROVE  NoteIsKnown(note)'
<1>1. PICK d \in Seq(Chunks) : d = Content(f)
  BY ContentIs DEF IInv
<1>2. PICK c \in Chunks : c = Chunk("line", record)
  <2>1. bounds.scenario \in Scenarios
    BY DEF IInv, TypeInv, Bounds
  <2>2. record \in Recs
    BY <2>1, RecordsAreKnown, Zenon
  <2> QED
    BY <2>2 DEF Chunk, Chunks
<1>3. Append_(f, c)
  BY <1>2 DEF AppendRecord
<1>4. PICK b : b = journals'
  OBVIOUS
<1>5. Longer(journals, b) /\ f \in DOMAIN b /\ b[f] = Append(d, c)
  BY <1>1, <1>3, <1>4, AppendIsLonger
<1>6. /\ IsFiles(journals) /\ IsFiles(b) /\ plan' = plan /\ basis' = basis
      /\ IsFiles(basis) /\ IsFiles(plan.snapshot)
  <2>1. b \in FileMaps /\ Untouched
    BY <1>3, <1>4, AppendIsTyped DEF IInv
  <2>2. plan.snapshot \in FileMaps
    BY DEF IInv, TypeInv, Plans
  <2> QED
    BY <2>1, <2>2, FilesAre DEF Untouched, IInv, TypeInv
<1>7. /\ note.file = f /\ note.position = Len(d) + 1 /\ note.position \in 1 .. Len(b[f])
      /\ b[f][note.position] = c /\ Len(d) \in Nat
  <2>1. Len(Append(d, c)) = Len(d) + 1 /\ Append(d, c)[Len(d) + 1] = c /\ Len(d) \in Nat
    BY AppendProperties, LenProperties
  <2> QED
    BY <1>1, <1>5, <2>1
<1>8. c.record.event = record.event
  BY <1>2 DEF Chunk
<1>9. PICK g \in DOMAIN journals : \E k \in DOMAIN journals[g] :
         KindOf(g) = "calls" /\ journals[g][k] = Chunk("line", call)
  BY Zenon DEF Holds
<1>91. PICK k \in DOMAIN journals[g] : KindOf(g) = "calls" /\ journals[g][k] = Chunk("line", call)
  BY <1>9
<1>10. g \in Names /\ k \in Nat /\ k \in 1 .. Len(journals[g])
  <2>1. PICK s \in Seq(Chunks) : s = journals[g]
    BY <1>6, <1>9, <1>91, Zenon DEF IsFiles
  <2>2. DOMAIN s = 1 .. Len(s)
    BY LenProperties
  <2>3. k \in 1 .. Len(s)
    BY <1>9, <1>91, <2>1, <2>2
  <2>4. g \in Names
    BY <1>6, <1>9, <1>91, Zenon DEF IsFiles
  <2> QED
    BY <2>1, <2>3, <2>4
<1>11. g \in DOMAIN b /\ k \in 1 .. Len(b[g]) /\ b[g][k] = journals[g][k]
  BY <1>5, <1>6, <1>9, <1>91, <1>10, StaysThere
<1>12. CallAt(g, k, record.event)'
  <2>1. Chunk("line", call).part = "line" /\ Chunk("line", call).record = call
    BY DEF Chunk
  <2> QED
    BY <1>4, <1>9, <1>91, <1>11, <2>1, Zenon DEF CallAt
<1>13. ASSUME NEW files, IsFiles(files), Longer(files, journals)
       PROVE  ~Within(files, note.file, note.position)
  <2> SUFFICES ASSUME f \in DOMAIN files, Len(d) + 1 <= Len(files[f]) PROVE FALSE
    BY <1>7, Zenon DEF Within
  <2>1. f \in DOMAIN journals /\ IsPrefix(files[f], journals[f])
    BY <1>13, Zenon DEF Longer
  <2>2. journals[f] = d
    BY <1>1, <2>1, Zenon DEF Content
  <2>3. PICK s \in Seq(Chunks) : s = files[f]
    BY <1>13, Zenon DEF IsFiles
  <2>4. Len(s) <= Len(d)
    <3>1. IsPrefix(s, d)
      BY <2>1, <2>2, <2>3
    <3> QED
      BY <3>1, PrefixIs
  <2>5. Len(s) \in Nat /\ Len(d) + 1 <= Len(s)
    BY <2>3, LenProperties
  <2> QED
    BY <1>7, <2>4, <2>5
<1>14. CallIsRead(note, g, k)'
  BY <1>6, <1>13, Zenon DEF CallIsRead, Within
<1>15. record.event = journals'[note.file][note.position].record.event
  BY <1>4, <1>7, <1>8, Zenon
<1> QED
  BY <1>4, <1>5, <1>7, <1>10, <1>12, <1>14, <1>15, Zenon DEF NoteIsKnown

\* Writers add to the end, where nothing has been read.
LEMMA WritersKeepKnown ==
  ASSUME IInv, KnownInv, Writers
  PROVE  KnownInv'
<1>1. /\ plan' = plan /\ basis' = basis /\ db' = db /\ journals' \in FileMaps
  BY WritersAreTyped DEF IInv, Untouched
<1>2. InOrder' /\ BasisInv'
  BY <1>1, Zenon DEF KnownInv, InOrder, BasisInv
<1>3. ASSUME bounds'.edits = 0
      PROVE  /\ Longer(basis, journals') /\ Longer(plan.snapshot, journals')
             /\ \A note \in known' : NoteIsKnown(note)'
  <2>1. bounds.edits = 0 /\ Longer(journals, journals') /\ ~Edit
    <3>1. bounds.edits \in Nat
      BY DEF IInv, TypeInv, Bounds
    <3>2. bounds'.edits # bounds.edits + 1
      BY <1>3, <3>1
    <3>3. Edit => bounds'.edits = bounds.edits + 1
      BY DEF Edit, IInv, TypeInv, Bounds
    <3> QED
      BY <1>3, <3>2, <3>3, Wrote, Zenon
  <2>2. /\ Longer(basis, journals) /\ Longer(plan.snapshot, journals)
        /\ \A note \in known : NoteIsKnown(note)
    BY <2>1, Zenon DEF KnownInv
  <2>3. /\ IsFiles(journals') /\ IsFiles(journals) /\ IsFiles(basis) /\ IsFiles(plan.snapshot)
    <3>1. plan.snapshot \in FileMaps /\ journals \in FileMaps /\ basis \in FileMaps
      BY DEF IInv, TypeInv, Plans
    <3>2. \A x : x \in FileMaps => IsFiles(x)
      BY FilesAre
    <3> QED
      BY <1>1, <3>1, <3>2, Zenon
  <2>4. PICK b : b = journals'
    OBVIOUS
  <2>5. Longer(basis, b) /\ Longer(plan.snapshot, b)
    BY <2>1, <2>2, <2>3, <2>4, LongerThanLonger
  <2>6. ASSUME NEW note \in known PROVE NoteIsKnown(note)'
    BY <1>1, <2>1, <2>2, <2>3, <2>6, NoteStaysKnown, Zenon
  <2>7. ASSUME NEW note \in known', note \notin known PROVE NoteIsKnown(note)'
    <3>0. PICK f \in Names : \E record \in RecordsOf(f) : AppendRecord(f, record)
      <4>1. known' # known
        BY <2>7
      <4>2. \A f \in Names : ~CompleteTail(f)
        BY <4>1 DEF CompleteTail
      <4>3. \A f \in Names : \A record \in RecordsOf(f) : ~AppendTorn(f, record)
        BY <4>1 DEF AppendTorn
      <4> QED
        BY <2>1, <4>2, <4>3, Zenon DEF Writers
    <3>1. PICK record \in RecordsOf(f) : AppendRecord(f, record)
      BY <3>0
    <3>2. /\ KindOf(f) = "annotations"
          /\ \E call \in bounds.scenario.calls :
               call.event = record.event /\ record.event # 0 /\ Holds(call)
          /\ known' = known \cup {[file |-> f, position |-> Len(Content(f)) + 1]}
      BY <2>7, <3>1, Zenon DEF AppendRecord
    <3>3. PICK call \in bounds.scenario.calls :
             call.event = record.event /\ record.event # 0 /\ Holds(call)
      BY <3>2
    <3>4. note = [file |-> f, position |-> Len(Content(f)) + 1]
      BY <2>7, <3>2
    <3> QED
      BY <2>2, <3>1, <3>2, <3>3, <3>4, NewNoteIsKnown
  <2> QED
    BY <2>4, <2>5, <2>6, <2>7, Zenon
<1> QED
  BY <1>1, <1>2, <1>3, Zenon DEF KnownInv

\* A step that leaves the journals alone.
LEMMA QuietStep ==
  ASSUME IInv, KnownInv, journals' = journals, known' = known, bounds'.edits = bounds.edits,
         InOrder', BasisInv',
         bounds.edits = 0 => Longer(basis, journals)' /\ Longer(plan.snapshot, journals)',
         \A note : \A g \in DOMAIN journals : \A k \in Nat :
           /\ note.file \in DOMAIN journals /\ KindOf(note.file) = "annotations"
           /\ KindOf(g) = "calls" /\ k \in 1 .. Len(journals[g]) /\ CallIsRead(note, g, k)
           => CallIsRead(note, g, k)'
  PROVE  KnownInv'
<1>1. ASSUME bounds.edits = 0, NEW note \in known PROVE NoteIsKnown(note)'
  <2>1. NoteIsKnown(note)
    BY <1>1, Zenon DEF KnownInv
  <2>2. PICK event : event = journals[note.file][note.position].record.event
    OBVIOUS
  <2>3. PICK g \in Names, k \in Nat : CallAt(g, k, event) /\ CallIsRead(note, g, k)
    BY <2>1, <2>2, Zenon DEF NoteIsKnown
  <2>4. CallIsRead(note, g, k)'
    BY <2>1, <2>3, Zenon DEF NoteIsKnown, CallAt
  <2>5. CallAt(g, k, event)'
    BY <2>3, Zenon DEF CallAt
  <2> QED
    BY <2>1, <2>2, <2>4, <2>5, Zenon DEF NoteIsKnown
<1> QED
  BY <1>1, Zenon DEF KnownInv

\* A refresh has no snapshot before its plan, and after its end.
LEMMA NoSnapshotStep ==
  ASSUME IInv, KnownInv, journals' = journals, known' = known, bounds'.edits = bounds.edits,
         basis' = basis, db' = db, plan'.snapshot = NoFiles
  PROVE  KnownInv'
<1>1. DOMAIN plan'.snapshot = {}
  BY DEF NoFiles
<1>2. InOrder'
  BY <1>1, Zenon DEF InOrder
<1>3. BasisInv'
  BY Zenon DEF KnownInv, BasisInv
<1>4. bounds.edits = 0 => Longer(basis, journals)' /\ Longer(plan.snapshot, journals)'
  BY NothingIsShorter, Zenon DEF KnownInv
<1>5. \A note, g, k : CallIsRead(note, g, k) => CallIsRead(note, g, k)'
  BY <1>1, Zenon DEF CallIsRead, Within
<1> QED
  BY <1>2, <1>3, <1>4, <1>5, QuietStep

\* It keeps its snapshot from then on; nothing is read that was not planned.
LEMMA SnapshotStep ==
  ASSUME IInv, KnownInv, journals' = journals, known' = known, bounds'.edits = bounds.edits,
         basis' = basis, db' = db, plan'.snapshot = plan.snapshot, plan'.files = plan.files,
         plan'.pc # "prepare", plan.pc = "prepare" => plan.todo = {},
         plan'.pc = "finish" => plan.pc = "finish" \/ DOMAIN journals = plan.files
  PROVE  KnownInv'
<1>1. InOrder'
  BY Zenon DEF InOrder
<1>2. BasisInv'
  BY Zenon DEF KnownInv, BasisInv
<1>3. bounds.edits = 0 => Longer(basis, journals)' /\ Longer(plan.snapshot, journals)'
  BY Zenon DEF KnownInv
<1>4. ASSUME NEW note, NEW g \in DOMAIN journals, NEW k, CallIsRead(note, g, k)
      PROVE  CallIsRead(note, g, k)'
  <2>1. ASSUME Within(plan.snapshot, note.file, note.position)
        PROVE  Within(plan.snapshot, g, k) \/ (plan'.pc # "finish" /\ g \notin plan.files)
    <3>1. \/ Within(plan.snapshot, g, k)
          \/ plan.pc = "prepare" /\ g \in plan.todo
          \/ plan.pc # "finish" /\ g \notin plan.files
      BY <1>4, <2>1, Zenon DEF CallIsRead
    <3> QED
      BY <1>4, <3>1, Zenon
  <2>2. Within(plan.snapshot, note.file, note.position)' => Within(plan.snapshot, note.file, note.position)
    BY Zenon DEF Within
  <2>3. Within(plan.snapshot, g, k) => Within(plan.snapshot, g, k)'
    BY Zenon DEF Within
  <2>4. Within(basis, note.file, note.position)' => Within(basis, g, k)'
    BY <1>4, Zenon DEF CallIsRead, Within
  <2> QED
    BY <2>1, <2>2, <2>3, <2>4, Zenon DEF CallIsRead
<1> QED
  BY <1>1, <1>2, <1>3, <1>4, QuietStep

\* When an annotation is read, its call has not been read too early.
LEMMA PrepareKeepsKnown ==
  ASSUME IInv, KnownInv, Prepare
  PROVE  KnownInv'
<1>1. plan \in Plans /\ plan.pc = "prepare" /\ plan.todo # {} /\ plan.todo \in SUBSET Names
  BY DEF Prepare, IInv, TypeInv, Plans
<1>2. PICK f : f = First(plan.todo)
  OBVIOUS
<1>3. f \in plan.todo /\ f \in Names /\ \A g \in plan.todo : f <= g
  BY <1>1, <1>2, FirstIs
<1>4. CASE f \notin DOMAIN journals
  <2>1. /\ journals' = journals /\ known' = known /\ bounds' = bounds /\ basis' = basis
        /\ db' = db /\ plan'.snapshot = NoFiles
    BY <1>2, <1>4 DEF Prepare, Rollback, Idle
  <2> QED
    BY <2>1, NoSnapshotStep
<1>5. CASE f \in DOMAIN journals
  <2> DEFINE checked == f \in DOMAIN plan.prior
             matches == checked /\ Begins(f, plan.prior[f].digest)
             offset == IF matches THEN plan.prior[f].offset ELSE 0
             mode == IF checked /\ ~matches THEN "rebuild" ELSE plan.mode
  <2>1. /\ plan' = [plan EXCEPT !.todo = @ \ {f}, !.snapshot = With(@, f, journals[f]),
                                !.offset = With(@, f, offset), !.mode = mode]
        /\ UNCHANGED <<journals, db, bounds, basis, known>>
    BY <1>2, <1>5, Zenon DEF Prepare, Step
  <2> HIDE DEF offset, mode
  <2>2. PICK s : s = With(plan.snapshot, f, journals[f])
    OBVIOUS
  <2>3. /\ plan'.pc = "prepare" /\ plan'.files = plan.files /\ plan'.snapshot = s
        /\ plan'.todo = plan.todo \ {f}
    <3>1. plan' = [plan EXCEPT !.todo = @ \ {f}, !.snapshot = s,
                                !.offset = With(@, f, offset), !.mode = mode]
      BY <2>1, <2>2
    <3> QED
      BY <1>1, <3>1 DEF Plans
  <2>4. /\ DOMAIN s = DOMAIN plan.snapshot \cup {f} /\ s[f] = journals[f]
        /\ \A g \in DOMAIN plan.snapshot : g # f => s[g] = plan.snapshot[g]
    BY <2>2, Zenon DEF With
  <2>5. /\ DOMAIN plan.snapshot = plan.files \ plan.todo /\ plan.todo \subseteq plan.files
    BY <1>1, Zenon DEF IInv, PreparingInv
  <2>6. \A a \in DOMAIN plan.snapshot, b \in plan.todo : a < b
    BY <1>1, Zenon DEF KnownInv, InOrder
  <2>7. plan.todo \subseteq Nat
    BY <1>1, JournalIndexAssumption DEF Names
  <2>8. InOrder'
    <3>1. ASSUME NEW a \in DOMAIN s, NEW b \in plan.todo, b # f PROVE a < b
      <4>1. f < b
        BY <1>3, <2>7, <3>1
      <4> QED
        BY <2>4, <2>6, <3>1, <4>1, Zenon
    <3> QED
      BY <2>3, <3>1, Zenon DEF InOrder
  <2>9. BasisInv' /\ journals' = journals /\ known' = known /\ bounds' = bounds /\ basis' = basis
    BY <2>1 DEF KnownInv, BasisInv
  <2>10. bounds.edits = 0 => Longer(basis, journals)' /\ Longer(plan.snapshot, journals)'
    <3>1. ASSUME bounds.edits = 0 PROVE Longer(s, journals)
      <4>1. Longer(plan.snapshot, journals)
        BY <3>1, Zenon DEF KnownInv
      <4>2. IsPrefix(journals[f], journals[f])
        <5>1. PICK c \in Seq(Chunks) : c = journals[f]
          BY <1>5, FilesAre, Zenon DEF IInv, TypeInv, IsFiles
        <5>2. IsPrefix(c, c)
          BY PrefixOfItself
        <5> QED
          BY <5>1, <5>2
      <4>3. ASSUME NEW g \in DOMAIN s PROVE g \in DOMAIN journals /\ IsPrefix(s[g], journals[g])
        BY <1>5, <2>4, <4>1, <4>2, <4>3, Zenon DEF Longer
      <4> QED
        BY <4>3, Zenon DEF Longer
    <3> QED
      BY <2>3, <2>9, <3>1, Zenon DEF KnownInv
  <2>11. ASSUME NEW note, NEW g \in DOMAIN journals, NEW k \in Nat,
                note.file \in DOMAIN journals, KindOf(note.file) = "annotations",
                KindOf(g) = "calls", k \in 1 .. Len(journals[g]), CallIsRead(note, g, k)
         PROVE  CallIsRead(note, g, k)'
    <3>1. ASSUME Within(s, note.file, note.position)
          PROVE  \/ Within(s, g, k)
                 \/ g \in plan.todo \ {f}
                 \/ g \notin plan.files
      <4>1. k <= Len(journals[g])
        <5>1. PICK c \in Seq(Chunks) : c = journals[g]
          BY <2>11, FilesAre, Zenon DEF IInv, TypeInv, IsFiles
        <5> QED
          BY <2>11, <5>1, LenProperties
      <4>2. CASE g = f
        BY <2>4, <4>1, <4>2, Zenon DEF Within
      <4>3. CASE g # f /\ note.file # f
        <5>1. Within(plan.snapshot, note.file, note.position)
          BY <2>4, <3>1, <4>3, Zenon DEF Within
        <5>2. \/ Within(plan.snapshot, g, k)
              \/ g \in plan.todo
              \/ g \notin plan.files
          BY <2>11, <5>1, Zenon DEF CallIsRead
        <5>3. Within(plan.snapshot, g, k) => Within(s, g, k)
          BY <2>4, <4>3, Zenon DEF Within
        <5> QED
          BY <4>3, <5>2, <5>3, Zenon
      <4>4. CASE g # f /\ note.file = f
        <5>1. f < g
          <6>1. KindOf(f) = "annotations" /\ KindOf(g) = "calls"
            BY <2>11, <4>4
          <6>2. g \in Names
            BY FilesAre, Zenon DEF IInv, TypeInv, IsFiles
          <6>3. f \in Nat /\ g \in Nat /\ AnnotationFiles \in Nat
            BY <1>3, <6>2, JournalIndexAssumption DEF Names
          <6>4. ~(f > AnnotationFiles) /\ g > AnnotationFiles
            BY <6>1 DEF KindOf
          <6> QED
            BY <6>3, <6>4
        <5>2. g \notin DOMAIN plan.snapshot
          <6> SUFFICES ASSUME g \in DOMAIN plan.snapshot PROVE FALSE
            OBVIOUS
          <6>1. g < f
            BY <1>3, <2>6
          <6>2. g \in Nat /\ f \in Nat
            BY <1>1, <1>3, <2>5, JournalIndexAssumption DEF Plans, Names
          <6> QED
            BY <5>1, <6>1, <6>2
        <5> QED
          BY <2>5, <4>4, <5>2, Zenon
      <4> QED
        BY <4>2, <4>3, <4>4
    <3>2. Within(basis, note.file, note.position)' => Within(basis, g, k)'
      BY <2>9, <2>11, Zenon DEF CallIsRead, Within
    <3>3. plan'.pc # "finish"
      BY <2>3
    <3> QED
      BY <2>3, <3>1, <3>2, <3>3, Zenon DEF CallIsRead, Within
  <2> QED
    BY <2>8, <2>9, <2>10, <2>11, QuietStep
<1> QED
  BY <1>4, <1>5

\* The other steps read nothing; a file that was created meanwhile ends the refresh.
LEMMA RefreshKeepsKnown ==
  ASSUME IInv, KnownInv, Refresh
  PROVE  KnownInv'
<1>0. plan \in Plans
  BY DEF IInv, TypeInv
<1>1. ASSUME NEW rebuilding \in BOOLEAN, Begin(rebuilding) PROVE KnownInv'
  <2>1. /\ journals' = journals /\ known' = known /\ bounds'.edits = bounds.edits
        /\ basis' = basis /\ db' = db /\ plan'.snapshot = NoFiles
    BY <1>1 DEF Begin, Idle, IInv, TypeInv, Bounds
  <2> QED
    BY <2>1, NoSnapshotStep
<1>2. CASE Prepare
  BY <1>2, PrepareKeepsKnown
<1>3. CASE Decide
  <2>1. /\ journals' = journals /\ known' = known /\ bounds' = bounds /\ basis' = basis
        /\ db' = db /\ plan.todo = {} /\ plan'.pc = "calls"
        /\ plan'.files = plan.files /\ plan'.snapshot = plan.snapshot
    BY <1>0, <1>3 DEF Decide, Step, Plans
  <2> QED
    BY <2>1, SnapshotStep
<1>4. CASE Visit
  <2>1. plan.pc \in {"calls", "annotations"}
    BY <1>4 DEF Visit
  <2>2. /\ journals' = journals /\ known' = known /\ bounds' = bounds /\ basis' = basis /\ db' = db
    BY <1>4, Zenon DEF Visit, Step, Rollback
  <2>3. CASE plan' = Idle
    <3>1. plan'.snapshot = NoFiles
      BY <2>3 DEF Idle
    <3> QED
      BY <2>2, <3>1, NoSnapshotStep
  <2>4. CASE plan' # Idle
    <3>1. PICK f : f = First(plan.todo)
      OBVIOUS
    <3>2. \/ plan' = [plan EXCEPT !.todo = @ \ {f}]
          \/ plan' = [plan EXCEPT !.todo = @ \ {f}, !.changed = @]
          \/ plan' = [plan EXCEPT !.todo = @ \ {f}, !.changed = @ \cup {plan.pc}]
      BY <1>4, <2>4, <3>1, Zenon DEF Visit, Step, Rollback
    <3>3. plan'.pc = plan.pc /\ plan'.files = plan.files /\ plan'.snapshot = plan.snapshot
      BY <1>0, <3>2 DEF Plans
    <3>4. plan.pc # "prepare" /\ plan'.pc # "prepare" /\ plan'.pc # "finish"
      BY <2>1, <3>3
    <3> QED
      BY <2>2, <3>3, <3>4, SnapshotStep
  <2> QED
    BY <2>3, <2>4
<1>5. CASE Correlate
  <2>1. /\ journals' = journals /\ known' = known /\ bounds' = bounds /\ basis' = basis
        /\ db' = db /\ plan.todo = {} /\ plan'.pc = "annotations"
        /\ plan'.files = plan.files /\ plan'.snapshot = plan.snapshot
    BY <1>0, <1>5 DEF Correlate, Step, Plans
  <2> QED
    BY <2>1, SnapshotStep
<1>6. CASE Relink
  <2>1. /\ journals' = journals /\ known' = known /\ bounds' = bounds /\ basis' = basis
        /\ db' = db /\ plan.todo = {} /\ plan'.pc = "inventory"
        /\ plan'.files = plan.files /\ plan'.snapshot = plan.snapshot
    BY <1>0, <1>6 DEF Relink, Step, Plans
  <2> QED
    BY <2>1, SnapshotStep
<1>7. CASE Inventory
  <2>1. CASE DOMAIN journals # plan.files
    <3>1. /\ journals' = journals /\ known' = known /\ bounds' = bounds /\ basis' = basis
          /\ db' = db /\ plan'.snapshot = NoFiles
      BY <1>7, <2>1 DEF Inventory, Rollback, Idle
    <3> QED
      BY <3>1, NoSnapshotStep
  <2>2. CASE DOMAIN journals = plan.files
    <3>1. /\ journals' = journals /\ known' = known /\ bounds' = bounds /\ basis' = basis
          /\ db' = db /\ plan.pc = "inventory" /\ plan'.pc = "finish"
          /\ plan'.files = plan.files /\ plan'.snapshot = plan.snapshot
      BY <1>0, <1>7, <2>2 DEF Inventory, Step, Plans
    <3> QED
      BY <2>2, <3>1, SnapshotStep
  <2> QED
    BY <2>1, <2>2
<1>8. CASE FinishFile
  <2>1. PICK f : f = First(plan.todo)
    OBVIOUS
  <2>2. CASE ~StillBegins(f)
    <3>1. /\ journals' = journals /\ known' = known /\ bounds' = bounds /\ basis' = basis
          /\ db' = db /\ plan'.snapshot = NoFiles
      BY <1>8, <2>1, <2>2 DEF FinishFile, Rollback, Idle
    <3> QED
      BY <3>1, NoSnapshotStep
  <2>3. CASE StillBegins(f)
    <3>1. /\ journals' = journals /\ known' = known /\ bounds' = bounds /\ basis' = basis
          /\ db' = db /\ plan.pc = "finish" /\ plan'.pc = "finish"
          /\ plan'.files = plan.files /\ plan'.snapshot = plan.snapshot
      BY <1>0, <1>8, <2>1, <2>3 DEF FinishFile, Step, Plans
    <3> QED
      BY <3>1, SnapshotStep
  <2> QED
    BY <2>2, <2>3
<1>9. CASE Commit
  <2>1. /\ journals' = journals /\ known' = known /\ bounds' = bounds
        /\ basis' = plan.snapshot /\ db'.version = "current"
        /\ plan.pc = "finish" /\ plan'.snapshot = NoFiles
    BY <1>9 DEF Commit, Idle, IInv, TypeInv, Indexes
  <2>2. DOMAIN NoFiles = {}
    BY DEF NoFiles
  <2>3. InOrder' /\ BasisInv'
    BY <2>1, <2>2, Zenon DEF InOrder, BasisInv
  <2>4. bounds.edits = 0 => Longer(basis, journals)' /\ Longer(plan.snapshot, journals)'
    BY <2>1, NothingIsShorter, Zenon DEF KnownInv
  <2>5. \A note : \A g \in DOMAIN journals : \A k \in Nat :
           CallIsRead(note, g, k) => CallIsRead(note, g, k)'
    <3>1. plan.pc # "prepare"
      BY <2>1
    <3> QED
      BY <2>1, <2>2, <3>1, Zenon DEF CallIsRead, Within
  <2> QED
    BY <2>1, <2>3, <2>4, <2>5, QuietStep
<1> QED
  BY <1>1, <1>2, <1>3, <1>4, <1>5, <1>6, <1>7, <1>8, <1>9 DEF Refresh

\* Every step keeps it.
LEMMA NextKeepsKnown ==
  ASSUME IInv, KnownInv, [Next]_vars
  PROVE  KnownInv'
<1>1. CASE Refresh
  BY <1>1, RefreshKeepsKnown
<1>2. CASE Die
  <2>1. /\ journals' = journals /\ known' = known /\ bounds' = bounds /\ basis' = basis
        /\ db' = db /\ plan'.snapshot = NoFiles
    BY <1>2 DEF Die, Rollback, Idle
  <2> QED
    BY <2>1, NoSnapshotStep
<1>3. CASE Writers
  BY <1>3, WritersKeepKnown
<1>4. CASE UNCHANGED vars
  <2>1. /\ plan' = plan /\ journals' = journals /\ bounds' = bounds /\ known' = known
        /\ basis' = basis /\ db' = db
    BY <1>4 DEF vars
  <2>2. InOrder' /\ BasisInv'
    BY <2>1, Zenon DEF KnownInv, InOrder, BasisInv
  <2>3. bounds.edits = 0 => Longer(basis, journals)' /\ Longer(plan.snapshot, journals)'
    BY <2>1, Zenon DEF KnownInv
  <2>4. \A note, g, k : CallIsRead(note, g, k) => CallIsRead(note, g, k)'
    BY <2>1, ZenonT(60) DEF CallIsRead, Within
  <2> QED
    BY <2>1, <2>2, <2>3, <2>4, QuietStep
<1> QED
  BY <1>1, <1>2, <1>3, <1>4 DEF Next

\* Annotation files are read before the files of calls: an annotation that a
\* recorder gave to a call it had recorded is never indexed without that call,
\* and is linked to it (journal.rs, prepare and index.rs, refresh).
THEOREM KnownCallsAreLinked == Spec => []KnownCallsLinked
<1>1. IInv /\ KnownInv /\ [Next]_vars => KnownInv'
  BY NextKeepsKnown
<1> QED
  BY IndexIsThatOfWhatWasRead, InitIsKnown, <1>1, KnownIsLinked, PTL DEF Spec

=============================================================================
