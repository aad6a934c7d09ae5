------------------------- MODULE Evaluation_proofs -------------------------
(***************************************************************************)
(* Two proofs about an evaluation, whatever the manifest, the servers and  *)
(* the interleaving of the two clients of a contention.                    *)
(*                                                                         *)
(* It tells its own refusal from the server's conduct: a case to which the *)
(* budget refused a request or a wait is reported as having exceeded the   *)
(* budget.  The refusal is noted where it happens, by either thread, and   *)
(* looked at when the case is reported: the inductive invariant says that  *)
(* what has been noted was refused by a budget that stays spent, that      *)
(* nothing is noted outside a case, and that the threads of a contention   *)
(* have ended when their case is left.                                     *)
(*                                                                         *)
(* And a verdict means the contract of its kind: a case passes exactly     *)
(* when its answers keep the contract, which ProbeContract states without  *)
(* the order in which a runner looks at them.  A runner sees every prefix  *)
(* of the answers: the inductive invariant says that it has decided none   *)
(* of them before (Heard), and a lemma for each kind says what the answers *)
(* then are and that the verdict on them is the contract's (Sound).        *)
(***************************************************************************)
EXTENDS Evaluation, SequenceTheorems, FiniteSetTheorems, WellFoundedInduction, TLAPS

\* A case whose request the budget refused is under way, and the budget stays
\* spent until it is reported; the threads of a contention live in its case.
CutInv ==
    /\ cut => Spent
    /\ pc \notin {"runner", "contend", "finish"} => ~cut
    /\ worker.at # "idle" \/ primary.at # "idle" => pc = "contend"

\* What is reported is a list.
IsList(s) == s \in Seq({s[k] : k \in DOMAIN s})

\* The inductive invariant.
ExhaustionInv == CutInv /\ IsList(reports) /\ NoVerdictAfterExhaustion

\* A sequence with one element more.
LEMMA Appended ==
    ASSUME NEW s, IsList(s), NEW x
    PROVE  /\ IsList(Append(s, x)) /\ DOMAIN Append(s, x) = 1..Len(s) + 1
           /\ Append(s, x)[Len(s) + 1] = x /\ DOMAIN s = 1..Len(s) /\ Len(s) \in Nat
           /\ \A k \in 1..Len(s) : Append(s, x)[k] = s[k]
  <1> DEFINE R == {s[k] : k \in DOMAIN s}
             S == R \cup {x}
  <1>1. s \in Seq(S)
    BY DEF IsList
  <1>2. PICK t : t = Append(s, x)
    OBVIOUS
  <1>3. /\ t \in Seq(S) /\ Len(t) = Len(s) + 1 /\ t[Len(s) + 1] = x
        /\ \A k \in 1..Len(s) : t[k] = s[k]
    <2> HIDE DEF S
    <2>1. x \in S
      BY DEF S
    <2> QED
      BY <1>1, <1>2, <2>1, AppendProperties
  <1>4. DOMAIN t = 1..Len(s) + 1 /\ DOMAIN s = 1..Len(s) /\ Len(s) \in Nat
    <2> HIDE DEF S
    <2> QED
      BY <1>1, <1>3
  <1>5. IsList(t)
    <2> DEFINE T == {t[k] : k \in DOMAIN t}
    <2>1. \A k \in 1..Len(t) : t[k] \in T
      BY <1>3, <1>4
    <2> HIDE DEF S, T
    <2>2. t \in Seq(T)
      BY <1>3, <1>4, <2>1
    <2> QED
      BY <2>2 DEF IsList, T
  <1> QED
    BY <1>2, <1>3, <1>4, <1>5

\* A case that was cut is reported as such.
LEMMA ReportKeeps ==
    ASSUME ExhaustionInv, NEW v, NEW detail, Report(v, detail),
           cut => v = Errored("evaluation-budget-exceeded")
    PROVE  IsList(reports') /\ NoVerdictAfterExhaustion'
  <1>1. PICK r : r = [verdict |-> v, detail |-> detail, cut |-> cut]
    OBVIOUS
  <1>2. reports' = Append(reports, r) /\ r.cut = cut /\ r.verdict = v
    BY <1>1 DEF Report
  <1>3. /\ IsList(reports') /\ DOMAIN reports' = 1..Len(reports) + 1
        /\ reports'[Len(reports) + 1] = r /\ DOMAIN reports = 1..Len(reports) /\ Len(reports) \in Nat
        /\ \A k \in 1..Len(reports) : reports'[k] = reports[k]
    BY <1>2, Appended DEF ExhaustionInv
  <1>4. ASSUME NEW k \in DOMAIN reports', reports'[k].cut
        PROVE  reports'[k].verdict = Errored("evaluation-budget-exceeded")
    <2>1. CASE k = Len(reports) + 1
      BY <1>2, <1>3, <1>4, <2>1
    <2>2. CASE k # Len(reports) + 1
      <3>1. k \in DOMAIN reports /\ reports'[k] = reports[k]
        BY <1>3, <2>2
      <3> QED
        BY <1>4, <3>1 DEF ExhaustionInv, NoVerdictAfterExhaustion
    <2> QED
      BY <2>1, <2>2
  <1> QED
    BY <1>3, <1>4 DEF NoVerdictAfterExhaustion

\* A request does not refill the budget, and one that is refused has spent it.
LEMMA AskedSpends ==
    ASSUME NEW answers, NEW a, Asked(answers, a), UNCHANGED expired
    PROVE  (Spent => Spent') /\ (a = Cut /\ Cut \notin answers => Spent')
  BY DEF Asked, Spent, budget, B!Deny, B!Grant

\* What an answer that came back may be is never the budget's refusal.
LEMMA OpeningIsNoCut == Cut \notin Opening
  BY DEF Cut, Opening, Ok, Error, LostAnswers, LostOuts

\* Before and after a case nothing is cut, whatever is asked.
LEMMA AsideKeeps ==
    ASSUME ExhaustionInv, Open \/ Discover \/ Reconnect \/ Standard \/ Expire
    PROVE  ExhaustionInv'
  <1>1. UNCHANGED <<cut, worker, primary, reports>> /\ (Spent => Spent')
    BY AskedSpends DEF Open, Discover, Reconnect, Standard, Expire, threads, session, budget, Spent
  <1>2. pc \notin {"runner", "contend", "finish"} \/ pc' = pc
    BY DEF Open, Discover, Reconnect, Standard, Expire
  <1>3. pc = "contend" => pc' = pc
    BY DEF Open, Discover, Reconnect, Standard, Expire
  <1> QED
    BY <1>1, <1>2, <1>3 DEF ExhaustionInv, CutInv, NoVerdictAfterExhaustion

\* A case that is skipped was not cut.
LEMMA SkipCaseKeeps == ASSUME ExhaustionInv, SkipCase PROVE ExhaustionInv'
  <1>1. ~cut /\ pc = "case"
    BY DEF SkipCase, ExhaustionInv, CutInv
  <1>2. PICK v, detail : Report(v, detail)
    BY DEF SkipCase
  <1>3. IsList(reports') /\ NoVerdictAfterExhaustion'
    BY <1>1, <1>2, ReportKeeps
  <1>4. UNCHANGED <<pc, cut, denied, expired, worker, primary>>
    BY DEF SkipCase, threads, budget
  <1> QED
    BY <1>3, <1>4 DEF ExhaustionInv, CutInv, Spent

\* A case begins; it is cut from the start if the budget is spent by then.
LEMMA StartCaseKeeps == ASSUME ExhaustionInv, StartCase PROVE ExhaustionInv'
  <1>1. /\ cut' = Spent /\ UNCHANGED <<denied, expired, reports>> /\ pc = "case"
        /\ pc' \in {"finish", "contend", "runner"}
        /\ pc' # "contend" => UNCHANGED <<worker, primary>>
    BY DEF StartCase, threads, budget
  <1>2. worker.at = "idle" /\ primary.at = "idle"
    BY <1>1 DEF ExhaustionInv, CutInv
  <1> QED
    BY <1>1, <1>2 DEF ExhaustionInv, CutInv, Spent, NoVerdictAfterExhaustion

\* The runner's exchanges; a wait that is not begun is cut by a spent budget.
LEMMA ExchangeKeeps ==
    ASSUME Cut \notin Answers(Case, h), ExhaustionInv, Exchange
    PROVE  ExhaustionInv'
  <1>1. PICK a :
          /\ IF Waits THEN UNCHANGED budget ELSE Asked(Answers(Case, h), a)
          /\ Waits => a # Cut
          /\ cut' = (cut \/ a = Cut \/ (Waits /\ Spent))
    BY DEF Exchange
  <1>2. pc = "runner" /\ UNCHANGED <<pc, expired, worker, primary, reports>>
    BY DEF Exchange, threads
  <1>3. Spent => Spent'
    BY <1>1, <1>2, AskedSpends DEF Spent, budget
  <1>4. cut' => Spent'
    <2>1. ~Waits /\ a = Cut => Spent'
      BY <1>1, <1>2, AskedSpends
    <2> QED
      BY <1>1, <1>3, <2>1 DEF ExhaustionInv, CutInv
  <1> QED
    BY <1>2, <1>3, <1>4 DEF ExhaustionInv, CutInv, NoVerdictAfterExhaustion

\* The decision, and the report, of a case.
LEMMA FinishKeeps == ASSUME ExhaustionInv, Decide \/ Finish PROVE ExhaustionInv'
  <1>1. CASE Decide
    BY <1>1 DEF Decide, threads, budget, ExhaustionInv, CutInv, Spent, NoVerdictAfterExhaustion
  <1>2. CASE Finish
    <2>1. PICK detail : Report(FinishedVerdict, detail)
      BY <1>2 DEF Finish
    <2>2. cut => FinishedVerdict = Errored("evaluation-budget-exceeded")
      BY DEF FinishedVerdict, ExhaustionInv, CutInv
    <2>3. IsList(reports') /\ NoVerdictAfterExhaustion'
      BY <2>1, <2>2, ReportKeeps
    <2>4. pc = "finish" /\ cut' = FALSE /\ UNCHANGED <<denied, expired, worker, primary>>
      BY <1>2 DEF Finish, threads, budget
    <2> QED
      BY <2>3, <2>4 DEF ExhaustionInv, CutInv
  <1> QED
    BY <1>1, <1>2

\* The two threads of a contention.
LEMMA ContentionKeeps ==
    ASSUME ExhaustionInv,
           \/ WorkerAsks \/ WorkerGivesUp \/ WorkerWaits \/ Meet
           \/ PrimaryBegins \/ PrimaryGivesUp \/ PrimaryCalls \/ DropChannels
    PROVE  ExhaustionInv'
  <1>1. /\ worker.at # "idle" \/ primary.at # "idle"
        /\ UNCHANGED <<pc, expired, reports>>
    BY DEF WorkerAsks, WorkerGivesUp, WorkerWaits, Meet, PrimaryBegins, PrimaryGivesUp,
           PrimaryCalls, DropChannels, OthersThanThreads
  <1>2. pc = "contend"
    BY <1>1 DEF ExhaustionInv, CutInv
  <1>3. (Spent => Spent') /\ (cut' => Spent')
    <2> USE DEF ExhaustionInv, CutInv
    <2>1. CASE WorkerAsks \/ PrimaryCalls
      <3>1. PICK a : Asked(Opening, a) /\ cut' = (cut \/ a = Cut)
        BY <2>1 DEF WorkerAsks, PrimaryCalls
      <3> QED
        BY <1>1, <3>1, AskedSpends, OpeningIsNoCut
    <2>2. CASE WorkerGivesUp
      <3>1. UNCHANGED <<denied, expired>> /\ cut' = (cut \/ worker'.got = Cut)
            /\ worker' = Stop(worker, IF Spent /\ worker.at # "ready" THEN Cut ELSE Broken)
        BY <2>2 DEF WorkerGivesUp, budget, OthersThanThreads
      <3>2. worker'.got = Cut => Spent
        BY <3>1 DEF Stop, Cut, Broken
      <3> QED
        BY <3>1, <3>2 DEF Spent
    <2>3. CASE WorkerWaits \/ Meet \/ PrimaryGivesUp \/ DropChannels
      <3>1. UNCHANGED <<denied, expired, cut>>
        BY <2>3 DEF WorkerWaits, Meet, PrimaryGivesUp, DropChannels, budget, OthersThanThreads
      <3> QED
        BY <3>1 DEF Spent
    <2>4. CASE PrimaryBegins
      <3>1. UNCHANGED <<denied, expired>> /\ cut' = (cut \/ Spent)
        BY <2>4 DEF PrimaryBegins, budget, OthersThanThreads
      <3> QED
        BY <3>1 DEF Spent
    <2> QED
      BY <1>1, <2>1, <2>2, <2>3, <2>4
  <1> QED
    BY <1>1, <1>2, <1>3 DEF ExhaustionInv, CutInv, NoVerdictAfterExhaustion

\* Both threads have ended when the case goes on to its report.
LEMMA JoinKeeps == ASSUME ExhaustionInv, Join PROVE ExhaustionInv'
  <1>1. /\ primary.at = "join" /\ pc' = "finish" /\ worker'.at = "idle" /\ primary'.at = "idle"
        /\ UNCHANGED <<cut, denied, expired, reports>>
    BY DEF Join, Idle, budget, OthersThanThreads
  <1> QED
    BY <1>1 DEF ExhaustionInv, CutInv, Spent, NoVerdictAfterExhaustion

\* Every step keeps the inductive invariant.
LEMMA NextExhaustionInv ==
    ASSUME pc = "runner" => Cut \notin Answers(Case, h), ExhaustionInv, [Next]_vars
    PROVE  ExhaustionInv'
  <1>1. CASE UNCHANGED vars
    BY <1>1 DEF vars, threads, budget, session, ExhaustionInv, CutInv, Spent, NoVerdictAfterExhaustion
  <1>2. CASE Exchange
    <2>1. pc = "runner"
      BY <1>2 DEF Exchange
    <2> QED
      BY <1>2, <2>1, ExchangeKeeps
  <1>3. CASE Next /\ ~Exchange
    BY <1>3, AsideKeeps, SkipCaseKeeps, StartCaseKeeps, FinishKeeps, ContentionKeeps,
       JoinKeeps DEF Next, Main, Worker
  <1> QED
    BY <1>1, <1>2, <1>3

\* Whatever the cases, the servers and the interleaving of the two threads of a
\* contention, a case that was refused a request or a wait is reported as
\* exceeding the budget and never as a verdict on the server.
THEOREM RefusalIsNoVerdict ==
    ASSUME \A c, g : Cut \notin Answers(c, g)
    PROVE  Spec => []NoVerdictAfterExhaustion
  <1>1. Init => ExhaustionInv
    <2> SUFFICES ASSUME Init PROVE ExhaustionInv
      OBVIOUS
    <2>1. reports = <<>> /\ cut = FALSE /\ worker.at = "idle" /\ primary.at = "idle"
      BY DEF Init, Idle
    <2> QED
      BY <2>1 DEF ExhaustionInv, CutInv, IsList, NoVerdictAfterExhaustion
  <1>2. ExhaustionInv /\ [Next]_vars => ExhaustionInv'
    BY NextExhaustionInv
  <1>3. ExhaustionInv => NoVerdictAfterExhaustion
    BY DEF ExhaustionInv
  <1> QED
    BY <1>1, <1>2, <1>3, PTL DEF Spec
-----------------------------------------------------------------------------
(* What a runner decides, in terms of the answers w it has had from sys.    *)

\* An answer of the server, or the budget's refusal.
Answered(c, n, a) == Readable(c, n, a) \/ a = Cut

\* A runner asks for more as long as the answers before the last leave it open.
Unsettled(c, w, sys) ==
    \A n \in 0 .. (Len(w) - 1) : Judge(c, SubSeq(w, 1, n), sys).says = "more"

\* The answers a case can have had when it is decided.
Heard(c, w, sys) ==
    /\ IsList(w) /\ \A n \in DOMAIN w : Answered(c, n, w[n])
    /\ Unsettled(c, w, sys)

\* The bound in a report is one that the measurement exceeds.
Exceeds(c, w, sys, v) ==
    \A d \in Range(BoundDetail(c, w, sys, v)) : d.observed > d.limit

\* A verdict that says of the answers what their contract says, but for the
\* completions that the runner is known to misread.
Sound(c, w, sys) ==
    LET v == Judge(c, w, sys)
    IN v.says \notin {"more", "errored"} =>
         /\ ~WithoutValues(c, w) => (v.says = "passed" <=> Contract(c, w, sys))
         /\ Exceeds(c, w, sys, v)

BoundReasons ==
    {"discovery-limit-exceeded", "token-budget-exceeded", "latency-budget-exceeded",
     "pagination-stalled-cursor", "surface-stalled-cursor"}

\* A list, by its positions.
LEMMA Shape ==
  ASSUME NEW w, IsList(w)
  PROVE  /\ Len(w) \in Nat /\ DOMAIN w = 1 .. Len(w) /\ (w = <<>> <=> Len(w) = 0)
         /\ Last(w) = w[Len(w)]
<1> DEFINE S == {w[k] : k \in DOMAIN w}
<1>1. w \in Seq(S)
  BY DEF IsList
<1>2. Len(w) \in Nat /\ DOMAIN w = 1 .. Len(w) /\ (w = <<>> <=> Len(w) = 0)
  <2> HIDE DEF S
  <2> QED
    BY <1>1, EmptySeq
<1> QED
  BY <1>2 DEF Last

\* The first n answers.
LEMMA Prefix ==
  ASSUME NEW w, IsList(w), NEW n \in 0 .. Len(w)
  PROVE  LET g == SubSeq(w, 1, n)
         IN  /\ IsList(g) /\ Len(g) = n /\ DOMAIN g = 1 .. n /\ (g = <<>> <=> n = 0)
             /\ Last(g) = g[n]
             /\ \A k \in 1 .. n : g[k] = w[k]
<1> DEFINE S == {w[k] : k \in DOMAIN w}
           g == SubSeq(w, 1, n)
<1>0. Len(w) \in Nat /\ DOMAIN w = 1 .. Len(w)
  BY Shape
<1>1. w \in Seq(S)
  BY DEF IsList
<1>2. g \in Seq(S) /\ Len(g) = n /\ DOMAIN g = 1 .. n /\ \A k \in 1 .. n : g[k] = w[k]
  <2>0. n \in Nat /\ n <= Len(w)
    BY <1>0
  <2>1. CASE n = 0
    <3> HIDE DEF S
    <3> QED
      BY <1>0, <1>1, <2>1
  <2>2. CASE n # 0
    <3>1. 1 \in 1 .. Len(w) + 1 /\ n \in 0 .. Len(w)
      BY <1>0, <2>0
    <3> HIDE DEF S
    <3>2. \A k \in 1 .. n : k \in 1 .. Len(w) /\ w[k] \in S
      BY <1>0, <1>1, <2>0
    <3> QED
      BY <1>1, <2>0, <2>2, <3>1, <3>2, SubSeqProperties
  <2> QED
    BY <2>1, <2>2
<1>3. IsList(g)
  <2> DEFINE T == {g[k] : k \in DOMAIN g}
  <2>1. \A k \in 1 .. n : g[k] \in T
    BY <1>2
  <2> HIDE DEF S, T, g
  <2>2. g \in Seq(T)
    BY <1>2, <2>1
  <2> QED
    BY <2>2 DEF IsList, T
<1> HIDE DEF S, g
<1>4. (g = <<>> <=> Len(g) = 0) /\ Last(g) = g[Len(g)]
  BY <1>3, Shape
<1>5. (g = <<>> <=> n = 0) /\ Last(g) = g[n]
  BY <1>2, <1>4
<1> QED
  BY <1>2, <1>3, <1>5 DEF g

\* What the verdicts say.
LEMMA Says ==
  /\ More.says = "more"
  /\ \A n : Pass(n).says = "passed" /\ Pass(n).reason = "none"
  /\ \A n, f, r : /\ FailAt(n, f, r).says = "failed" /\ FailAt(n, f, r).reason = r
                  /\ FailAt(n, f, r).attempts = n
  /\ \A n, r : Fail(n, r).says = "failed" /\ Fail(n, r).reason = r /\ Fail(n, r).attempts = n
  /\ \A r : Errored(r).says = "errored"
  /\ \A g : Raise(g).says = "errored"
BY DEF More, Pass, FailAt, Fail, Errored, Raise

\* What is raised: the last answer, when it is no answer to look at.
LEMMA RaisedIs ==
  ASSUME NEW w, IsList(w)
  PROVE  Raised(w) <=> /\ Len(w) > 0
                       /\ w[Len(w)].out \in {"unrecorded", "exhausted", "timeout", "closed", "invalid"}
BY Shape DEF Raised, Lost, LostOuts

\* What an answer may be.
LEMMA Outs ==
  ASSUME NEW c, NEW n, NEW a, Answered(c, n, a)
  PROVE  /\ a.out \in {"ok", "error", "unrecorded", "exhausted", "timeout", "closed", "invalid", "flood"}
         /\ a.out = "flood" => c.kind \in {"sampling", "elicitation"}
<1>1. CASE Readable(c, n, a)
  BY <1>1 DEF Readable, LostOuts
<1>2. CASE a = Cut
  BY <1>2 DEF Cut
<1> QED
  BY <1>1, <1>2 DEF Answered

\* A failure that names no bound.
LEMMA NoBound ==
  ASSUME NEW c, NEW w, NEW sys, NEW v, v.reason \notin BoundReasons
  PROVE  Exceeds(c, w, sys, v)
<1>1. BoundDetail(c, w, sys, v) = <<>>
  BY DEF BoundDetail, NoDetail, BoundReasons
<1> QED
  BY <1>1 DEF Exceeds, Range

\* A failure that names one.
LEMMA OneBound ==
  ASSUME NEW c, NEW w, NEW sys, NEW v, NEW b, NEW l, NEW o, o > l,
         BoundDetail(c, w, sys, v) = Detail(b, l, o)
  PROVE  Exceeds(c, w, sys, v)
<1>1. Range(Detail(b, l, o)) = {[bound |-> b, limit |-> l, observed |-> o]}
  BY DEF Detail, Range
<1> QED
  BY <1>1 DEF Exceeds
-----------------------------------------------------------------------------
(* Sums and largest elements.                                               *)

\* Induction over the numbers: the least counterexample has a predecessor.
LEMMA InductionOnNat ==
  ASSUME NEW S, 0 \in S, \A n \in Nat : n \in S => n + 1 \in S
  PROVE  \A n \in Nat : n \in S
<1> DEFINE T == Nat \ S
<1> SUFFICES ASSUME T # {} PROVE FALSE
  OBVIOUS
<1>1. IsWellFoundedOn(OpToRel(<, Nat), Nat)
  BY NatLessThanWellFounded, Zenon
<1>2. PICK x \in T : \A y \in T : ~(<<y, x>> \in OpToRel(<, Nat))
  <2> HIDE DEF T
  <2>1. T \subseteq Nat
    BY DEF T
  <2> QED
    BY <1>1, <2>1, WFMin, Zenon
<1>3. x \in Nat /\ x # 0
  BY <1>2
<1>4. x - 1 \in Nat /\ x - 1 < x /\ (x - 1) + 1 = x
  BY <1>3
<1>5. x - 1 \notin T
  BY <1>2, <1>3, <1>4 DEF OpToRel
<1> QED
  BY <1>2, <1>4, <1>5

\* The function that Total evaluates: what has been added up for a set of positions.
Sums(g, s, n) ==
    g = [t \in SUBSET (1 .. n) |->
           IF t = {} THEN 0 ELSE g[t \ {Max(t)}] + s[Max(t)]]

\* There is such a function.
LEMMA SumsExist ==
  ASSUME NEW s, NEW n \in Nat
  PROVE  \E g : Sums(g, s, n)
<1> DEFINE Good(m, g) == /\ Sums(g, s, m)
                         /\ \A t \in SUBSET (1 .. m) : t # {} => Max(t) \in t
           S == {m \in Nat : \E g : Good(m, g)}
<1>1. 0 \in S
  <2>1. SUBSET (1 .. 0) = {{}}
    OBVIOUS
  <2>2. Good(0, [t \in {{}} |-> 0])
    BY <2>1 DEF Sums
  <2> QED
    BY <2>2
<1>2. ASSUME NEW m \in Nat, m \in S PROVE m + 1 \in S
  <2>1. PICK g : Good(m, g)
    BY <1>2
  <2> DEFINE V(t) == IF m + 1 \in t THEN g[t \ {m + 1}] + s[m + 1] ELSE g[t]
             w == [t \in SUBSET (1 .. m + 1) |-> V(t)]
  <2>2. ASSUME NEW t \in SUBSET (1 .. m + 1)
        PROVE  IF m + 1 \in t THEN /\ Max(t) = m + 1
                                   /\ t \ {m + 1} \in SUBSET (1 .. m)
                                   /\ m + 1 \notin t \ {m + 1}
               ELSE t \in SUBSET (1 .. m)
    <3>1. CASE m + 1 \in t
      <4>1. \A y \in t : y \in Nat /\ m + 1 >= y
        BY <1>2
      <4>2. \A x \in t : (\A y \in t : x >= y) => x = m + 1
        BY <3>1, <4>1
      <4>3. Max(t) = m + 1
        BY <3>1, <4>1, <4>2 DEF Max
      <4> QED
        BY <1>2, <3>1, <4>3
    <3>2. CASE m + 1 \notin t
      BY <1>2, <3>2
    <3> QED
      BY <3>1, <3>2
  <2>3. ASSUME NEW t \in SUBSET (1 .. m + 1), t # {} PROVE Max(t) \in t
    BY <2>1, <2>2, <2>3
  <2>4. ASSUME NEW t \in SUBSET (1 .. m + 1)
        PROVE  w[t] = IF t = {} THEN 0 ELSE w[t \ {Max(t)}] + s[Max(t)]
    <3>0. w[t] = V(t)
      OBVIOUS
    <3>1. CASE m + 1 \in t
      <4>1. w[t \ {m + 1}] = g[t \ {m + 1}]
        BY <2>2, <3>1
      <4> HIDE DEF w
      <4> QED
        BY <2>2, <3>0, <3>1, <4>1
    <3>2. CASE m + 1 \notin t
      <4>1. t \in SUBSET (1 .. m)
        BY <2>2, <3>2
      <4>2. g[t] = IF t = {} THEN 0 ELSE g[t \ {Max(t)}] + s[Max(t)]
        BY <2>1, <4>1 DEF Sums
      <4>3. t # {} => t \ {Max(t)} \in SUBSET (1 .. m + 1) /\ m + 1 \notin t \ {Max(t)}
        BY <2>3, <3>2
      <4>4. t # {} => w[t \ {Max(t)}] = g[t \ {Max(t)}]
        BY <4>3
      <4> HIDE DEF w
      <4> QED
        BY <3>0, <3>2, <4>2, <4>4
    <3> QED
      BY <3>1, <3>2
  <2>5. Sums(w, s, m + 1)
    <3>1. DOMAIN w = SUBSET (1 .. m + 1) /\ w = [t \in DOMAIN w |-> w[t]]
      OBVIOUS
    <3> HIDE DEF w
    <3> QED
      BY <2>4, <3>1 DEF Sums
  <2>6. Good(m + 1, w)
    <3> HIDE DEF w
    <3> QED
      BY <2>3, <2>5
  <2> HIDE DEF Good, w
  <2> QED
    BY <1>2, <2>6
<1>3. n \in S
  <2> HIDE DEF S
  <2> QED
    BY <1>1, <1>2, InductionOnNat
<1> QED
  BY <1>3

\* The sums Total goes through, one size at a time.
LEMMA SumSteps ==
  ASSUME NEW s, NEW n \in Nat, DOMAIN s = 1 .. n
  PROVE  \E w : /\ w[0] = 0
                /\ \A k \in 1 .. n : w[k] = w[k - 1] + s[k]
                /\ w[n] = Total(s)
<1> DEFINE E(g) == g = [t \in SUBSET (1 .. n) |->
           IF t = {} THEN 0 ELSE g[t \ {Max(t)}] + s[Max(t)]]
           G == CHOOSE g : E(g)
           w == [k \in 0 .. n |-> G[1 .. k]]
<1>1. Total(s) = (CHOOSE g : E(g))[1 .. n]
  BY SMT DEF Total, FoldLeft, MapThenFoldSet
<1>2. E(G)
  <2>1. \E g : E(g)
    <3>1. PICK g : Sums(g, s, n)
      BY SumsExist, Zenon
    <3>2. E(g)
      BY <3>1, Zenon DEF Sums
    <3> HIDE DEF E
    <3> QED
      BY <3>2, Zenon
  <2> HIDE DEF E
  <2> QED
    BY <2>1
<1> HIDE DEF G
<1>3. \A t \in SUBSET (1 .. n) :
         G[t] = IF t = {} THEN 0 ELSE G[t \ {Max(t)}] + s[Max(t)]
  BY <1>2
<1>4. w[0] = 0
  <2>1. 1 .. 0 = {} /\ w[0] = G[1 .. 0] /\ {} \in SUBSET (1 .. n)
    OBVIOUS
  <2> QED
    BY <1>3, <2>1
<1>5. ASSUME NEW k \in 1 .. n PROVE w[k] = w[k - 1] + s[k]
  <2>1. w[k] = G[1 .. k] /\ w[k - 1] = G[1 .. k - 1]
    OBVIOUS
  <2>2. Max(1 .. k) = k
    <3>1. \A x \in 1 .. k : (\A y \in 1 .. k : x >= y) => x = k
      OBVIOUS
    <3>2. k \in 1 .. k /\ \A y \in 1 .. k : k >= y
      OBVIOUS
    <3> QED
      BY <3>1, <3>2 DEF Max
  <2>3. 1 .. k # {} /\ 1 .. k \in SUBSET (1 .. n) /\ (1 .. k) \ {k} = 1 .. k - 1
    OBVIOUS
  <2> HIDE DEF w
  <2> QED
    BY <1>3, <2>1, <2>2, <2>3
<1>6. w[n] = Total(s)
  BY <1>1 DEF G
<1> QED
  BY <1>4, <1>5, <1>6

\* The tokens of a catalog.
LEMMA TotalIsNumber == ASSUME NEW s \in Seq(Nat) PROVE Total(s) \in Nat
<1>0. Len(s) \in Nat /\ DOMAIN s = 1 .. Len(s) /\ \A k \in 1 .. Len(s) : s[k] \in Nat
  OBVIOUS
<1>1. PICK w : /\ w[0] = 0
               /\ \A k \in 1 .. Len(s) : w[k] = w[k - 1] + s[k]
               /\ w[Len(s)] = Total(s)
  BY <1>0, SumSteps
<1> DEFINE S == {k \in Nat : k <= Len(s) => w[k] \in Nat}
<1>2. 0 \in S
  BY <1>1
<1>3. ASSUME NEW k \in Nat, k \in S PROVE k + 1 \in S
  <2>1. k + 1 <= Len(s) => k + 1 \in 1 .. Len(s) /\ (k + 1) - 1 = k /\ w[k] \in Nat
    BY <1>0, <1>3
  <2> QED
    BY <1>0, <1>1, <2>1
<1>4. Len(s) \in S
  <2> HIDE DEF S
  <2> QED
    BY <1>0, <1>2, <1>3, InductionOnNat
<1>5. w[Len(s)] \in Nat
  BY <1>0, <1>4
<1>6. w[Len(s)] = Total(s)
  BY <1>1
<1> QED
  BY <1>5, <1>6

\* A list of numbers has a largest one.
LEMMA Largest ==
  ASSUME NEW n \in Nat, n > 0, NEW s, \A k \in 1 .. n : s[k] \in Nat
  PROVE  \E m \in 1 .. n : \A k \in 1 .. n : s[k] <= s[m]
<1> DEFINE S == {i \in Nat : i \in 1 .. n => \E m \in 1 .. i : \A k \in 1 .. i : s[k] <= s[m]}
<1>1. 0 \in S
  OBVIOUS
<1>2. ASSUME NEW i \in Nat, i \in S PROVE i + 1 \in S
  <2> SUFFICES ASSUME i + 1 \in 1 .. n
               PROVE  \E m \in 1 .. i + 1 : \A k \in 1 .. i + 1 : s[k] <= s[m]
    OBVIOUS
  <2>1. CASE i = 0
    <3>1. 1 .. i + 1 = {1} /\ s[1] <= s[1]
      BY <2>1
    <3> QED
      BY <3>1
  <2>2. CASE i # 0
    <3>1. PICK m \in 1 .. i : \A k \in 1 .. i : s[k] <= s[m]
      BY <1>2, <2>2
    <3>2. s[m] \in Nat /\ s[i + 1] \in Nat /\ \A k \in 1 .. i : s[k] \in Nat
      OBVIOUS
    <3>3. \A k \in 1 .. i + 1 : k \in 1 .. i \/ k = i + 1
      OBVIOUS
    <3>4. CASE s[m] <= s[i + 1]
      <4>1. \A k \in 1 .. i + 1 : s[k] <= s[i + 1]
        BY <3>1, <3>2, <3>3, <3>4
      <4> QED
        BY <4>1
    <3>5. CASE ~(s[m] <= s[i + 1])
      <4>1. \A k \in 1 .. i + 1 : s[k] <= s[m]
        BY <3>1, <3>2, <3>3, <3>5
      <4> QED
        BY <4>1
    <3> QED
      BY <3>4, <3>5
  <2> QED
    BY <2>1, <2>2
<1>3. n \in S
  <2> HIDE DEF S
  <2> QED
    BY <1>1, <1>2, InductionOnNat
<1> QED
  BY <1>3

\* So does a set of positions.
LEMMA LastOf ==
  ASSUME NEW n \in Nat, NEW T \in SUBSET (1 .. n), T # {}
  PROVE  Max(T) \in T /\ \A y \in T : y <= Max(T)
<1> DEFINE s == [k \in 1 .. n |-> IF k \in T THEN k ELSE 0]
<1>1. n > 0 /\ \A k \in 1 .. n : s[k] \in Nat
  <2>1. PICK x \in T : x \in 1 .. n
    OBVIOUS
  <2> QED
    BY <2>1
<1>2. PICK m \in 1 .. n : \A k \in 1 .. n : s[k] <= s[m]
  <2> HIDE DEF s
  <2> QED
    BY <1>1, Largest
<1>3. \A k \in T : k \in Nat /\ k <= s[m] /\ k > 0
  <2>1. \A k \in T : k \in 1 .. n /\ s[k] = k
    OBVIOUS
  <2> HIDE DEF s
  <2> QED
    BY <1>2, <2>1
<1>4. m \in T /\ \A k \in T : m >= k
  <2>1. m \in T => s[m] = m
    BY <1>2
  <2>2. m \notin T => s[m] = 0
    BY <1>2
  <2>3. PICK x \in T : TRUE
    OBVIOUS
  <2> HIDE DEF s
  <2> QED
    BY <1>3, <2>1, <2>2, <2>3
<1>5. \E x \in T : \A y \in T : x >= y
  BY <1>4
<1>6. Max(T) \in T /\ \A y \in T : Max(T) >= y
  BY <1>5 DEF Max
<1> QED
  BY <1>6
-----------------------------------------------------------------------------
(* Every kind of case, decided.                                             *)

Unanswered == {"unrecorded", "exhausted", "timeout", "closed", "invalid"}

\* The answers a case has had, and what its runner saw before each of them.
LEMMA HeardIs ==
  ASSUME NEW c, NEW w, NEW sys, Heard(c, w, sys)
  PROVE  /\ Len(w) \in Nat /\ DOMAIN w = 1 .. Len(w) /\ (w = <<>> <=> Len(w) = 0)
         /\ Last(w) = w[Len(w)]
         /\ Raised(w) <=> Len(w) > 0 /\ w[Len(w)].out \in Unanswered
         /\ \A n \in 1 .. Len(w) :
              /\ w[n].out \in {"ok", "error", "flood"} \cup Unanswered
              /\ w[n].out = "flood" => c.kind \in {"sampling", "elicitation"}
<1>1. IsList(w) /\ \A n \in DOMAIN w : Answered(c, n, w[n])
  BY DEF Heard
<1>2. /\ Len(w) \in Nat /\ DOMAIN w = 1 .. Len(w) /\ (w = <<>> <=> Len(w) = 0)
      /\ Last(w) = w[Len(w)]
  BY <1>1, Shape
<1>3. Raised(w) <=> Len(w) > 0 /\ w[Len(w)].out \in Unanswered
  BY <1>1, RaisedIs DEF Unanswered
<1>4. ASSUME NEW n \in 1 .. Len(w)
      PROVE  /\ w[n].out \in {"ok", "error", "flood"} \cup Unanswered
             /\ w[n].out = "flood" => c.kind \in {"sampling", "elicitation"}
  BY <1>1, <1>2, Outs DEF Unanswered
<1> QED
  BY <1>2, <1>3, <1>4

\* When a case had n answers and others were to come, its runner had not
\* decided, and an answer lost there was the last one.
LEMMA HeardBefore ==
  ASSUME NEW c, NEW w, NEW sys, Heard(c, w, sys), NEW n \in 0 .. Len(w) - 1
  PROVE  \E g : /\ Judge(c, g, sys).says = "more"
                /\ Len(g) = n /\ DOMAIN g = 1 .. n /\ (g = <<>> <=> n = 0) /\ Last(g) = g[n]
                /\ \A k \in 1 .. n : g[k] = w[k]
                /\ Raised(g) <=> n > 0 /\ w[n].out \in Unanswered
<1>0. IsList(w) /\ Len(w) \in Nat /\ n \in 0 .. Len(w) /\ n \in Nat
  BY HeardIs DEF Heard
<1>1. PICK g : g = SubSeq(w, 1, n)
  OBVIOUS
<1>2. /\ IsList(g) /\ Len(g) = n /\ DOMAIN g = 1 .. n /\ (g = <<>> <=> n = 0) /\ Last(g) = g[n]
      /\ \A k \in 1 .. n : g[k] = w[k]
  BY <1>0, <1>1, Prefix
<1>3. Judge(c, g, sys).says = "more"
  BY <1>1 DEF Heard, Unsettled
<1>4. Raised(g) <=> n > 0 /\ w[n].out \in Unanswered
  <2>1. n > 0 => g[n] = w[n]
    BY <1>0, <1>2
  <2> QED
    BY <1>2, <2>1, RaisedIs DEF Unanswered
<1> QED
  BY <1>2, <1>3, <1>4

\* The two cases that look at the catalog.
LEMMA CatalogSound ==
  ASSUME NEW c, NEW w, NEW sys, ValidCase(c), c.kind \in {"discovery-cost", "token-cost"},
         sys.tokens \in Seq(Nat), sys.bytes \in Nat
  PROVE  Sound(c, w, sys)
<1>0. /\ Len(sys.tokens) \in Nat /\ DOMAIN sys.tokens = 1 .. Len(sys.tokens)
      /\ \A i \in 1 .. Len(sys.tokens) : sys.tokens[i] \in Nat
  OBVIOUS
<1>1. CASE c.kind = "discovery-cost"
  <2>1. c.maxTools \in Nat /\ c.maxBytes \in Nat
    BY <1>1 DEF ValidCase
  <2> DEFINE failed == Len(sys.tokens) > c.maxTools \/ sys.bytes > c.maxBytes
             v == Judge(c, w, sys)
  <2>2. v = Unless(failed, 1, "discovery-limit-exceeded")
    BY <1>1 DEF Judge, DiscoveryCost
  <2>3. Contract(c, w, sys) <=> ~failed
    BY <1>0, <1>1, <2>1 DEF Contract
  <2>4. CASE failed
    <3>1. v.says = "failed" /\ v.reason = "discovery-limit-exceeded"
      BY <2>2, <2>4, Says DEF Unless
    <3>2. BoundDetail(c, w, sys, v) =
            IF Len(sys.tokens) > c.maxTools
              THEN Detail("max_tools", c.maxTools, Len(sys.tokens))
              ELSE Detail("max_schema_bytes", c.maxBytes, sys.bytes)
      BY <3>1 DEF BoundDetail
    <3>3. Exceeds(c, w, sys, v)
      <4>1. CASE Len(sys.tokens) > c.maxTools
        BY <3>2, <4>1, OneBound
      <4>2. CASE ~(Len(sys.tokens) > c.maxTools)
        BY <2>4, <3>2, <4>2, OneBound
      <4> QED
        BY <4>1, <4>2
    <3> QED
      BY <2>3, <2>4, <3>1, <3>3 DEF Sound
  <2>5. CASE ~failed
    <3>1. v.says = "passed" /\ v.reason = "none"
      BY <2>2, <2>5, Says DEF Unless
    <3>2. Exceeds(c, w, sys, v)
      BY <3>1, NoBound DEF BoundReasons
    <3> QED
      BY <2>3, <2>5, <3>1, <3>2 DEF Sound
  <2> QED
    BY <2>4, <2>5
<1>2. CASE c.kind = "token-cost"
  <2>1. c.maxTotal \in Nat /\ c.maxTool \in Nat
    BY <1>2 DEF ValidCase
  <2>2. PICK total \in Nat : total = Total(sys.tokens)
    BY TotalIsNumber
  <2> DEFINE over == \E i \in DOMAIN sys.tokens : sys.tokens[i] > c.maxTool
             failed == total > c.maxTotal \/ over
             v == Judge(c, w, sys)
  <2>3. v = Unless(failed, 1, "token-budget-exceeded")
    BY <1>2, <2>2 DEF Judge, TokenCost
  <2>4. Contract(c, w, sys) <=> ~failed
    <3>1. (\A t \in Range(sys.tokens) : t <= c.maxTool) <=> ~over
      <4>1. (\A t \in Range(sys.tokens) : t <= c.maxTool) <=>
              \A i \in 1 .. Len(sys.tokens) : sys.tokens[i] <= c.maxTool
        BY <1>0 DEF Range
      <4>2. \A i \in 1 .. Len(sys.tokens) : sys.tokens[i] <= c.maxTool <=> ~(sys.tokens[i] > c.maxTool)
        BY <1>0, <2>1
      <4> QED
        BY <1>0, <4>1, <4>2
    <3>2. Contract(c, w, sys) <=> total <= c.maxTotal /\ \A t \in Range(sys.tokens) : t <= c.maxTool
      BY <1>2, <2>2 DEF Contract
    <3> QED
      BY <2>1, <3>1, <3>2
  <2>5. CASE failed
    <3>1. v.says = "failed" /\ v.reason = "token-budget-exceeded"
      BY <2>3, <2>5, Says DEF Unless
    <3>2. BoundDetail(c, w, sys, v) =
            IF total > c.maxTotal
              THEN Detail("max_total_tokens", c.maxTotal, total)
              ELSE Detail("max_tool_tokens", c.maxTool, Max(Range(sys.tokens)))
      BY <2>2, <3>1 DEF BoundDetail
    <3>3. Exceeds(c, w, sys, v)
      <4>1. CASE total > c.maxTotal
        BY <3>2, <4>1, OneBound
      <4>2. CASE ~(total > c.maxTotal)
        <5>1. PICK i \in 1 .. Len(sys.tokens) : sys.tokens[i] > c.maxTool
          BY <1>0, <2>5, <4>2
        <5>2. PICK m \in 1 .. Len(sys.tokens) :
                \A k \in 1 .. Len(sys.tokens) : sys.tokens[k] <= sys.tokens[m]
          <6>1. Len(sys.tokens) > 0
            BY <1>0, <5>1
          <6> QED
            BY <1>0, <6>1, Largest
        <5>3. Range(sys.tokens) = {sys.tokens[k] : k \in 1 .. Len(sys.tokens)}
          BY <1>0 DEF Range
        <5>4. \E x \in Range(sys.tokens) : \A y \in Range(sys.tokens) : x >= y
          <6>1. sys.tokens[m] \in Range(sys.tokens)
            BY <5>3
          <6>2. \A y \in Range(sys.tokens) : sys.tokens[m] >= y
            BY <1>0, <5>2, <5>3
          <6> QED
            BY <6>1, <6>2
        <5>5. PICK x : x = Max(Range(sys.tokens))
          OBVIOUS
        <5>6. x \in Range(sys.tokens) /\ \A y \in Range(sys.tokens) : x >= y
          BY <5>4, <5>5 DEF Max
        <5>7. x > c.maxTool
          <6>1. x \in Nat /\ x >= sys.tokens[i]
            BY <1>0, <5>3, <5>6
          <6> QED
            BY <1>0, <2>1, <5>1, <6>1
        <5> QED
          BY <3>2, <4>2, <5>5, <5>7, OneBound
      <4> QED
        BY <4>1, <4>2
    <3> QED
      BY <2>4, <2>5, <3>1, <3>3 DEF Sound
  <2>6. CASE ~failed
    <3>1. v.says = "passed" /\ v.reason = "none"
      BY <2>3, <2>6, Says DEF Unless
    <3>2. Exceeds(c, w, sys, v)
      BY <3>1, NoBound DEF BoundReasons
    <3> QED
      BY <2>4, <2>6, <3>1, <3>2 DEF Sound
  <2> QED
    BY <2>5, <2>6
<1> QED
  BY <1>1, <1>2

\* A verdict that names no bound.
LEMMA SoundWithoutBound ==
  ASSUME NEW c, NEW w, NEW sys, Judge(c, w, sys).reason \notin BoundReasons,
         Judge(c, w, sys).says \notin {"more", "errored"} =>
           (Judge(c, w, sys).says = "passed" <=> Contract(c, w, sys))
  PROVE  Sound(c, w, sys)
BY NoBound DEF Sound

\* No reason of a case that was raised, or is not decided, names a bound.
LEMMA Unbounded ==
  /\ More.reason \notin BoundReasons
  /\ \A n : Pass(n).reason \notin BoundReasons
  /\ \A g : Raise(g).reason \notin BoundReasons
BY DEF More, Pass, Raise, Errored, TransportReason, BoundReasons

\* The schema is looked at before the call.
LEMMA SchemaSound ==
  ASSUME NEW c, NEW w, NEW sys, ValidCase(c), Heard(c, w, sys), c.kind = "schema-guessability"
  PROVE  Sound(c, w, sys)
<1> DEFINE preflight == CheckSchema(c.schema, c.arguments)
           broken == {i \in DOMAIN c.schema.required :
                        c.schema.required[i] \notin c.schema.properties \cap c.arguments}
<1>0. /\ Len(w) \in Nat /\ DOMAIN w = 1 .. Len(w) /\ (w = <<>> <=> Len(w) = 0)
      /\ Raised(w) <=> Len(w) > 0 /\ w[Len(w)].out \in Unanswered
      /\ \A n \in 1 .. Len(w) : w[n].out \in {"ok", "error"} \cup Unanswered
  BY HeardIs
<1>1. /\ preflight \in {"none", "invalid-schema", "missing-required-argument"}
      /\ preflight = "none" <=> c.schema.object /\ broken = {}
  BY DEF CheckSchema
<1>2. broken = {} <=> Range(c.schema.required) \subseteq c.schema.properties \cap c.arguments
  BY DEF Range
<1> HIDE DEF preflight, broken
<1>3. Judge(c, w, sys) = SchemaGuessability(c, w)
  BY DEF Judge
<1>4. Contract(c, w, sys) <=> preflight = "none" /\ AllOk(w) /\ Len(w) = 1
  BY <1>1, <1>2 DEF Contract
<1>5. CASE preflight # "none"
  <2>1. SchemaGuessability(c, w) = FailAt(0, 1, preflight)
    BY <1>5 DEF SchemaGuessability, preflight
  <2>2. preflight \notin BoundReasons
    BY <1>1, <1>5 DEF BoundReasons
  <2> QED
    BY <1>3, <1>4, <1>5, <2>1, <2>2, Says, SoundWithoutBound
<1>6. CASE preflight = "none"
  <2>1. Len(w) <= 1
    <3> SUFFICES ASSUME Len(w) > 1 PROVE FALSE
      BY <1>0
    <3>1. 1 \in 0 .. Len(w) - 1
      BY <1>0
    <3>2. PICK g : Judge(c, g, sys).says = "more" /\ (g = <<>> <=> 1 = 0)
      BY <3>1, HeardBefore
    <3>3. Judge(c, g, sys) = SchemaGuessability(c, g)
      BY DEF Judge
    <3>4. g # <<>>
      BY <3>2
    <3> QED
      BY <1>6, <3>2, <3>3, <3>4, Says DEF SchemaGuessability, preflight, Unless
  <2>2. CASE Len(w) = 0
    <3>1. SchemaGuessability(c, w) = More
      BY <1>0, <1>6, <2>2 DEF SchemaGuessability, preflight
    <3> QED
      BY <1>3, <3>1, Says, Unbounded, SoundWithoutBound
  <2>3. CASE Len(w) = 1 /\ Raised(w)
    <3>1. SchemaGuessability(c, w) = Raise(w)
      BY <1>0, <1>6, <2>3 DEF SchemaGuessability, preflight
    <3> QED
      BY <1>3, <3>1, Says, Unbounded, SoundWithoutBound
  <2>4. CASE Len(w) = 1 /\ ~Raised(w)
    <3>1. w[1].out \in {"ok", "error"} /\ (AllOk(w) <=> w[1].out = "ok")
      BY <1>0, <2>4 DEF AllOk
    <3>2. SchemaGuessability(c, w) = Unless(w[1].out = "error", 1, "unexpected-outcome")
      BY <1>0, <1>6, <2>4 DEF SchemaGuessability, preflight
    <3>3. /\ Judge(c, w, sys).reason \notin BoundReasons
          /\ Judge(c, w, sys).says = "passed" <=> w[1].out # "error"
      BY <1>3, <3>2, Says, Unbounded DEF Unless, BoundReasons
    <3> QED
      BY <1>4, <1>6, <2>4, <3>1, <3>3, SoundWithoutBound
  <2> QED
    BY <1>0, <2>1, <2>2, <2>3, <2>4
<1> QED
  BY <1>5, <1>6

\* One call after the other, until one fails.
LEMMA DegradationSound ==
  ASSUME NEW c, NEW w, NEW sys, ValidCase(c), Heard(c, w, sys), c.kind = "degradation-over-n"
  PROVE  Sound(c, w, sys)
<1>0. /\ Len(w) \in Nat /\ DOMAIN w = 1 .. Len(w) /\ Last(w) = w[Len(w)]
      /\ Raised(w) <=> Len(w) > 0 /\ w[Len(w)].out \in Unanswered
      /\ \A n \in 1 .. Len(w) : w[n].out \in {"ok", "error"} \cup Unanswered
  BY HeardIs
<1>1. c.maxAttempts \in Nat /\ Judge(c, w, sys) = DegradationOverN(c, w)
  BY DEF ValidCase, Judge
<1>2. Contract(c, w, sys) <=> AllOk(w) /\ Len(w) = c.maxAttempts
  BY DEF Contract
<1>3. ASSUME NEW n \in 1 .. Len(w), n < Len(w) PROVE w[n].out = "ok"
  <2>1. PICK g : /\ Judge(c, g, sys).says = "more" /\ Len(g) = n /\ Last(g) = g[n]
                 /\ \A k \in 1 .. n : g[k] = w[k]
                 /\ Raised(g) <=> n > 0 /\ w[n].out \in Unanswered
    <3>1. n \in 0 .. Len(w) - 1
      BY <1>0, <1>3
    <3> QED
      BY <3>1, HeardBefore
  <2>2. DegradationOverN(c, g).says = "more" /\ n > 0 /\ Last(g) = w[n]
    BY <1>0, <2>1 DEF Judge
  <2>3. ~Raised(g) /\ w[n].out # "error"
    BY <2>1, <2>2, Says DEF DegradationOverN
  <2> QED
    BY <1>0, <2>1, <2>2, <2>3
<1>4. CASE Raised(w)
  <2>1. Judge(c, w, sys) = Raise(w)
    BY <1>1, <1>4 DEF DegradationOverN
  <2> QED
    BY <2>1, Says, Unbounded, SoundWithoutBound
<1>5. CASE ~Raised(w) /\ Len(w) > 0 /\ w[Len(w)].out = "error"
  <2>1. Judge(c, w, sys) = Fail(Len(w), "unexpected-outcome")
    BY <1>0, <1>1, <1>5 DEF DegradationOverN
  <2>2. ~AllOk(w)
    BY <1>0, <1>5 DEF AllOk
  <2> QED
    BY <1>2, <2>1, <2>2, Says, SoundWithoutBound DEF BoundReasons
<1>6. CASE ~Raised(w) /\ ~(Len(w) > 0 /\ w[Len(w)].out = "error")
  <2>1. AllOk(w)
    BY <1>0, <1>3, <1>6 DEF AllOk
  <2>2. Judge(c, w, sys) = IF Len(w) = c.maxAttempts THEN Pass(Len(w)) ELSE More
    BY <1>0, <1>1, <1>6 DEF DegradationOverN
  <2> QED
    BY <1>2, <2>1, <2>2, Says, Unbounded, SoundWithoutBound
<1> QED
  BY <1>4, <1>5, <1>6

\* A call whose result is expected.
LEMMA ExpectationSound ==
  ASSUME NEW e, NEW a, ValidExpectation(e), a.out \in {"ok", "error"}
  PROVE  /\ CheckExpectation(e, a) = "none" <=> Satisfies(e, a)
         /\ CheckExpectation(e, a) \notin BoundReasons
BY DEF ValidExpectation, CheckExpectation, Satisfies, BoundReasons

\* One call is made, and passes exactly when its answer is the expected one.
LEMMA FidelitySound ==
  ASSUME NEW c, NEW w, NEW sys, ValidCase(c), Heard(c, w, sys), c.kind = "instruction-fidelity"
  PROVE  Sound(c, w, sys)
<1>0. /\ Len(w) \in Nat /\ DOMAIN w = 1 .. Len(w) /\ (w = <<>> <=> Len(w) = 0)
      /\ Raised(w) <=> Len(w) > 0 /\ w[Len(w)].out \in Unanswered
      /\ \A n \in 1 .. Len(w) : w[n].out \in {"ok", "error"} \cup Unanswered
  BY HeardIs
<1>1. Judge(c, w, sys) = InstructionFidelity(c, w) /\ ValidExpectation(c.expect)
  BY DEF ValidCase, Judge
<1>2. Contract(c, w, sys) <=> Len(w) = 1 /\ Satisfies(c.expect, w[1])
  BY DEF Contract
<1>3. Len(w) <= 1
  <2> SUFFICES ASSUME Len(w) > 1 PROVE FALSE
    BY <1>0
  <2>1. 1 \in 0 .. Len(w) - 1
    BY <1>0
  <2>2. PICK g : /\ Judge(c, g, sys).says = "more"
                 /\ (g = <<>> <=> 1 = 0)
    BY <2>1, HeardBefore
  <2>3. InstructionFidelity(c, g).says = "more" /\ g # <<>>
    BY <2>2 DEF Judge
  <2> QED
    BY <2>3, Says DEF InstructionFidelity, Unless
<1>4. CASE Len(w) = 0
  <2>1. Judge(c, w, sys) = More
    BY <1>0, <1>1, <1>4 DEF InstructionFidelity
  <2> QED
    BY <2>1, Says, Unbounded, SoundWithoutBound
<1>5. CASE Len(w) = 1 /\ Raised(w)
  <2>1. Judge(c, w, sys) = Raise(w)
    BY <1>0, <1>1, <1>5 DEF InstructionFidelity
  <2> QED
    BY <2>1, Says, Unbounded, SoundWithoutBound
<1>6. CASE Len(w) = 1 /\ ~Raised(w)
  <2>1. w[1].out \in {"ok", "error"}
    BY <1>0, <1>6
  <2>2. PICK reason : reason = CheckExpectation(c.expect, w[1])
    OBVIOUS
  <2>3. (reason = "none" <=> Satisfies(c.expect, w[1])) /\ reason \notin BoundReasons
    BY <1>1, <2>1, <2>2, ExpectationSound
  <2>4. Judge(c, w, sys) = IF reason # "none" THEN Fail(1, reason) ELSE Pass(1)
    BY <1>0, <1>1, <1>6, <2>2 DEF InstructionFidelity, Unless
  <2> QED
    BY <1>2, <1>6, <2>3, <2>4, Says, Unbounded, SoundWithoutBound
<1> QED
  BY <1>0, <1>3, <1>4, <1>5, <1>6

\* The failing call, the recovering and the validating one.
LEMMA RecoverySound ==
  ASSUME NEW c, NEW w, NEW sys, ValidCase(c), Heard(c, w, sys), c.kind = "state-recovery"
  PROVE  Sound(c, w, sys)
<1>0. /\ Len(w) \in Nat /\ DOMAIN w = 1 .. Len(w) /\ Last(w) = w[Len(w)]
      /\ Raised(w) <=> Len(w) > 0 /\ w[Len(w)].out \in Unanswered
      /\ \A n \in 1 .. Len(w) : w[n].out \in {"ok", "error"} \cup Unanswered
  BY HeardIs
<1>1. Judge(c, w, sys) = StateRecovery(c, w)
  BY DEF Judge
<1>2. Contract(c, w, sys) <=>
        Len(w) = 3 /\ w[1].out = "error" /\ w[2].out = "ok" /\ w[3].out = "ok"
  <2>1. PICK t : t = [i \in DOMAIN w |-> w[i].out]
    OBVIOUS
  <2>2. Contract(c, w, sys) <=> t = <<"error", "ok", "ok">>
    BY <2>1 DEF Contract
  <2>3. DOMAIN t = 1 .. Len(w) /\ t = [i \in 1 .. Len(w) |-> t[i]] /\ \A i \in 1 .. Len(w) : t[i] = w[i].out
    BY <1>0, <2>1
  <2>4. ASSUME t = <<"error", "ok", "ok">>
        PROVE  Len(w) = 3 /\ w[1].out = "error" /\ w[2].out = "ok" /\ w[3].out = "ok"
    <3>1. 1 .. Len(w) = 1 .. 3
      BY <2>3, <2>4
    <3>2. 1 \in 1 .. Len(w) /\ 2 \in 1 .. Len(w) /\ 3 \in 1 .. Len(w) /\ 4 \notin 1 .. Len(w)
      BY <3>1
    <3>3. Len(w) = 3
      BY <1>0, <3>2
    <3> QED
      BY <2>3, <2>4, <3>2, <3>3
  <2>5. ASSUME Len(w) = 3, w[1].out = "error", w[2].out = "ok", w[3].out = "ok"
        PROVE  t = <<"error", "ok", "ok">>
    <3>1. t = [i \in 1 .. 3 |-> t[i]] /\ t[1] = "error" /\ t[2] = "ok" /\ t[3] = "ok"
      BY <2>3, <2>5
    <3> QED
      BY <3>1
  <2> QED
    BY <2>2, <2>4, <2>5
<1>3. ASSUME NEW n \in 1 .. Len(w), n < Len(w)
      PROVE  n # 3 /\ w[n].out = IF n = 1 THEN "error" ELSE "ok"
  <2>1. PICK g : /\ Judge(c, g, sys).says = "more" /\ Len(g) = n /\ Last(g) = g[n]
                 /\ \A k \in 1 .. n : g[k] = w[k]
                 /\ Raised(g) <=> n > 0 /\ w[n].out \in Unanswered
    <3>1. n \in 0 .. Len(w) - 1
      BY <1>0, <1>3
    <3> QED
      BY <3>1, HeardBefore
  <2>2. StateRecovery(c, g).says = "more" /\ n > 0 /\ Last(g) = w[n]
    BY <1>0, <2>1 DEF Judge
  <2>3. ~Raised(g) /\ ~((n = 1) = (w[n].out = "ok")) /\ n # 3
    BY <2>1, <2>2, Says DEF StateRecovery
  <2> QED
    BY <1>0, <2>1, <2>2, <2>3
<1>4. CASE Len(w) = 0
  <2>1. Judge(c, w, sys) = More
    BY <1>1, <1>4 DEF StateRecovery
  <2> QED
    BY <2>1, Says, Unbounded, SoundWithoutBound
<1>5. CASE Raised(w)
  <2>1. Judge(c, w, sys) = Raise(w)
    BY <1>0, <1>1, <1>5 DEF StateRecovery
  <2> QED
    BY <2>1, Says, Unbounded, SoundWithoutBound
<1>6. CASE Len(w) > 0 /\ ~Raised(w)
  <2>1. Len(w) \in 1 .. 3
    <3> SUFFICES ASSUME Len(w) > 3 PROVE FALSE
      BY <1>0, <1>6
    <3>1. 3 \in 1 .. Len(w) /\ 3 < Len(w)
      BY <1>0
    <3> QED
      BY <1>3, <3>1
  <2>2. w[Len(w)].out \in {"ok", "error"}
    BY <1>0, <1>6
  <2>3. CASE (Len(w) = 1) = (w[Len(w)].out = "ok")
    <3>1. PICK reason : reason = <<"failure-not-observed", "recovery-failed", "validation-failed">>[Len(w)]
      OBVIOUS
    <3>2. Judge(c, w, sys) = Fail(Len(w), reason)
      BY <1>0, <1>1, <1>6, <2>3, <3>1 DEF StateRecovery
    <3>3. reason \notin BoundReasons
      <4>1. Len(w) = 1 \/ Len(w) = 2 \/ Len(w) = 3
        BY <2>1
      <4>2. reason \in {"failure-not-observed", "recovery-failed", "validation-failed"}
        <5>1. PICK t : t = <<"failure-not-observed", "recovery-failed", "validation-failed">>
          OBVIOUS
        <5>2. t[1] = "failure-not-observed" /\ t[2] = "recovery-failed" /\ t[3] = "validation-failed"
          BY <5>1
        <5>3. reason = t[Len(w)]
          BY <3>1, <5>1
        <5> QED
          BY <4>1, <5>2, <5>3
      <4> QED
        BY <4>2 DEF BoundReasons
    <3>4. ~(Len(w) = 3 /\ w[1].out = "error" /\ w[2].out = "ok" /\ w[3].out = "ok")
      BY <2>3
    <3> QED
      BY <1>2, <3>2, <3>3, <3>4, Says, SoundWithoutBound
  <2>4. CASE ~((Len(w) = 1) = (w[Len(w)].out = "ok"))
    <3>1. Judge(c, w, sys) = IF Len(w) = 3 THEN Pass(3) ELSE More
      BY <1>0, <1>1, <1>6, <2>4 DEF StateRecovery
    <3>2. Len(w) = 3 => w[1].out = "error" /\ w[2].out = "ok" /\ w[3].out = "ok"
      <4> SUFFICES ASSUME Len(w) = 3 PROVE w[1].out = "error" /\ w[2].out = "ok" /\ w[3].out = "ok"
        OBVIOUS
      <4>1. w[1].out = "error" /\ w[2].out = "ok"
        BY <1>3
      <4> QED
        BY <2>2, <2>4, <4>1
    <3> QED
      BY <1>2, <3>1, <3>2, Says, Unbounded, SoundWithoutBound
  <2> QED
    BY <2>3, <2>4
<1> QED
  BY <1>0, <1>4, <1>5, <1>6

\* The slowest of the answers so far names the bound.
LEMMA LatencySound ==
  ASSUME NEW c, NEW w, NEW sys, ValidCase(c), Heard(c, w, sys), c.kind = "latency-budget"
  PROVE  Sound(c, w, sys)
<1>0. /\ Len(w) \in Nat /\ DOMAIN w = 1 .. Len(w) /\ Last(w) = w[Len(w)]
      /\ Raised(w) <=> Len(w) > 0 /\ w[Len(w)].out \in Unanswered
      /\ \A n \in 1 .. Len(w) : w[n].out \in {"ok", "error"} \cup Unanswered
  BY HeardIs
<1>1. /\ c.attempts \in Nat /\ c.maxLatency \in Nat /\ Judge(c, w, sys) = LatencyBudget(c, w)
  BY DEF ValidCase, Judge
<1>2. ASSUME NEW n \in 1 .. Len(w), w[n].out = "ok" PROVE w[n].is \in Nat
  <2>1. Answered(c, n, w[n])
    BY <1>0 DEF Heard
  <2> QED
    BY <1>2, <2>1 DEF Answered, Readable, Cut
<1>3. Contract(c, w, sys) <=>
        /\ AllOk(w) /\ Len(w) = c.attempts
        /\ \A n \in 1 .. Len(w) : w[n].is <= c.maxLatency
  <2>1. Range(w) = {w[n] : n \in 1 .. Len(w)}
    BY <1>0 DEF Range
  <2> QED
    BY <2>1 DEF Contract
<1>4. ASSUME NEW n \in 1 .. Len(w), n < Len(w) PROVE w[n].out = "ok" /\ w[n].is <= c.maxLatency
  <2>1. PICK g : /\ Judge(c, g, sys).says = "more" /\ Len(g) = n /\ Last(g) = g[n]
                 /\ \A k \in 1 .. n : g[k] = w[k]
                 /\ Raised(g) <=> n > 0 /\ w[n].out \in Unanswered
    <3>1. n \in 0 .. Len(w) - 1
      BY <1>0, <1>4
    <3> QED
      BY <3>1, HeardBefore
  <2>2. LatencyBudget(c, g).says = "more" /\ n > 0 /\ Last(g) = w[n]
    BY <1>0, <2>1 DEF Judge
  <2>3. ~Raised(g) /\ w[n].out # "error" /\ ~(w[n].is > c.maxLatency)
    BY <2>1, <2>2, Says DEF LatencyBudget
  <2>4. w[n].out = "ok"
    BY <1>0, <2>1, <2>2, <2>3
  <2> QED
    BY <1>1, <1>2, <2>3, <2>4
<1>5. CASE Raised(w)
  <2>1. Judge(c, w, sys) = Raise(w)
    BY <1>1, <1>5 DEF LatencyBudget
  <2> QED
    BY <2>1, Says, Unbounded, SoundWithoutBound
<1>6. CASE ~Raised(w) /\ Len(w) > 0 /\ w[Len(w)].out = "error"
  <2>1. Judge(c, w, sys) = Fail(Len(w), "unexpected-outcome")
    BY <1>0, <1>1, <1>6 DEF LatencyBudget
  <2>2. ~AllOk(w)
    BY <1>0, <1>6 DEF AllOk
  <2> QED
    BY <1>3, <2>1, <2>2, Says, SoundWithoutBound DEF BoundReasons
<1>7. CASE ~Raised(w) /\ Len(w) > 0 /\ w[Len(w)].out # "error"
  <2>1. w[Len(w)].out = "ok" /\ Len(w) \in 1 .. Len(w)
    BY <1>0, <1>7
  <2>2. AllOk(w) /\ \A n \in 1 .. Len(w) : w[n].is \in Nat
    BY <1>0, <1>2, <1>4, <2>1 DEF AllOk
  <2>3. CASE w[Len(w)].is > c.maxLatency
    <3>1. Judge(c, w, sys) = Fail(Len(w), "latency-budget-exceeded")
      BY <1>0, <1>1, <1>7, <2>3 DEF LatencyBudget
    <3>2. ~Contract(c, w, sys)
      BY <1>1, <1>3, <2>1, <2>2, <2>3
    <3>3. PICK x : x = Slowest(w)
      OBVIOUS
    <3>4. x \in Nat /\ w[Len(w)].is <= x
      <4> DEFINE L == {a.is : a \in Range(w)}
                 s == [n \in 1 .. Len(w) |-> w[n].is]
      <4>1. L = {w[n].is : n \in 1 .. Len(w)} /\ \A a \in Range(w) : \E n \in 1 .. Len(w) : a = w[n]
        BY <1>0 DEF Range
      <4>2. PICK m \in 1 .. Len(w) : \A n \in 1 .. Len(w) : w[n].is <= w[m].is
        <5>1. \A n \in 1 .. Len(w) : s[n] = w[n].is
          OBVIOUS
        <5> HIDE DEF s
        <5>2. \E m \in 1 .. Len(w) : \A n \in 1 .. Len(w) : s[n] <= s[m]
          BY <1>0, <1>7, <2>2, <5>1, Largest
        <5> QED
          BY <5>1, <5>2
      <4>3. \E l \in L : \A a \in Range(w) : a.is <= l
        BY <4>1, <4>2
      <4>4. x \in L /\ \A a \in Range(w) : a.is <= x
        BY <3>3, <4>3 DEF Slowest
      <4>5. w[Len(w)] \in Range(w)
        BY <1>0, <2>1 DEF Range
      <4> QED
        BY <2>2, <4>1, <4>4, <4>5
    <3>5. Judge(c, w, sys).says = "failed" /\ Judge(c, w, sys).reason = "latency-budget-exceeded"
      BY <3>1, Says
    <3>6. BoundDetail(c, w, sys, Judge(c, w, sys)) = Detail("max_latency_ms", c.maxLatency, x)
      BY <3>3, <3>5 DEF BoundDetail
    <3>7. x > c.maxLatency
      BY <1>1, <2>1, <2>2, <2>3, <3>4
    <3>8. Exceeds(c, w, sys, Judge(c, w, sys))
      BY <3>6, <3>7, OneBound
    <3> QED
      BY <3>2, <3>5, <3>8 DEF Sound
  <2>4. CASE ~(w[Len(w)].is > c.maxLatency)
    <3>1. \A n \in 1 .. Len(w) : w[n].is <= c.maxLatency
      BY <1>0, <1>1, <1>4, <2>1, <2>2, <2>4
    <3>2. Judge(c, w, sys) = IF Len(w) = c.attempts THEN Pass(Len(w)) ELSE More
      BY <1>0, <1>1, <1>7, <2>4 DEF LatencyBudget
    <3> QED
      BY <1>3, <2>2, <3>1, <3>2, Says, Unbounded, SoundWithoutBound
  <2> QED
    BY <2>3, <2>4
<1>8. CASE ~Raised(w) /\ Len(w) = 0
  <2>1. Judge(c, w, sys) = IF Len(w) = c.attempts THEN Pass(Len(w)) ELSE More
    BY <1>0, <1>1, <1>8 DEF LatencyBudget
  <2>2. AllOk(w) /\ \A n \in 1 .. Len(w) : w[n].is <= c.maxLatency
    BY <1>0, <1>8 DEF AllOk
  <2> QED
    BY <1>3, <2>1, <2>2, Says, Unbounded, SoundWithoutBound
<1> QED
  BY <1>0, <1>5, <1>6, <1>7, <1>8

\* A result that has to conform.
LEMMA OutputSound ==
  ASSUME NEW c, NEW w, NEW sys, ValidCase(c), Heard(c, w, sys), c.kind = "output-schema"
  PROVE  Sound(c, w, sys)
<1>0. /\ Len(w) \in Nat /\ DOMAIN w = 1 .. Len(w) /\ (w = <<>> <=> Len(w) = 0) /\ Last(w) = w[Len(w)]
      /\ Raised(w) <=> Len(w) > 0 /\ w[Len(w)].out \in Unanswered
      /\ \A n \in 1 .. Len(w) : w[n].out \in {"ok", "error"} \cup Unanswered
  BY HeardIs
<1>1. Judge(c, w, sys) = OutputSchema(c, w)
  BY DEF Judge
<1>2. CASE ~c.declared
  <2>1. Judge(c, w, sys) = Pass(0) /\ Contract(c, w, sys)
    BY <1>1, <1>2 DEF OutputSchema, Contract
  <2> QED
    BY <2>1, Says, Unbounded, SoundWithoutBound
<1>3. CASE c.declared
  <2>1. Len(w) <= 1
    <3> SUFFICES ASSUME Len(w) > 1 PROVE FALSE
      BY <1>0
    <3>1. 1 \in 0 .. Len(w) - 1
      BY <1>0
    <3>2. PICK g : Judge(c, g, sys).says = "more" /\ (g = <<>> <=> 1 = 0)
      BY <3>1, HeardBefore
    <3>3. OutputSchema(c, g).says = "more" /\ g # <<>>
      BY <3>2 DEF Judge
    <3> QED
      BY <1>3, <3>3, Says DEF OutputSchema, Unless
  <2>2. CASE Len(w) = 0
    <3>1. Judge(c, w, sys) = More
      BY <1>0, <1>1, <1>3, <2>2 DEF OutputSchema
    <3> QED
      BY <3>1, Says, Unbounded, SoundWithoutBound
  <2>3. CASE Len(w) = 1 /\ Raised(w)
    <3>1. Judge(c, w, sys) = Raise(w)
      BY <1>0, <1>1, <1>3, <2>3 DEF OutputSchema
    <3> QED
      BY <3>1, Says, Unbounded, SoundWithoutBound
  <2>4. CASE Len(w) = 1 /\ ~Raised(w)
    <3>1. w[1].out \in {"ok", "error"}
      BY <1>0, <2>4
    <3>2. Contract(c, w, sys) <=> w[1].out = "ok" /\ w[1].is = "conforming"
      <4>1. Range(w) = {w[1]} /\ DOMAIN w = {1}
        BY <1>0, <2>4 DEF Range
      <4> QED
        BY <1>3, <4>1 DEF Contract, AllOk
    <3>3. /\ Judge(c, w, sys).says \in {"passed", "failed"}
          /\ Judge(c, w, sys).says = "passed" <=> w[1].out = "ok" /\ w[1].is = "conforming"
          /\ Judge(c, w, sys).reason \notin BoundReasons
      BY <1>0, <1>1, <1>3, <2>4, <3>1, Says DEF OutputSchema, Unless, BoundReasons
    <3> QED
      BY <3>2, <3>3, SoundWithoutBound
  <2> QED
    BY <1>0, <2>1, <2>2, <2>3, <2>4
<1> QED
  BY <1>2, <1>3

\* A call, its cancellation and, where cancelling is optional, another call.
LEMMA CancellationSound ==
  ASSUME NEW c, NEW w, NEW sys, ValidCase(c), Heard(c, w, sys), c.kind = "cancellation"
  PROVE  Sound(c, w, sys)
<1>0. /\ Len(w) \in Nat /\ DOMAIN w = 1 .. Len(w) /\ (w = <<>> <=> Len(w) = 0) /\ Last(w) = w[Len(w)]
      /\ Raised(w) <=> Len(w) > 0 /\ w[Len(w)].out \in Unanswered
      /\ \A n \in 1 .. Len(w) : w[n].out \in {"ok", "error"} \cup Unanswered
  BY HeardIs
<1>1. Judge(c, w, sys) = Cancellation(c, w)
  BY DEF Judge
<1>2. ASSUME NEW n \in 1 .. Len(w), n < Len(w)
      PROVE  /\ n # 3 /\ w[n].out \notin Unanswered
             /\ n = 1 => w[1].out = "ok"
             /\ n = 2 => w[2].is # "errored" /\ ~c.requireHonored
  <2>1. PICK g : /\ Judge(c, g, sys).says = "more" /\ Len(g) = n /\ Last(g) = g[n]
                 /\ (g = <<>> <=> n = 0)
                 /\ \A k \in 1 .. n : g[k] = w[k]
                 /\ Raised(g) <=> n > 0 /\ w[n].out \in Unanswered
    <3>1. n \in 0 .. Len(w) - 1
      BY <1>0, <1>2
    <3> QED
      BY <3>1, HeardBefore
  <2>2. Cancellation(c, g).says = "more" /\ n > 0 /\ Last(g) = w[n]
    BY <1>0, <2>1 DEF Judge
  <2>3. ~Raised(g)
    BY <2>1, <2>2, Says DEF Cancellation
  <2>4. n # 3
    BY <2>1, <2>2, <2>3, Says DEF Cancellation, Unless
  <2>5. n = 1 => w[1].out = "ok"
    BY <2>1, <2>2, <2>3, Says DEF Cancellation
  <2>6. n = 2 => w[2].is # "errored" /\ ~c.requireHonored
    BY <2>1, <2>2, <2>3, Says DEF Cancellation, Unless
  <2> QED
    BY <2>1, <2>2, <2>3, <2>4, <2>5, <2>6
<1>3. 2 \in 1 .. Len(w) /\ w[2].out \notin Unanswered =>
        w[2].out = "ok" /\ w[2].is \in {"honored", "ignored", "errored"}
  <2> SUFFICES ASSUME 2 \in 1 .. Len(w), w[2].out \notin Unanswered
               PROVE  w[2].out = "ok" /\ w[2].is \in {"honored", "ignored", "errored"}
    OBVIOUS
  <2>1. Answered(c, 2, w[2]) /\ w[2].out \in {"ok", "error"}
    BY <1>0 DEF Heard
  <2>2. w[2] # Cut
    BY DEF Cut, Unanswered
  <2> QED
    BY <2>1, <2>2 DEF Answered, Readable
<1>4. Contract(c, w, sys) <=> /\ AllOk(w) /\ w[2].is # "errored"
                             /\ IF c.requireHonored THEN w[2].is = "honored" ELSE Len(w) = 3
  BY DEF Contract
<1>5. Len(w) <= 3
  <2> SUFFICES ASSUME Len(w) > 3 PROVE FALSE
    BY <1>0
  <2>1. 3 \in 1 .. Len(w) /\ 3 < Len(w)
    BY <1>0
  <2> QED
    BY <1>2, <2>1
<1>6. CASE Len(w) = 0
  <2>1. Judge(c, w, sys) = More
    BY <1>1, <1>6 DEF Cancellation
  <2> QED
    BY <2>1, Says, Unbounded, SoundWithoutBound
<1>7. CASE Raised(w)
  <2>1. Judge(c, w, sys) = Raise(w)
    BY <1>0, <1>1, <1>7 DEF Cancellation
  <2> QED
    BY <2>1, Says, Unbounded, SoundWithoutBound
<1>8. CASE ~Raised(w) /\ Len(w) = 1
  <2>1. Judge(c, w, sys) = IF w[1].out = "ok" THEN More ELSE Fail(1, "unexpected-outcome")
    BY <1>1, <1>8 DEF Cancellation
  <2>2. AllOk(w) => w[1].out = "ok"
    BY <1>0, <1>8 DEF AllOk
  <2>3. "unexpected-outcome" \notin BoundReasons
    BY DEF BoundReasons
  <2> QED
    BY <1>4, <2>1, <2>2, <2>3, Says, Unbounded, SoundWithoutBound
<1>9. CASE ~Raised(w) /\ Len(w) = 2
  <2>1. 1 \in 1 .. Len(w) /\ 2 \in 1 .. Len(w) /\ 1 < Len(w)
    BY <1>9
  <2>2. w[1].out = "ok" /\ w[2].out = "ok" /\ w[2].is \in {"honored", "ignored", "errored"}
    BY <1>0, <1>2, <1>3, <1>9, <2>1
  <2>3. AllOk(w)
    <3>1. DOMAIN w = {1, 2}
      BY <1>0, <1>9
    <3> QED
      BY <2>2, <3>1 DEF AllOk
  <2>4. Judge(c, w, sys) = IF w[2].is = "errored" THEN Fail(2, "cancellation-errored")
                           ELSE IF ~c.requireHonored THEN More
                           ELSE Unless(w[2].is = "ignored", 2, "cancellation-ignored")
    BY <1>1, <1>9 DEF Cancellation
  <2>5. Judge(c, w, sys).reason \notin BoundReasons
    BY <2>4, Says, Unbounded DEF Unless, BoundReasons
  <2>6. Judge(c, w, sys).says # "more" =>
          (Judge(c, w, sys).says = "passed" <=> c.requireHonored /\ w[2].is = "honored")
    BY <2>2, <2>4, Says DEF Unless
  <2>7. Judge(c, w, sys).says # "more" => (Contract(c, w, sys) <=> c.requireHonored /\ w[2].is = "honored")
    BY <1>4, <1>9, <2>3, <2>4, Says
  <2> QED
    BY <2>5, <2>6, <2>7, SoundWithoutBound
<1>10. CASE ~Raised(w) /\ Len(w) = 3
  <2>1. 1 \in 1 .. Len(w) /\ 2 \in 1 .. Len(w) /\ 3 \in 1 .. Len(w) /\ 1 < Len(w) /\ 2 < Len(w)
    BY <1>10
  <2>2. w[1].out = "ok" /\ w[2].out = "ok" /\ w[2].is # "errored" /\ ~c.requireHonored
    BY <1>2, <1>3, <2>1
  <2>3. w[3].out \in {"ok", "error"}
    BY <1>0, <1>10
  <2>4. AllOk(w) <=> w[3].out = "ok"
    <3>1. DOMAIN w = {1, 2, 3}
      BY <1>0, <1>10
    <3> QED
      BY <2>2, <3>1 DEF AllOk
  <2>5. Judge(c, w, sys) = Unless(w[3].out = "error", 3, "recovery-failed")
    BY <1>1, <1>10 DEF Cancellation
  <2>6. /\ Judge(c, w, sys).reason \notin BoundReasons
        /\ Judge(c, w, sys).says = "passed" <=> w[3].out # "error"
    BY <2>5, Says, Unbounded DEF Unless, BoundReasons
  <2> QED
    BY <1>4, <1>10, <2>2, <2>3, <2>4, <2>6, SoundWithoutBound
<1> QED
  BY <1>0, <1>5, <1>6, <1>7, <1>8, <1>9, <1>10

\* The oversized call and the ping: a loss is a verdict.
LEMMA PayloadSound ==
  ASSUME NEW c, NEW w, NEW sys, ValidCase(c), Heard(c, w, sys), c.kind = "payload-bounds"
  PROVE  Sound(c, w, sys)
<1>0. /\ Len(w) \in Nat /\ DOMAIN w = 1 .. Len(w) /\ (w = <<>> <=> Len(w) = 0) /\ Last(w) = w[Len(w)]
      /\ Raised(w) <=> Len(w) > 0 /\ w[Len(w)].out \in Unanswered
      /\ \A n \in 1 .. Len(w) : w[n].out \in {"ok", "error"} \cup Unanswered
  BY HeardIs
<1>1. Judge(c, w, sys) = PayloadBounds(c, w)
  BY DEF Judge
<1>2. Lost(Last(w)) <=> w[Len(w)].out \in Unanswered \ {"unrecorded"}
  BY <1>0 DEF Lost, LostOuts, Unanswered
<1>3. ASSUME NEW n \in 1 .. Len(w), n < Len(w)
      PROVE  /\ n = 1 /\ w[1].out \notin Unanswered
             /\ ~(w[1].out = "error" /\ c.expectHandled)
  <2>1. PICK g : /\ Judge(c, g, sys).says = "more" /\ Len(g) = n /\ Last(g) = g[n]
                 /\ (g = <<>> <=> n = 0)
                 /\ \A k \in 1 .. n : g[k] = w[k]
                 /\ Raised(g) <=> n > 0 /\ w[n].out \in Unanswered
    <3>1. n \in 0 .. Len(w) - 1
      BY <1>0, <1>3
    <3> QED
      BY <3>1, HeardBefore
  <2>2. PayloadBounds(c, g).says = "more" /\ n > 0 /\ Last(g) = w[n] /\ g # <<>>
    BY <1>0, <2>1 DEF Judge
  <2>3. Last(g).out # "unrecorded" /\ ~Lost(Last(g))
    BY <2>2, Says DEF PayloadBounds
  <2>4. w[n].out \notin Unanswered
    BY <2>2, <2>3 DEF Lost, LostOuts, Unanswered
  <2>5. n = 1
    BY <2>1, <2>2, <2>3, Says DEF PayloadBounds, Unless
  <2>6. ~(w[1].out = "error" /\ c.expectHandled)
    BY <2>1, <2>2, <2>3, <2>5, Says DEF PayloadBounds
  <2> QED
    BY <2>4, <2>5, <2>6
<1>4. Contract(c, w, sys) <=>
        /\ w[Len(w)].out = "ok" /\ Len(w) = 2
        /\ w[1].out \in (IF c.expectHandled THEN {"ok"} ELSE {"ok", "error"})
  BY DEF Contract
<1>5. Len(w) <= 2
  <2> SUFFICES ASSUME Len(w) > 2 PROVE FALSE
    BY <1>0
  <2>1. 2 \in 1 .. Len(w) /\ 2 < Len(w)
    BY <1>0
  <2> QED
    BY <1>3, <2>1
<1>6. CASE Len(w) = 0
  <2>1. Judge(c, w, sys) = More
    BY <1>0, <1>1, <1>6 DEF PayloadBounds
  <2> QED
    BY <2>1, Says, Unbounded, SoundWithoutBound
<1>7. CASE Len(w) > 0 /\ w[Len(w)].out = "unrecorded"
  <2>1. Judge(c, w, sys) = Raise(w)
    BY <1>0, <1>1, <1>7 DEF PayloadBounds
  <2> QED
    BY <2>1, Says, Unbounded, SoundWithoutBound
<1>8. CASE Len(w) > 0 /\ w[Len(w)].out # "unrecorded" /\ w[Len(w)].out \in Unanswered
  <2>1. Judge(c, w, sys) = Fail(1, "payload-unhandled") /\ w[Len(w)].out # "ok"
    BY <1>0, <1>1, <1>2, <1>8 DEF PayloadBounds, Unanswered
  <2> QED
    BY <1>4, <2>1, Says, SoundWithoutBound DEF BoundReasons
<1>9. CASE Len(w) = 1 /\ w[Len(w)].out \notin Unanswered
  <2>1. Judge(c, w, sys) = IF w[1].out = "error" /\ c.expectHandled
                             THEN Fail(1, "unexpected-outcome") ELSE More
    BY <1>0, <1>1, <1>2, <1>9 DEF PayloadBounds, Unanswered
  <2>2. "unexpected-outcome" \notin BoundReasons /\ ~Contract(c, w, sys)
    BY <1>4, <1>9 DEF BoundReasons
  <2> QED
    BY <2>1, <2>2, Says, Unbounded, SoundWithoutBound
<1>10. CASE Len(w) = 2 /\ w[Len(w)].out \notin Unanswered
  <2>1. 1 \in 1 .. Len(w) /\ 2 \in 1 .. Len(w) /\ 1 < Len(w)
    BY <1>10
  <2>2. /\ w[1].out \in (IF c.expectHandled THEN {"ok"} ELSE {"ok", "error"})
        /\ w[2].out \in {"ok", "error"}
    BY <1>0, <1>3, <1>10, <2>1
  <2>3. Judge(c, w, sys) = Unless(w[2].out = "error", 1, "payload-unhandled")
    BY <1>0, <1>1, <1>2, <1>10 DEF PayloadBounds, Unanswered
  <2>4. /\ Judge(c, w, sys).reason \notin BoundReasons
        /\ Judge(c, w, sys).says = "passed" <=> w[2].out # "error"
    BY <2>3, Says, Unbounded DEF Unless, BoundReasons
  <2> QED
    BY <1>4, <1>10, <2>2, <2>4, SoundWithoutBound
<1> QED
  BY <1>0, <1>5, <1>6, <1>7, <1>8, <1>9, <1>10

\* A call during which the server asks: too many requests, and a deadline, are verdicts.
LEMMA RequestsSound ==
  ASSUME NEW c, NEW w, NEW sys, ValidCase(c), Heard(c, w, sys), c.kind \in {"sampling", "elicitation"}
  PROVE  Sound(c, w, sys)
<1>0. /\ Len(w) \in Nat /\ DOMAIN w = 1 .. Len(w) /\ (w = <<>> <=> Len(w) = 0)
      /\ Raised(w) <=> Len(w) > 0 /\ w[Len(w)].out \in Unanswered
      /\ \A n \in 1 .. Len(w) : w[n].out \in {"ok", "error", "flood"} \cup Unanswered
  BY HeardIs
<1>1. PICK flood, stalled, invalid :
        /\ flood \notin BoundReasons /\ stalled \notin BoundReasons /\ invalid \notin BoundReasons
        /\ \A g : Judge(c, g, sys) = ServerRequests(g, flood, stalled, invalid)
  <2>1. CASE c.kind = "sampling"
    <3>1. \A g : Judge(c, g, sys) =
            ServerRequests(g, "sampling-request-flood", "sampling-stalled-call", "sampling-invalid-request")
      BY <2>1 DEF Judge, Sampling
    <3>2. /\ "sampling-request-flood" \notin BoundReasons /\ "sampling-stalled-call" \notin BoundReasons
          /\ "sampling-invalid-request" \notin BoundReasons
      BY DEF BoundReasons
    <3> QED
      BY <3>1, <3>2
  <2>2. CASE c.kind = "elicitation"
    <3>1. \A g : Judge(c, g, sys) =
            ServerRequests(g, "elicitation-request-flood", "elicitation-stalled-call", "elicitation-invalid-request")
      BY <2>2 DEF Judge, Elicitation
    <3>2. /\ "elicitation-request-flood" \notin BoundReasons /\ "elicitation-stalled-call" \notin BoundReasons
          /\ "elicitation-invalid-request" \notin BoundReasons
      BY DEF BoundReasons
    <3> QED
      BY <3>1, <3>2
  <2> QED
    BY <2>1, <2>2
<1>2. Contract(c, w, sys) <=> w[1].out = "ok" \/ (w[1].out = "error" /\ w[1].is # "coded")
  <2>1. CASE c.kind = "sampling"
    BY <2>1 DEF Contract
  <2>2. CASE c.kind = "elicitation"
    BY <2>2 DEF Contract
  <2> QED
    BY <2>1, <2>2
<1>3. Len(w) <= 1
  <2> SUFFICES ASSUME Len(w) > 1 PROVE FALSE
    BY <1>0
  <2>1. 1 \in 0 .. Len(w) - 1
    BY <1>0
  <2>2. PICK g : Judge(c, g, sys).says = "more" /\ (g = <<>> <=> 1 = 0) /\ g[1] = w[1]
                 /\ (Raised(g) <=> 1 > 0 /\ w[1].out \in Unanswered)
    BY <2>1, HeardBefore
  <2>3. g # <<>> /\ ServerRequests(g, flood, stalled, invalid).says = "more"
    BY <1>1, <2>2
  <2> QED
    BY <2>3, Says DEF ServerRequests, Unless
<1>4. CASE Len(w) = 0
  <2>1. Judge(c, w, sys) = More
    BY <1>0, <1>1, <1>4 DEF ServerRequests
  <2> QED
    BY <2>1, Says, Unbounded, SoundWithoutBound
<1>5. CASE Len(w) = 1 /\ w[1].out = "flood"
  <2>1. Judge(c, w, sys) = Fail(1, flood)
    BY <1>0, <1>1, <1>5 DEF ServerRequests
  <2> QED
    BY <1>1, <1>2, <1>5, <2>1, Says, SoundWithoutBound
<1>6. CASE Len(w) = 1 /\ w[1].out = "timeout"
  <2>1. Judge(c, w, sys) = Fail(1, stalled)
    BY <1>0, <1>1, <1>6 DEF ServerRequests
  <2> QED
    BY <1>1, <1>2, <1>6, <2>1, Says, SoundWithoutBound
<1>7. CASE Len(w) = 1 /\ Raised(w) /\ w[1].out \notin {"flood", "timeout"}
  <2>1. Judge(c, w, sys) = Raise(w)
    BY <1>0, <1>1, <1>7 DEF ServerRequests
  <2> QED
    BY <2>1, Says, Unbounded, SoundWithoutBound
<1>8. CASE Len(w) = 1 /\ ~Raised(w) /\ w[1].out \notin {"flood", "timeout"}
  <2>1. Judge(c, w, sys) = Unless(w[1].out = "error" /\ w[1].is = "coded", 1, invalid)
    BY <1>0, <1>1, <1>8 DEF ServerRequests
  <2>2. w[1].out \in {"ok", "error"}
    BY <1>0, <1>8
  <2>3. /\ Judge(c, w, sys).reason \notin BoundReasons
        /\ Judge(c, w, sys).says = "passed" <=> ~(w[1].out = "error" /\ w[1].is = "coded")
    BY <1>1, <2>1, Says, Unbounded DEF Unless
  <2> QED
    BY <1>2, <2>2, <2>3, SoundWithoutBound
<1> QED
  BY <1>0, <1>3, <1>4, <1>5, <1>6, <1>7, <1>8

\* A completion, of a server that declares them.
LEMMA CompletionSound ==
  ASSUME NEW c, NEW w, NEW sys, ValidCase(c), Heard(c, w, sys), c.kind = "completion"
  PROVE  Sound(c, w, sys)
<1>0. /\ Len(w) \in Nat /\ DOMAIN w = 1 .. Len(w) /\ (w = <<>> <=> Len(w) = 0) /\ Last(w) = w[Len(w)]
      /\ Raised(w) <=> Len(w) > 0 /\ w[Len(w)].out \in Unanswered
      /\ \A n \in 1 .. Len(w) : w[n].out \in {"ok", "error"} \cup Unanswered
  BY HeardIs
<1>1. Judge(c, w, sys) = Completion(c, w, sys)
  BY DEF Judge
<1>2. CASE "completions" \notin sys.declares
  <2>1. Judge(c, w, sys) = Pass(0) /\ Contract(c, w, sys)
    BY <1>1, <1>2 DEF Completion, Contract
  <2> QED
    BY <2>1, Says, Unbounded, SoundWithoutBound
<1>3. CASE "completions" \in sys.declares
  <2>1. Len(w) <= 1
    <3> SUFFICES ASSUME Len(w) > 1 PROVE FALSE
      BY <1>0
    <3>1. 1 \in 0 .. Len(w) - 1
      BY <1>0
    <3>2. PICK g : Judge(c, g, sys).says = "more" /\ (g = <<>> <=> 1 = 0) /\ g[1] = w[1]
                   /\ (Raised(g) <=> 1 > 0 /\ w[1].out \in Unanswered)
      BY <3>1, HeardBefore
    <3>3. Completion(c, g, sys).says = "more" /\ g # <<>>
      BY <3>2 DEF Judge
    <3> QED
      BY <1>3, <3>3, Says DEF Completion, Unless
  <2>2. CASE Len(w) = 0
    <3>1. Judge(c, w, sys) = More
      BY <1>0, <1>1, <1>3, <2>2 DEF Completion
    <3> QED
      BY <3>1, Says, Unbounded, SoundWithoutBound
  <2>3. CASE Len(w) = 1
    <3>1. w[1].out \in {"ok", "error"} \/ Lost(w[1])
      <4>1. Answered(c, 1, w[1]) /\ w[1].out \in {"ok", "error"} \cup Unanswered
        BY <1>0, <2>3 DEF Heard
      <4>2. w[1].out # "unrecorded"
        BY <4>1 DEF Answered, Readable, Cut
      <4> QED
        BY <4>1, <4>2 DEF Lost, LostOuts, Unanswered
    <3>2. Lost(w[1]) => w[1].out \notin {"ok", "error"}
      BY DEF Lost, LostOuts
    <3>3. ~WithoutValues(c, w) =>
            (Contract(c, w, sys) <=> w[1].out = "ok" /\ w[1].is \notin {"not-strings", "too-many"})
      <4>1. AllOk(w) <=> w[1].out = "ok"
        <5>1. DOMAIN w = {1}
          BY <1>0, <2>3
        <5> QED
          BY <5>1 DEF AllOk
      <4> QED
        BY <1>3, <2>3, <4>1 DEF Contract, WithoutValues
    <3>4. /\ Judge(c, w, sys).says \in {"passed", "failed"}
          /\ Judge(c, w, sys).says = "passed" <=> w[1].out = "ok" /\ w[1].is \notin {"not-strings", "too-many"}
          /\ Judge(c, w, sys).reason \notin BoundReasons
      <4>1. w # <<>>
        BY <1>0, <2>3
      <4>2. CASE Lost(w[1])
        <5>1. Judge(c, w, sys) = Fail(1, "completion-stalled-request")
          BY <1>1, <1>3, <4>1, <4>2 DEF Completion
        <5> QED
          BY <3>2, <4>2, <5>1, Says DEF BoundReasons
      <4>3. CASE w[1].out = "error"
        <5>1. PICK r : r = IF w[1].is = "names-argument" THEN "completion-argument-unknown"
                           ELSE "completion-invalid-request"
          OBVIOUS
        <5>2. Judge(c, w, sys) = Fail(1, r) /\ r \notin BoundReasons
          BY <1>1, <1>3, <3>2, <4>1, <4>3, <5>1 DEF Completion, BoundReasons
        <5> QED
          BY <4>3, <5>2, Says
      <4>4. CASE w[1].out = "ok"
        <5>1. Judge(c, w, sys) = IF w[1].is = "not-strings" THEN Fail(1, "completion-invalid-request")
                                 ELSE Unless(w[1].is = "too-many", 1, "completion-value-flood")
          BY <1>1, <1>3, <3>2, <4>1, <4>4 DEF Completion
        <5> QED
          BY <4>4, <5>1, Says DEF Unless, BoundReasons
      <4> QED
        BY <3>1, <4>2, <4>3, <4>4
    <3> QED
      BY <3>3, <3>4, NoBound DEF Sound
  <2> QED
    BY <1>0, <2>1, <2>2, <2>3
<1> QED
  BY <1>2, <1>3

\* The two answers of a contention.
LEMMA ContentionSound ==
  ASSUME NEW c, NEW w, NEW sys, NEW a, NEW b, w = <<a, b>>, c.kind = "contention",
         a.out \in {"ok", "error"} \cup Unanswered, b.out \in {"ok", "error"} \cup Unanswered
  PROVE  Sound(c, w, sys) /\ Judge(c, w, sys).says # "more"
<1>1. Judge(c, w, sys) = Contention(c, w) /\ (Contract(c, w, sys) <=> AllOk(w))
  BY DEF Judge, Contract
<1>2. w[1] = a /\ w[2] = b /\ DOMAIN w = {1, 2} /\ Len(w) = 2 /\ w # <<>>
  OBVIOUS
<1>3. AllOk(w) <=> a.out = "ok" /\ b.out = "ok"
  BY <1>2 DEF AllOk
<1>4. PICK g : g = <<w[1]>>
  OBVIOUS
<1>5. Raised(g) <=> a.out \in Unanswered
  <2>1. g # <<>> /\ Last(g) = a
    BY <1>2, <1>4 DEF Last
  <2> QED
    BY <2>1 DEF Raised, Lost, LostOuts, Unanswered
<1>6. Raised(w) <=> b.out \in Unanswered
  <2>1. Last(w) = b
    BY <1>2 DEF Last
  <2> QED
    BY <1>2, <2>1 DEF Raised, Lost, LostOuts, Unanswered
<1>7. Judge(c, w, sys) = IF Raised(g) THEN Raise(g)
                         ELSE IF Raised(w) THEN Raise(w)
                         ELSE Unless("error" \in {a.out, b.out}, 2, "contended-client-failed")
  BY <1>1, <1>2, <1>4 DEF Contention
<1>8. Judge(c, w, sys).reason \notin BoundReasons
  BY <1>7, Says, Unbounded DEF Unless, BoundReasons
<1>9. Judge(c, w, sys).says # "errored" =>
        /\ a.out \in {"ok", "error"} /\ b.out \in {"ok", "error"}
        /\ Judge(c, w, sys).says = "passed" <=> ~("error" \in {a.out, b.out})
  BY <1>5, <1>6, <1>7, Says DEF Unless
<1>10. Judge(c, w, sys).says # "errored" =>
         (Judge(c, w, sys).says = "passed" <=> a.out = "ok" /\ b.out = "ok")
  BY <1>9
<1>11. Judge(c, w, sys).says # "more"
  BY <1>7, Says DEF Unless
<1> QED
  BY <1>1, <1>3, <1>8, <1>10, <1>11, SoundWithoutBound

\* Versions offered, named and echoed.
LEMMA NegotiationSound ==
  ASSUME NEW c, NEW w, NEW sys, ValidCase(c), Heard(c, w, sys), c.kind = "protocol-negotiation"
  PROVE  Sound(c, w, sys)
<1>0. /\ Len(w) \in Nat /\ DOMAIN w = 1 .. Len(w) /\ (w = <<>> <=> Len(w) = 0) /\ Last(w) = w[Len(w)]
      /\ Raised(w) <=> Len(w) > 0 /\ w[Len(w)].out \in Unanswered
      /\ \A n \in 1 .. Len(w) : w[n].out \in {"ok", "error"} \cup Unanswered
  BY HeardIs
<1> DEFINE extra == IF w[1].is = "supported" THEN 0 ELSE 1
<1>1. Judge(c, w, sys) = ProtocolNegotiation(c, w) /\ (Contract(c, w, sys) <=> Negotiates(w))
  BY DEF Judge, Contract
<1>2. extra \in {0, 1} /\ (extra = 0 <=> w[1].is = "supported")
  OBVIOUS
<1>3. ASSUME NEW n \in 1 .. Len(w), n < Len(w)
      PROVE  /\ n = 1 => w[1].is \in DateShaped
             /\ n # 1 /\ n = 1 + extra => w[2].is = w[1].is
             /\ n # 1 /\ n # 1 + extra => n = 2 + extra /\ w[n].is \in DateShaped /\ w[n].is # "unknown"
  <2>1. PICK g : /\ Judge(c, g, sys).says = "more" /\ Len(g) = n /\ Last(g) = g[n]
                 /\ (g = <<>> <=> n = 0)
                 /\ \A k \in 1 .. n : g[k] = w[k]
                 /\ Raised(g) <=> n > 0 /\ w[n].out \in Unanswered
    <3>1. n \in 0 .. Len(w) - 1
      BY <1>0, <1>3
    <3> QED
      BY <3>1, HeardBefore
  <2>2. /\ ProtocolNegotiation(c, g).says = "more" /\ n \in Nat /\ n > 0 /\ Last(g) = w[n]
        /\ g[1] = w[1] /\ (n > 1 => g[2] = w[2]) /\ g[n] = w[n]
    BY <1>0, <2>1 DEF Judge
  <2>3. ~Raised(g)
    BY <2>1, <2>2, Says DEF ProtocolNegotiation
  <2>4. extra = IF g[1].is = "supported" THEN 0 ELSE 1
    BY <2>2
  <2> HIDE DEF extra
  <2>5. CASE n = 1
    BY <1>2, <2>1, <2>2, <2>3, <2>5, Says DEF ProtocolNegotiation
  <2>6. CASE n # 1 /\ n = 1 + extra
    BY <1>2, <2>1, <2>2, <2>3, <2>4, <2>6, Says DEF ProtocolNegotiation
  <2>7. CASE n # 1 /\ n # 1 + extra /\ n = 2 + extra
    BY <1>2, <2>1, <2>2, <2>3, <2>4, <2>7, Says DEF ProtocolNegotiation
  <2>8. CASE n # 1 /\ n # 1 + extra /\ n # 2 + extra
    BY <1>2, <2>1, <2>2, <2>3, <2>4, <2>8, Says DEF ProtocolNegotiation, Unless
  <2> QED
    BY <2>5, <2>6, <2>7, <2>8
<1> HIDE DEF extra
<1>4. Len(w) <= 3 + extra
  <2> SUFFICES ASSUME Len(w) > 3 + extra PROVE FALSE
    BY <1>0, <1>2
  <2>1. 3 + extra \in 1 .. Len(w) /\ 3 + extra < Len(w) /\ 3 + extra # 1 /\ 3 + extra # 1 + extra /\ 3 + extra # 2 + extra
    BY <1>0, <1>2
  <2> QED
    BY <1>3, <2>1
<1>5. CASE Len(w) = 0
  <2>1. Judge(c, w, sys) = More
    BY <1>1, <1>5 DEF ProtocolNegotiation
  <2> QED
    BY <2>1, Says, Unbounded, SoundWithoutBound
<1>6. CASE Raised(w)
  <2>1. Judge(c, w, sys) = Raise(w)
    BY <1>0, <1>1, <1>6 DEF ProtocolNegotiation
  <2> QED
    BY <2>1, Says, Unbounded, SoundWithoutBound
<1>7. CASE ~Raised(w) /\ Len(w) \in {1, 2}
  <2>1. ~Contract(c, w, sys)
    <3>1. Len(w) \notin {3, 4}
      BY <1>7
    <3> QED
      BY <1>1, <3>1, Zenon DEF Negotiates
  <2>3. Judge(c, w, sys).says \in {"more", "failed"} /\ Judge(c, w, sys).reason \notin BoundReasons
    <3>1. CASE Len(w) = 1
      <4>1. Judge(c, w, sys) = IF w[1].is \in DateShaped THEN More ELSE Fail(1, "negotiation-invalid-version")
        BY <1>1, <1>7, <3>1 DEF ProtocolNegotiation
      <4> QED
        BY <4>1, Says, Unbounded DEF BoundReasons
    <3>2. CASE Len(w) = 2 /\ extra = 1
      <4>1. Judge(c, w, sys) = IF w[2].is = w[1].is THEN More ELSE Fail(1, "negotiation-inconsistent-support")
        BY <1>1, <1>7, <3>2 DEF ProtocolNegotiation, extra
      <4> QED
        BY <4>1, Says, Unbounded DEF BoundReasons
    <3>3. CASE Len(w) = 2 /\ extra = 0
      <4>1. Judge(c, w, sys) = IF Last(w).is = "unknown" THEN Fail(2, "negotiation-echoed-unknown")
                               ELSE IF Last(w).is \in DateShaped THEN More
                               ELSE Fail(2, "negotiation-invalid-version")
        BY <1>1, <1>7, <3>3 DEF ProtocolNegotiation, extra
      <4> QED
        BY <4>1, Says, Unbounded DEF BoundReasons
    <3> QED
      BY <1>2, <1>7, <3>1, <3>2, <3>3
  <2> QED
    BY <2>1, <2>3, SoundWithoutBound
<1>8. CASE ~Raised(w) /\ Len(w) = 3 /\ extra = 1
  <2>1. ~Contract(c, w, sys)
    BY <1>1, <1>2, <1>8 DEF Negotiates
  <2>2. Judge(c, w, sys) = IF Last(w).is = "unknown" THEN Fail(2, "negotiation-echoed-unknown")
                           ELSE IF Last(w).is \in DateShaped THEN More
                           ELSE Fail(2, "negotiation-invalid-version")
    BY <1>1, <1>8 DEF ProtocolNegotiation, extra
  <2>3. Judge(c, w, sys).says \in {"more", "failed"} /\ Judge(c, w, sys).reason \notin BoundReasons
    BY <2>2, Says, Unbounded DEF BoundReasons
  <2> QED
    BY <2>1, <2>3, SoundWithoutBound
<1>9. CASE ~Raised(w) /\ Len(w) = 3 + extra
  <2>1. PICK n : n = Len(w)
    OBVIOUS
  <2>2. n \in {3, 4} /\ n - 1 \in 1 .. Len(w) /\ n - 1 < Len(w) /\ n - 1 = 2 + extra /\ 1 < Len(w)
        /\ 1 \in 1 .. Len(w) /\ 2 \in 1 .. Len(w) /\ 2 < Len(w)
    BY <1>2, <1>9, <2>1
  <2>3. w[1].is \in DateShaped /\ w[n - 1].is \in DateShaped /\ w[n - 1].is # "unknown"
    <3>1. n - 1 # 1 /\ n - 1 # 1 + extra
      BY <1>2, <1>9, <2>1
    <3> QED
      BY <1>3, <2>2, <3>1
  <2>4. extra = 1 => w[2].is = w[1].is
    BY <1>3, <2>2
  <2>5. Judge(c, w, sys) = Unless(w[n].is # w[n - 1].is, 3, "negotiation-inconsistent-support")
    BY <1>1, <1>2, <1>9, <2>1 DEF ProtocolNegotiation, extra
  <2>6. Judge(c, w, sys).reason \notin BoundReasons /\ (Judge(c, w, sys).says = "passed" <=> w[n].is = w[n - 1].is)
    BY <2>5, Says, Unbounded DEF Unless, BoundReasons
  <2>7. Negotiates(w) <=> w[n].is = w[n - 1].is
    <3>1. (n = 3 /\ extra = 0) \/ (n = 4 /\ extra = 1)
      BY <1>2, <1>9, <2>1
    <3>2. \A i \in 1 .. n : i = n \/ i = n - 1 \/ i = 1 \/ (i = 2 /\ n = 4)
      BY <3>1
    <3>3. w[n].is = w[n - 1].is => \A i \in 1 .. n : w[i].is \in DateShaped
      BY <2>3, <2>4, <3>1, <3>2
    <3>4. n = 3 => w[1].is = "supported"
      BY <1>2, <3>1
    <3>5. n = 4 => w[1].is = w[2].is
      BY <2>4, <3>1
    <3>6. n \in {3, 4} /\ w[n - 1].is # "unknown"
      BY <2>2, <2>3
    <3>7. Negotiates(w) <=>
            /\ n \in {3, 4}
            /\ \A i \in 1 .. n : w[i].is \in DateShaped
            /\ n = 3 => w[1].is = "supported"
            /\ n = 4 => w[1].is = w[2].is
            /\ w[n - 1].is # "unknown" /\ w[n].is = w[n - 1].is
      BY <2>1, Zenon DEF Negotiates
    <3> QED
      BY <3>3, <3>4, <3>5, <3>6, <3>7, Zenon
  <2> QED
    BY <1>1, <2>6, <2>7, SoundWithoutBound
<1>10. Len(w) \in {0, 1, 2} \/ (Len(w) = 3 /\ extra = 1) \/ Len(w) = 3 + extra
  <2>1. PICK n \in Nat : n = Len(w)
    BY <1>0
  <2>2. CASE extra = 0
    <3>1. n <= 3
      BY <1>4, <2>1, <2>2
    <3> QED
      BY <2>1, <2>2, <3>1
  <2>3. CASE extra = 1
    <3>1. n <= 4
      BY <1>4, <2>1, <2>3
    <3> QED
      BY <2>1, <2>3, <3>1
  <2> QED
    BY <1>2, <2>2, <2>3
<1> QED
  BY <1>5, <1>6, <1>7, <1>8, <1>9, <1>10

\* Errors with one code and a true hint.
LEMMA HonestySound ==
  ASSUME NEW c, NEW w, NEW sys, ValidCase(c), Heard(c, w, sys), c.kind = "error-honesty"
  PROVE  Sound(c, w, sys)
<1>0. /\ Len(w) \in Nat /\ DOMAIN w = 1 .. Len(w) /\ (w = <<>> <=> Len(w) = 0) /\ Last(w) = w[Len(w)]
      /\ Raised(w) <=> Len(w) > 0 /\ w[Len(w)].out \in Unanswered
      /\ \A n \in 1 .. Len(w) : w[n].out \in {"ok", "error"} \cup Unanswered
  BY HeardIs
<1> DEFINE errors == {i \in DOMAIN w : w[i].out = "error"}
           hinted(i) == {w[i].is.data, w[i].is.legacy} \ {"absent"} = {c.expectRetryable}
           retry == c.expectRetryable = "true"
<1>1. Judge(c, w, sys) = ErrorHonesty(c, w) /\ c.expectRetryable # "absent"
  BY DEF Judge, ValidCase
<1>2. Contract(c, w, sys) <=>
        /\ \A i, j \in errors : w[i].is.code = w[j].is.code
        /\ \A i \in errors : hinted(i)
        /\ errors = 1 .. (IF retry THEN Len(w) - 1 ELSE 2)
        /\ Len(w) >= 2
  BY DEF Contract, Honest
<1>3. ASSUME NEW a PROVE HintMatches(c, a) <=> {a.is.data, a.is.legacy} \ {"absent"} = {c.expectRetryable}
  BY <1>1 DEF HintMatches
<1>4. ASSUME NEW n \in 1 .. Len(w), n < Len(w)
      PROVE  /\ w[n].out = "error" /\ w[n].is.code = w[1].is.code /\ hinted(n)
             /\ n = 2 => retry
  <2>1. PICK g : /\ Judge(c, g, sys).says = "more" /\ Len(g) = n /\ Last(g) = g[n]
                 /\ (g = <<>> <=> n = 0)
                 /\ \A k \in 1 .. n : g[k] = w[k]
                 /\ Raised(g) <=> n > 0 /\ w[n].out \in Unanswered
    <3>1. n \in 0 .. Len(w) - 1
      BY <1>0, <1>4
    <3> QED
      BY <3>1, HeardBefore
  <2>2. ErrorHonesty(c, g).says = "more" /\ n > 0 /\ Last(g) = w[n] /\ g[1] = w[1]
    BY <1>0, <2>1 DEF Judge
  <2>3. ~Raised(g)
    BY <2>1, <2>2, Says DEF ErrorHonesty
  <2>4. w[n].out # "ok"
    BY <2>1, <2>2, <2>3, Says DEF ErrorHonesty, Unless
  <2>5. w[n].is.code = w[1].is.code
    BY <2>1, <2>2, <2>3, <2>4, Says DEF ErrorHonesty
  <2>6. HintMatches(c, w[n])
    BY <2>1, <2>2, <2>3, <2>4, Says DEF ErrorHonesty
  <2>7. n = 2 => retry
    BY <2>1, <2>2, <2>3, <2>4, <2>6, Says DEF ErrorHonesty
  <2>8. w[n].out = "error"
    BY <1>0, <2>1, <2>2, <2>3, <2>4
  <2> QED
    BY <1>3, <2>5, <2>6, <2>7, <2>8
<1> HIDE DEF hinted, retry
<1>5. CASE Len(w) = 0
  <2>1. Judge(c, w, sys) = More
    BY <1>1, <1>5 DEF ErrorHonesty
  <2> QED
    BY <2>1, Says, Unbounded, SoundWithoutBound
<1>6. CASE Raised(w)
  <2>1. Judge(c, w, sys) = Raise(w)
    BY <1>0, <1>1, <1>6 DEF ErrorHonesty
  <2> QED
    BY <2>1, Says, Unbounded, SoundWithoutBound
<1>7. CASE ~Raised(w) /\ Len(w) = 1 /\ w[1].out = "ok"
  <2>1. Judge(c, w, sys) = Fail(1, "expected-error")
    BY <1>0, <1>1, <1>7 DEF ErrorHonesty
  <2> QED
    BY <1>2, <1>7, <2>1, Says, SoundWithoutBound DEF BoundReasons
<1>8. CASE Len(w) > 1 /\ w[Len(w)].out = "ok"
  <2>1. Judge(c, w, sys) = Unless(~retry, Len(w), "unexpected-outcome")
    BY <1>0, <1>1, <1>8 DEF ErrorHonesty, Unanswered, retry
  <2>2. errors = 1 .. Len(w) - 1
    <3>1. \A i \in 1 .. Len(w) : i \in errors <=> i # Len(w)
      <4>1. Len(w) \notin errors
        BY <1>8
      <4>0. PICK l \in Nat : l = Len(w)
        BY <1>0
      <4>2. \A i \in 1 .. Len(w) : i # Len(w) => i < Len(w)
        <5>1. \A i \in 1 .. l : i # l => i < l
          OBVIOUS
        <5> QED
          BY <4>0, <5>1
      <4>3. \A i \in 1 .. Len(w) : i # Len(w) => i \in errors
        BY <1>0, <1>4, <4>2
      <4> QED
        BY <4>1, <4>3
    <3>2. errors \subseteq 1 .. Len(w)
      BY <1>0
    <3> HIDE DEF errors
    <3>3. \A i : i \in 1 .. Len(w) - 1 <=> i \in 1 .. Len(w) /\ i # Len(w)
      BY <1>0
    <3> QED
      BY <3>1, <3>2, <3>3, Zenon
  <2>3. (\A i, j \in errors : w[i].is.code = w[j].is.code) /\ \A i \in errors : hinted(i)
    BY <1>0, <1>4, <2>2
  <2>4. errors = 1 .. (IF retry THEN Len(w) - 1 ELSE 2) <=> retry
    <3>1. ~retry => errors # 1 .. 2
      <4> SUFFICES ASSUME ~retry, errors = 1 .. 2 PROVE FALSE
        OBVIOUS
      <4> HIDE DEF errors
      <4>0. 2 \in 1 .. 2
        OBVIOUS
      <4>1. 2 \in 1 .. Len(w) - 1
        BY <2>2, <4>0, Zenon
      <4>2. 2 \in 1 .. Len(w) /\ 2 < Len(w)
        BY <1>0, <4>1
      <4> QED
        BY <1>4, <4>2
    <3> HIDE DEF errors
    <3> QED
      BY <2>2, <3>1
  <2>5. Judge(c, w, sys).reason \notin BoundReasons /\ (Judge(c, w, sys).says = "passed" <=> retry)
    BY <2>1, Says, Unbounded DEF Unless, BoundReasons
  <2>6. Contract(c, w, sys) <=> retry
    <3> HIDE DEF errors
    <3> QED
      BY <1>0, <1>2, <1>8, <2>3, <2>4
  <2> QED
    BY <2>5, <2>6, SoundWithoutBound
<1>9. CASE ~Raised(w) /\ Len(w) > 0 /\ w[Len(w)].out # "ok"
  <2>1. Len(w) \in 1 .. Len(w) /\ w[Len(w)].out = "error" /\ Len(w) \in errors
    BY <1>0, <1>9
  <2>2. 1 \in errors
    <3>1. CASE Len(w) = 1
      BY <2>1, <3>1
    <3>2. CASE Len(w) # 1
      <4>1. 1 \in 1 .. Len(w) /\ 1 < Len(w)
        BY <1>0, <1>9, <3>2
      <4> QED
        BY <1>0, <1>4, <4>1
    <3> QED
      BY <3>1, <3>2
  <2>3. errors = 1 .. Len(w)
    BY <1>0, <1>4, <2>1
  <2>4. retry => errors # 1 .. Len(w) - 1
    BY <1>0, <2>1
  <2> HIDE DEF errors
  <2>5. CASE w[Len(w)].is.code # w[1].is.code
    <3>1. Judge(c, w, sys) = Fail(Len(w), "unstable-error-code")
      BY <1>0, <1>1, <1>9, <2>5 DEF ErrorHonesty
    <3> QED
      BY <1>2, <2>1, <2>2, <2>5, <3>1, Says, SoundWithoutBound DEF BoundReasons
  <2>6. CASE w[Len(w)].is.code = w[1].is.code /\ ~hinted(Len(w))
    <3>0. ~HintMatches(c, Last(w))
      BY <1>0, <1>3, <2>6 DEF hinted
    <3>1. Judge(c, w, sys) = Fail(Len(w), "retryability-mismatch")
      BY <1>0, <1>1, <1>9, <2>6, <3>0 DEF ErrorHonesty
    <3> QED
      BY <1>2, <2>1, <2>6, <3>1, Says, SoundWithoutBound DEF BoundReasons
  <2>7. CASE w[Len(w)].is.code = w[1].is.code /\ hinted(Len(w)) /\ ~retry /\ Len(w) = 2
    <3>0. HintMatches(c, Last(w))
      BY <1>0, <1>3, <2>7 DEF hinted
    <3>1. Judge(c, w, sys) = Pass(2)
      BY <1>0, <1>1, <1>9, <2>7, <3>0 DEF ErrorHonesty, retry
    <3>2. (\A i \in errors : w[i].is.code = w[1].is.code) /\ \A i \in errors : hinted(i)
      BY <1>0, <1>4, <2>3, <2>7
    <3>3. Contract(c, w, sys)
      BY <1>2, <2>3, <2>7, <3>2
    <3> QED
      BY <3>1, <3>3, Says, Unbounded, SoundWithoutBound
  <2>8. CASE w[Len(w)].is.code = w[1].is.code /\ hinted(Len(w)) /\ ~(~retry /\ Len(w) = 2)
    <3>0. HintMatches(c, Last(w))
      BY <1>0, <1>3, <2>8 DEF hinted
    <3>1. Judge(c, w, sys) = IF Len(w) = c.maxAttempts THEN Fail(Len(w), "retry-did-not-recover") ELSE More
      BY <1>0, <1>1, <1>9, <2>8, <3>0 DEF ErrorHonesty, retry
    <3>2. ~Contract(c, w, sys)
      <4>1. CASE retry
        BY <1>2, <2>4, <4>1
      <4>2. CASE ~retry
        <5>1. errors # 1 .. 2
          <6>1. Len(w) > 2 => 3 \in errors
            BY <1>0, <2>3
          <6>2. Len(w) < 2 => 2 \notin errors
            BY <1>0, <2>3
          <6>3. Len(w) > 2 \/ Len(w) < 2
            BY <1>0, <2>8, <4>2
          <6> QED
            BY <6>1, <6>2, <6>3
        <5> QED
          BY <1>2, <4>2, <5>1
      <4> QED
        BY <4>1, <4>2
    <3>3. "retry-did-not-recover" \notin BoundReasons
      BY DEF BoundReasons
    <3> QED
      BY <3>1, <3>2, <3>3, Says, Unbounded, SoundWithoutBound
  <2> QED
    BY <2>5, <2>6, <2>7, <2>8
<1>10. Len(w) = 0 \/ Len(w) = 1 \/ Len(w) > 1
  BY <1>0
<1> QED
  BY <1>5, <1>6, <1>7, <1>8, <1>9, <1>10

\* Two lists of names after each other.
LEMMA Joined ==
  ASSUME NEW S, NEW a \in Seq(S), NEW b \in Seq(S)
  PROVE  /\ a \o b \in Seq(S) /\ Len(a \o b) = Len(a) + Len(b)
         /\ \A k \in 1 .. Len(a) : (a \o b)[k] = a[k]
         /\ \A k \in 1 .. Len(b) : (a \o b)[Len(a) + k] = b[k]
<1>1. PICK t : t = a \o b
  OBVIOUS
<1>2. /\ t \in Seq(S) /\ Len(t) = Len(a) + Len(b)
      /\ \A k \in 1 .. Len(a) : t[k] = a[k]
      /\ \A k \in 1 .. Len(b) : t[Len(a) + k] = b[k]
  BY <1>1
<1> QED
  BY <1>1, <1>2

\* The exchanges of a subscription.
LEMMA StepsAre ==
  ASSUME NEW c, c.trigger \in BOOLEAN
  PROVE  LET s == SubscriptionSteps(c)
         IN  /\ s[1] = "read" /\ s[2] = "subscribe"
             /\ \/ c.trigger /\ Len(s) = 5 /\ s[3] = "trigger" /\ s[4] = "wait" /\ s[5] = "unsubscribe"
                \/ ~c.trigger /\ Len(s) = 4 /\ s[3] = "wait" /\ s[4] = "unsubscribe"
<1> DEFINE W == {"read", "subscribe", "trigger", "wait", "unsubscribe"}
<1>1. PICK a : a = <<"read", "subscribe">>
  OBVIOUS
<1>2. PICK b : b = <<"wait", "unsubscribe">>
  OBVIOUS
<1>3. PICK m : m = IF c.trigger THEN <<"trigger">> ELSE <<>>
  OBVIOUS
<1>4. PICK t : t = a \o m
  OBVIOUS
<1>5. PICK s : s = t \o b
  OBVIOUS
<1>6. SubscriptionSteps(c) = s
  BY <1>1, <1>2, <1>3, <1>4, <1>5, Zenon DEF SubscriptionSteps
<1>7. a \in Seq(W) /\ Len(a) = 2 /\ a[1] = "read" /\ a[2] = "subscribe"
  BY <1>1
<1>8. b \in Seq(W) /\ Len(b) = 2 /\ b[1] = "wait" /\ b[2] = "unsubscribe"
  BY <1>2
<1>0. "trigger" \in W
  OBVIOUS
<1> HIDE DEF W
<1>9. CASE c.trigger
  <2>1. m \in Seq(W) /\ Len(m) = 1 /\ m[1] = "trigger"
    <3>1. m = <<"trigger">>
      BY <1>3, <1>9
    <3> QED
      BY <1>0, <3>1
  <2>2. /\ t \in Seq(W) /\ Len(t) = 3
        /\ \A k \in 1 .. 2 : t[k] = a[k]
        /\ \A k \in 1 .. 1 : t[2 + k] = m[k]
    BY <1>4, <1>7, <2>1, Joined
  <2>3. t[1] = "read" /\ t[2] = "subscribe" /\ t[3] = "trigger"
    BY <1>7, <2>1, <2>2
  <2>4. /\ Len(s) = 5
        /\ \A k \in 1 .. 3 : s[k] = t[k]
        /\ \A k \in 1 .. 2 : s[3 + k] = b[k]
    <3>1. /\ Len(s) = Len(t) + Len(b)
          /\ \A k \in 1 .. Len(t) : s[k] = t[k]
          /\ \A k \in 1 .. Len(b) : s[Len(t) + k] = b[k]
      <4>1. t \in Seq(W) /\ b \in Seq(W)
        BY <1>8, <2>2
      <4>2. /\ Len(t \o b) = Len(t) + Len(b)
            /\ \A k \in 1 .. Len(t) : (t \o b)[k] = t[k]
            /\ \A k \in 1 .. Len(b) : (t \o b)[Len(t) + k] = b[k]
        BY ONLY <4>1, Joined
      <4> QED
        BY <1>5, <4>2, Zenon
    <3>2. Len(t) = 3 /\ Len(b) = 2
      BY <1>8, <2>2
    <3> QED
      BY <3>1, <3>2
  <2>5. s[1] = "read" /\ s[2] = "subscribe" /\ s[3] = "trigger" /\ s[4] = "wait" /\ s[5] = "unsubscribe"
    <3>1. s[1] = t[1] /\ s[2] = t[2] /\ s[3] = t[3]
      BY <2>4
    <3>2. s[3 + 1] = b[1] /\ s[3 + 2] = b[2]
      BY <2>4
    <3> QED
      BY <1>8, <2>3, <3>1, <3>2
  <2> QED
    BY <1>6, <1>9, <2>4, <2>5
<1>10. CASE ~c.trigger
  <2>1. m \in Seq(W) /\ Len(m) = 0
    <3>1. m = <<>>
      BY <1>3, <1>10
    <3> QED
      BY <3>1
  <2>2. t \in Seq(W) /\ Len(t) = 2 /\ \A k \in 1 .. 2 : t[k] = a[k]
    BY <1>4, <1>7, <2>1, Joined
  <2>3. t[1] = "read" /\ t[2] = "subscribe"
    BY <1>7, <2>2
  <2>4. /\ Len(s) = 4
        /\ \A k \in 1 .. 2 : s[k] = t[k]
        /\ \A k \in 1 .. 2 : s[2 + k] = b[k]
    <3>1. /\ Len(s) = Len(t) + Len(b)
          /\ \A k \in 1 .. Len(t) : s[k] = t[k]
          /\ \A k \in 1 .. Len(b) : s[Len(t) + k] = b[k]
      <4>1. t \in Seq(W) /\ b \in Seq(W)
        BY <1>8, <2>2
      <4>2. /\ Len(t \o b) = Len(t) + Len(b)
            /\ \A k \in 1 .. Len(t) : (t \o b)[k] = t[k]
            /\ \A k \in 1 .. Len(b) : (t \o b)[Len(t) + k] = b[k]
        BY ONLY <4>1, Joined
      <4> QED
        BY <1>5, <4>2, Zenon
    <3>2. Len(t) = 2 /\ Len(b) = 2
      BY <1>8, <2>2
    <3> QED
      BY <3>1, <3>2
  <2>5. s[1] = "read" /\ s[2] = "subscribe" /\ s[3] = "wait" /\ s[4] = "unsubscribe"
    <3>1. s[1] = t[1] /\ s[2] = t[2]
      BY <2>4
    <3>2. s[2 + 1] = b[1] /\ s[2 + 2] = b[2]
      BY <2>4
    <3> QED
      BY <1>8, <2>3, <3>1, <3>2
  <2> QED
    BY <1>6, <1>10, <2>4, <2>5
<1> QED
  BY <1>9, <1>10

\* A subscription, the update and its end.
LEMMA SubscriptionSound ==
  ASSUME NEW c, NEW w, NEW sys, ValidCase(c), Heard(c, w, sys), c.kind = "resource-subscription"
  PROVE  Sound(c, w, sys)
<1>0. /\ Len(w) \in Nat /\ DOMAIN w = 1 .. Len(w) /\ Last(w) = w[Len(w)]
      /\ Raised(w) <=> Len(w) > 0 /\ w[Len(w)].out \in Unanswered
      /\ \A n \in 1 .. Len(w) : w[n].out \in {"ok", "error"} \cup Unanswered
  BY HeardIs
<1>1. Judge(c, w, sys) = ResourceSubscription(c, w, sys) /\ c.trigger \in BOOLEAN
  BY DEF Judge, ValidCase
<1>2. Contract(c, w, sys) <=>
        ("subscribe" \in sys.declares => AllOk(w) /\ Len(w) = Len(SubscriptionSteps(c)))
  BY DEF Contract
<1>3. PICK s : s = SubscriptionSteps(c)
  OBVIOUS
<1>4. /\ s[1] = "read" /\ s[2] = "subscribe"
      /\ \/ c.trigger /\ Len(s) = 5 /\ s[3] = "trigger" /\ s[4] = "wait" /\ s[5] = "unsubscribe"
         \/ ~c.trigger /\ Len(s) = 4 /\ s[3] = "wait" /\ s[4] = "unsubscribe"
  BY <1>1, <1>3, StepsAre
<1>5. CASE "subscribe" \notin sys.declares
  <2>1. Judge(c, w, sys) = Pass(0)
    BY <1>1, <1>5 DEF ResourceSubscription
  <2> QED
    BY <1>2, <1>5, <2>1, Says, Unbounded, SoundWithoutBound
<1>6. CASE "subscribe" \in sys.declares
  <2>1. ASSUME NEW n \in 1 .. Len(w), n < Len(w)
        PROVE  /\ s[n] # "unsubscribe"
               /\ s[n] \in {"read", "subscribe", "trigger"} => w[n].out = "ok"
    <3>1. PICK g : /\ Judge(c, g, sys).says = "more" /\ Len(g) = n /\ Last(g) = g[n]
                   /\ \A k \in 1 .. n : g[k] = w[k]
                   /\ Raised(g) <=> n > 0 /\ w[n].out \in Unanswered
      <4>1. n \in 0 .. Len(w) - 1
        BY <1>0, <2>1
      <4> QED
        BY <4>1, HeardBefore
    <3>2. ResourceSubscription(c, g, sys).says = "more" /\ n # 0 /\ Last(g) = w[n]
      BY <1>0, <3>1 DEF Judge
    <3>3. s[n] # "unsubscribe"
      BY <1>3, <1>6, <3>1, <3>2, Says DEF ResourceSubscription, Unless
    <3>4. s[n] = "read" => w[n].out = "ok"
      BY <1>3, <1>6, <3>1, <3>2, Says DEF ResourceSubscription
    <3>5. s[n] = "subscribe" => w[n].out = "ok"
      BY <1>3, <1>6, <3>1, <3>2, Says DEF ResourceSubscription
    <3>6. s[n] = "trigger" => w[n].out = "ok"
      BY <1>3, <1>6, <3>1, <3>2, Says DEF ResourceSubscription
    <3> QED
      BY <3>3, <3>4, <3>5, <3>6
  <2>2. PICK n \in Nat : n = Len(w)
    BY <1>0
  <2>3. n <= Len(s)
    <3> SUFFICES ASSUME n > Len(s) PROVE FALSE
      BY <1>4
    <3>1. Len(s) \in 1 .. n /\ Len(s) < n /\ s[Len(s)] = "unsubscribe"
      BY <1>4
    <3> QED
      BY <2>1, <2>2, <3>1
  <2>4. CASE n = 0
    <3>1. Judge(c, w, sys) = More
      BY <1>1, <1>6, <2>2, <2>4 DEF ResourceSubscription
    <3> QED
      BY <3>1, Says, Unbounded, SoundWithoutBound
  <2>5. CASE n > 0 /\ s[n] # "unsubscribe"
    <3>1. n # Len(s)
      BY <1>4, <2>5
    <3>2. ~Contract(c, w, sys)
      BY <1>2, <1>3, <1>6, <2>2, <3>1
    <3>3. Judge(c, w, sys).says # "passed" /\ Judge(c, w, sys).reason \notin BoundReasons
      <4>1. Judge(c, w, sys) \in {Fail(1, "resource-unreadable"), Fail(2, "subscription-rejected"),
                                  Raise(w), Fail(3, "unexpected-outcome"), More}
        BY <1>1, <1>3, <1>6, <2>2, <2>5 DEF ResourceSubscription
      <4>2. /\ "resource-unreadable" \notin BoundReasons /\ "subscription-rejected" \notin BoundReasons
            /\ "unexpected-outcome" \notin BoundReasons
        BY DEF BoundReasons
      <4> QED
        BY <4>1, <4>2, Says, Unbounded
    <3> QED
      BY <3>2, <3>3, SoundWithoutBound
  <2>6. CASE n > 0 /\ s[n] = "unsubscribe"
    <3>1. n = Len(s) /\ n \in {4, 5} /\ s[n - 1] = "wait"
      <4>1. n \in 1 .. 5
        BY <1>4, <2>3, <2>6
      <4>2. n # 1 /\ n # 2 /\ n # 3
        BY <1>4, <2>6
      <4>3. n = Len(s)
        <5>1. CASE c.trigger
          <6>1. Len(s) = 5 /\ n # 4
            BY <1>4, <2>6, <5>1
          <6> QED
            BY <4>1, <4>2, <6>1
        <5>2. CASE ~c.trigger
          <6>1. Len(s) = 4 /\ n <= 4
            BY <1>4, <2>3, <5>2
          <6> QED
            BY <4>1, <4>2, <6>1
        <5> QED
          BY <5>1, <5>2
      <4>4. CASE n = 4
        BY <1>4, <4>3, <4>4
      <4>5. CASE n = 5
        BY <1>4, <4>3, <4>5
      <4> QED
        BY <4>1, <4>2, <4>3, <4>4, <4>5
    <3>2. \A k \in 1 .. n : k = n \/ k = n - 1 \/ s[k] \in {"read", "subscribe", "trigger"}
      <4>1. CASE n = 4
        <5>1. ~c.trigger /\ \A k \in 1 .. 4 : k = 4 \/ k = 3 \/ k = 2 \/ k = 1
          BY <1>4, <3>1, <4>1
        <5> QED
          BY <1>4, <4>1, <5>1
      <4>2. CASE n = 5
        <5>1. c.trigger /\ \A k \in 1 .. 5 : k = 5 \/ k = 4 \/ k = 3 \/ k = 2 \/ k = 1
          BY <1>4, <3>1, <4>2
        <5> QED
          BY <1>4, <4>2, <5>1
      <4> QED
        BY <3>1, <4>1, <4>2
    <3>3. AllOk(w) <=> w[n].out = "ok" /\ w[n - 1].out = "ok"
      <4>1. n \in 1 .. n /\ n - 1 \in 1 .. n
        BY <3>1
      <4>2. \A k \in 1 .. n : k = n \/ k < n
        OBVIOUS
      <4>3. \A k \in 1 .. n : k = n \/ k = n - 1 \/ w[k].out = "ok"
        BY <2>1, <2>2, <3>2, <4>2
      <4> QED
        BY <1>0, <2>2, <4>1, <4>3 DEF AllOk
    <3>4. /\ SubscriptionSteps(c)[Len(w)] \notin {"read", "subscribe", "trigger"}
          /\ SubscriptionSteps(c)[Len(w)] = "unsubscribe" /\ Len(w) # 0 /\ Last(w) = w[n]
      BY <1>0, <1>3, <2>2, <2>6
    <3>5. /\ Judge(c, w, sys).says = "passed" <=> w[n].out = "ok" /\ w[n - 1].out = "ok"
          /\ Judge(c, w, sys).reason \notin BoundReasons
      <4>1. CASE w[n - 1].out # "ok"
        <5>1. Judge(c, w, sys) = Fail(3, "subscription-notification-missing")
          BY <1>1, <1>6, <2>2, <3>4, <4>1 DEF ResourceSubscription
        <5> QED
          BY <4>1, <5>1, Says DEF BoundReasons
      <4>2. CASE w[n - 1].out = "ok"
        <5>1. Judge(c, w, sys) = Unless(Last(w).out # "ok", 3, "subscription-rejected")
          BY <1>1, <1>6, <2>2, <3>4, <4>2 DEF ResourceSubscription
        <5> QED
          BY <3>4, <4>2, <5>1, Says, Unbounded DEF Unless, BoundReasons
      <4> QED
        BY <4>1, <4>2
    <3> QED
      BY <1>2, <1>3, <1>6, <2>2, <3>1, <3>3, <3>5, SoundWithoutBound
  <2> QED
    BY <2>4, <2>5, <2>6
<1> QED
  BY <1>5, <1>6

\* A number times another is no smaller, and its negative no larger.
LEMMA Multiples ==
  ASSUME NEW l \in Nat, NEW d \in Int
  PROVE  /\ d >= 1 => d * l >= l
         /\ d <= -1 => d * l <= -l
<1>1. CASE d >= 1
  <2>1. (d - 1) * l >= 0
    BY <1>1
  <2>2. (d - 1) * l = d * l - l
    OBVIOUS
  <2>3. d * l \in Int
    OBVIOUS
  <2> QED
    BY <1>1, <2>1, <2>2, <2>3
<1>2. CASE d <= -1
  <2>1. (d + 1) * l <= 0
    <3>1. (-(d + 1)) * l >= 0
      BY <1>2
    <3> QED
      BY <3>1
  <2>2. (d + 1) * l = d * l + l
    OBVIOUS
  <2> QED
    BY <1>2, <2>1, <2>2
<1> QED
  BY <1>1, <1>2

\* Division with a remainder.
LEMMA Remainder ==
  ASSUME NEW l \in Nat \ {0}, NEW x \in Nat
  PROVE  /\ x % l \in 0 .. l - 1
         /\ \E q \in Int : x = q * l + (x % l)
<1>1. x % l \in 0 .. l - 1
  OBVIOUS
<1>2. x = (x \div l) * l + (x % l)
  OBVIOUS
<1>3. x \div l \in Int
  OBVIOUS
<1> QED
  BY <1>1, <1>2, <1>3

\* The step of a repetition, from its position.
LEMMA Position ==
  ASSUME NEW l \in Nat \ {0}, NEW r \in Nat, NEW s \in 1 .. l
  PROVE  ((r * l + s - 1) % l) + 1 = s
<1>1. PICK x \in Nat : x = r * l + s - 1
  <2>1. r * l \in Nat
    OBVIOUS
  <2> QED
    BY <2>1
<1>2. PICK m \in 0 .. l - 1 : m = x % l
  BY Remainder
<1>3. PICK q \in Int : x = q * l + m
  BY <1>2, Remainder
<1>4. PICK d \in Int : d = r - q
  OBVIOUS
<1>5. PICK dl \in Int : dl = d * l
  OBVIOUS
<1>6. dl = m - (s - 1)
  <2>1. d * l = r * l - q * l
    BY <1>4
  <2>2. PICK a \in Int, b \in Int : a = r * l /\ b = q * l
    OBVIOUS
  <2> QED
    BY <1>1, <1>3, <1>5, <2>1, <2>2
<1>7. d = 0
  <2>1. /\ d >= 1 => dl >= l
        /\ d <= -1 => dl <= -l
    BY <1>5, Multiples
  <2>2. dl < l /\ dl > -l
    BY <1>6
  <2> QED
    BY <2>1, <2>2
<1>8. dl = 0
  BY <1>5, <1>7
<1>9. m + 1 = s
  BY <1>6, <1>8
<1> QED
  BY <1>1, <1>2, <1>9

\* The positions of all the repetitions.
LEMMA Within ==
  ASSUME NEW l \in Nat \ {0}, NEW t \in Nat, NEW r \in 0 .. t - 1, NEW s \in 1 .. l
  PROVE  r * l + s \in 1 .. t * l
<1>1. PICK a \in Nat, b \in Int, e \in Int : a = r * l /\ b = t * l /\ e = (t - r) * l
  OBVIOUS
<1>2. e = b - a
  BY ONLY <1>1, l \in Nat, t \in Nat, r \in Nat
<1>3. e >= l
  BY <1>1, Multiples
<1> QED
  BY <1>1, <1>2, <1>3

\* Steps that are repeated, each with its expectation.
LEMMA WorkflowSound ==
  ASSUME NEW c, NEW w, NEW sys, ValidCase(c), Heard(c, w, sys), c.kind = "workflow"
  PROVE  Sound(c, w, sys)
<1>0. /\ Len(w) \in Nat /\ DOMAIN w = 1 .. Len(w) /\ (w = <<>> <=> Len(w) = 0) /\ Last(w) = w[Len(w)]
      /\ Raised(w) <=> Len(w) > 0 /\ w[Len(w)].out \in Unanswered
      /\ \A n \in 1 .. Len(w) : w[n].out \in {"ok", "error"} \cup Unanswered
  BY HeardIs
<1>1. /\ c.repetitions \in Nat \ {0} /\ Len(c.steps) \in Nat \ {0} /\ DOMAIN c.steps = 1 .. Len(c.steps)
      /\ \A i \in 1 .. Len(c.steps) : ValidExpectation(c.steps[i])
  <2>1. /\ c.repetitions \in 1 .. 20 /\ c.steps \in Seq(Range(c.steps)) /\ Len(c.steps) \in 2 .. 32
        /\ \A i \in DOMAIN c.steps : ValidExpectation(c.steps[i])
    BY DEF ValidCase
  <2>2. DOMAIN c.steps = 1 .. Len(c.steps)
    BY <2>1
  <2>3. \A k \in 1 .. 20 : k \in Nat \ {0}
    OBVIOUS
  <2>4. \A k \in 2 .. 32 : k \in Nat \ {0}
    OBVIOUS
  <2> QED
    BY <2>1, <2>2, <2>3, <2>4, Zenon
<1>2. PICK l \in Nat \ {0} : l = Len(c.steps)
  BY <1>1
<1>3. PICK t \in Nat \ {0} : t = c.repetitions
  BY <1>1
<1>4. PICK all \in Nat : all = t * l
  OBVIOUS
<1> DEFINE step(n) == c.steps[((n - 1) % l) + 1]
           kept(n) == CheckExpectation(step(n), w[n + 2]) = "none"
<1>5. Judge(c, w, sys) = Workflow(c, w)
  BY DEF Judge
<1>6. Contract(c, w, sys) <=>
        /\ Len(w) = 2 + all
        /\ \A r \in 0 .. t - 1, s \in 1 .. l : Satisfies(c.steps[s], w[2 + r * l + s])
  BY <1>1, <1>2, <1>3, <1>4 DEF Contract, WorkflowOpening
<1>7. \A n \in Nat \ {0} : ((n - 1) % l) + 1 \in 1 .. l
  <2> TAKE n \in Nat \ {0}
  <2>1. PICK x \in Nat : x = n - 1
    OBVIOUS
  <2>2. x % l \in 0 .. l - 1
    BY Remainder
  <2> QED
    BY <2>1, <2>2
<1>8. ASSUME NEW n \in Nat \ {0}, n + 2 \in 1 .. Len(w), w[n + 2].out \in {"ok", "error"}
      PROVE  /\ kept(n) <=> Satisfies(step(n), w[n + 2])
             /\ CheckExpectation(step(n), w[n + 2]) \notin BoundReasons
  <2>1. ValidExpectation(step(n))
    BY <1>1, <1>2, <1>7
  <2> HIDE DEF step
  <2> QED
    BY <1>8, <2>1, ExpectationSound
<1>9. ASSUME NEW n \in Nat \ {0}, n + 2 < Len(w)
      PROVE  n # all /\ kept(n) /\ w[n + 2].out \in {"ok", "error"}
  <2>1. PICK g : /\ Judge(c, g, sys).says = "more" /\ Len(g) = n + 2 /\ Last(g) = g[n + 2]
                 /\ \A k \in 1 .. n + 2 : g[k] = w[k]
                 /\ Raised(g) <=> n + 2 > 0 /\ w[n + 2].out \in Unanswered
    <3>1. n + 2 \in 0 .. Len(w) - 1
      BY <1>0, <1>9
    <3> QED
      BY <3>1, HeardBefore
  <2>2. Workflow(c, g).says = "more" /\ Last(g) = w[n + 2] /\ n + 2 \in 1 .. Len(w)
    BY <1>0, <1>9, <2>1 DEF Judge
  <2>3. Len(g) - WorkflowOpening = n /\ ~(n <= 0)
    BY <2>1 DEF WorkflowOpening
  <2>4. ~Raised(g)
    BY <2>2, Says DEF Workflow
  <2>5. Workflow(c, g) = IF CheckExpectation(step(n), w[n + 2]) # "none"
                           THEN Fail(n, CheckExpectation(step(n), w[n + 2]))
                         ELSE IF n = all THEN Pass(n)
                         ELSE More
    BY <1>2, <1>3, <1>4, <2>2, <2>3, <2>4, Zenon DEF Workflow
  <2> HIDE DEF step
  <2>6. kept(n)
    BY <2>2, <2>5, Says
  <2>7. n # all
    BY <2>2, <2>5, <2>6, Says
  <2>8. w[n + 2].out \in {"ok", "error"}
    BY <1>0, <2>1, <2>2, <2>4
  <2> QED
    BY <2>6, <2>7, <2>8
<1>10. ASSUME NEW r \in 0 .. t - 1, NEW s \in 1 .. l
       PROVE  r * l + s \in 1 .. all /\ step(r * l + s) = c.steps[s]
  <2>1. r * l + s \in 1 .. all
    BY <1>4, Within
  <2>2. ((r * l + s - 1) % l) + 1 = s
    BY Position
  <2> QED
    BY <2>1, <2>2
<1> HIDE DEF step
<1>11. CASE Raised(w)
  <2>1. Judge(c, w, sys) = Raise(w)
    BY <1>5, <1>11 DEF Workflow
  <2> QED
    BY <2>1, Says, Unbounded, SoundWithoutBound
<1>12. CASE ~Raised(w) /\ Len(w) <= 2
  <2>1. Judge(c, w, sys) \in {Errored("transport-error"), More}
    BY <1>0, <1>5, <1>12 DEF Workflow, WorkflowOpening
  <2>2. "transport-error" \notin BoundReasons /\ Errored("transport-error").reason = "transport-error"
    BY DEF BoundReasons, Errored
  <2> QED
    BY <2>1, <2>2, Says, Unbounded, SoundWithoutBound
<1>13. CASE ~Raised(w) /\ Len(w) > 2
  <2>1. PICK n \in Nat \ {0} : n = Len(w) - 2
    BY <1>0, <1>13
  <2>2. n + 2 = Len(w) /\ n + 2 \in 1 .. Len(w) /\ w[n + 2].out \in {"ok", "error"}
    BY <1>0, <1>13, <2>1
  <2>3. Judge(c, w, sys) = IF CheckExpectation(step(n), w[n + 2]) # "none"
                             THEN Fail(n, CheckExpectation(step(n), w[n + 2]))
                           ELSE IF n = all THEN Pass(n)
                           ELSE More
    <3>1. Len(w) - WorkflowOpening = n /\ ~(n <= 0) /\ Last(w) = w[n + 2]
      BY <1>0, <2>1, <2>2 DEF WorkflowOpening
    <3> QED
      BY <1>2, <1>3, <1>4, <1>5, <1>13, <3>1, Zenon DEF Workflow, step
  <2>4. (kept(n) <=> Satisfies(step(n), w[n + 2])) /\ CheckExpectation(step(n), w[n + 2]) \notin BoundReasons
    BY <1>8, <2>2
  <2>5. CASE ~kept(n)
    <3>1. ~Contract(c, w, sys)
      <4> SUFFICES ASSUME Contract(c, w, sys) PROVE FALSE
        OBVIOUS
      <4>1. n = all /\ \A r \in 0 .. t - 1, s \in 1 .. l : Satisfies(c.steps[s], w[2 + r * l + s])
        BY <1>6, <2>1, <2>2
      <4>2. PICK r \in 0 .. t - 1 : r = t - 1
        OBVIOUS
      <4>3. r * l + l = n
        <5>1. (t - 1) * l = t * l - l
          OBVIOUS
        <5> QED
          BY <1>4, <4>1, <4>2, <5>1
      <4>4. step(n) = c.steps[l] /\ Satisfies(c.steps[l], w[2 + r * l + l])
        <5>1. l \in 1 .. l
          OBVIOUS
        <5> QED
          BY <1>10, <4>1, <4>3, <5>1
      <4>5. 2 + r * l + l = n + 2
        <5>1. PICK x \in Int : x = r * l
          OBVIOUS
        <5> QED
          BY <4>3, <5>1
      <4> QED
        BY <2>4, <2>5, <4>4, <4>5
    <3> QED
      BY <2>3, <2>4, <2>5, <3>1, Says, SoundWithoutBound
  <2>6. CASE kept(n) /\ n = all
    <3>1. ASSUME NEW r \in 0 .. t - 1, NEW s \in 1 .. l
          PROVE  Satisfies(c.steps[s], w[2 + r * l + s])
      <4>1. PICK m : m = r * l + s
        OBVIOUS
      <4>2. m \in 1 .. n /\ step(m) = c.steps[s]
        BY <1>10, <2>6, <4>1
      <4>3. 2 + r * l + s = m + 2
        <5>1. PICK x \in Int : x = r * l
          OBVIOUS
        <5> QED
          BY <4>1, <5>1
      <4>4. CASE m = n
        BY <2>4, <2>6, <4>2, <4>3, <4>4
      <4>5. CASE m # n
        <5>1. m \in Nat \ {0} /\ m + 2 < Len(w) /\ m + 2 \in 1 .. Len(w)
          BY <2>2, <4>2, <4>5
        <5>2. kept(m) /\ w[m + 2].out \in {"ok", "error"}
          BY <1>9, <5>1
        <5>3. Satisfies(step(m), w[m + 2])
          BY <1>8, <5>1, <5>2
        <5> QED
          BY <4>2, <4>3, <5>3
      <4> QED
        BY <4>4, <4>5
    <3>2. Len(w) = 2 + all
      BY <2>2, <2>6
    <3>3. Contract(c, w, sys)
      BY <1>6, <3>1, <3>2, Zenon
    <3> QED
      BY <2>3, <2>6, <3>3, Says, Unbounded, SoundWithoutBound
  <2>7. CASE kept(n) /\ n # all
    BY <2>3, <2>7, Says, Unbounded, SoundWithoutBound
  <2> QED
    BY <2>5, <2>6, <2>7
<1> QED
  BY <1>0, <1>11, <1>12, <1>13

\* The listings that have come to their end, among the first n answers, and the
\* last of them.
Ended(w, n) == {i \in 1 .. n : w[i].out = "ok" /\ ~w[i].is.more}
LastEnd(w, n) == IF Ended(w, n) = {} THEN 0 ELSE Max(Ended(w, n))

\* No listing ends after the last end.
LEMMA LastEndIs ==
  ASSUME NEW w, NEW n \in Nat
  PROVE  /\ LastEnd(w, n) \in 0 .. n
         /\ \A i \in Ended(w, n) : i \in 1 .. LastEnd(w, n)
<1>1. CASE Ended(w, n) = {}
  BY <1>1 DEF LastEnd
<1>2. CASE Ended(w, n) # {}
  <2>1. Ended(w, n) \in SUBSET (1 .. n)
    BY DEF Ended
  <2>2. Max(Ended(w, n)) \in Ended(w, n) /\ \A y \in Ended(w, n) : y <= Max(Ended(w, n))
    BY <1>2, <2>1, LastOf
  <2>3. LastEnd(w, n) = Max(Ended(w, n))
    BY <1>2 DEF LastEnd
  <2>4. PICK e \in 1 .. n : e = Max(Ended(w, n))
    BY <2>1, <2>2
  <2>5. \A i \in Ended(w, n) : i \in 1 .. n /\ i <= e
    BY <2>1, <2>2, <2>4
  <2> QED
    BY <2>3, <2>4, <2>5
<1> QED
  BY <1>1, <1>2

\* How many pages a case may ask for.
LEMMA PagesAreBounded ==
  ASSUME NEW c, ValidCase(c), c.kind \in {"pagination", "surface-listing"}
  PROVE  c.maxPages \in Nat \ {0}
<1>1. c.maxPages \in 1 .. Limits.pages
  BY DEF ValidCase
<1>2. Limits.pages \in Nat
  BY SMTT(30) DEF Limits
<1> QED
  BY <1>1, <1>2

\* What the runner makes of the first n answers.
Listed(c, w, sys, n) ==
    LET pages == n - LastEnd(w, n)
    IN IF Cardinality(Ended(w, n)) = Cardinality(sys.declares \cap {"resources", "prompts"})
         THEN Pass(1)
       ELSE IF pages = 0 THEN More
       ELSE IF w[n].out # "ok" THEN Fail(pages, "surface-invalid-envelope")
       ELSE IF pages = c.maxPages THEN Fail(Stalled(pages), "surface-stalled-cursor")
       ELSE More

\* Listing the surfaces reads the first n answers and no other.
LEMMA ListingIs ==
  ASSUME NEW c, NEW g, NEW w, NEW sys, NEW n \in Nat, Len(g) = n, DOMAIN g = 1 .. n,
         Last(g) = g[n], \A k \in 1 .. n : g[k] = w[k]
  PROVE  SurfaceListing(c, g, sys) = Listed(c, w, sys, n)
<1>1. {i \in DOMAIN g : g[i].out = "ok" /\ ~g[i].is.more} = Ended(w, n)
  BY DEF Ended
<1>2. PICK e \in 0 .. n : e = LastEnd(w, n)
  BY LastEndIs
<1>3. Len(g) - e = n - e /\ (n - e # 0 => Last(g) = w[n])
  BY <1>2
<1>4. e = IF Ended(w, n) = {} THEN 0 ELSE Max(Ended(w, n))
  BY <1>2 DEF LastEnd
<1>5. SurfaceListing(c, g, sys) =
        IF Cardinality(Ended(w, n)) = Cardinality(sys.declares \cap {"resources", "prompts"})
          THEN Pass(1)
        ELSE IF n - e = 0 THEN More
        ELSE IF Last(g).out # "ok" THEN Fail(n - e, "surface-invalid-envelope")
        ELSE IF n - e = c.maxPages THEN Fail(Stalled(n - e), "surface-stalled-cursor")
        ELSE More
  BY <1>1, <1>3, <1>4, Zenon DEF SurfaceListing
<1>6. Listed(c, w, sys, n) =
        IF Cardinality(Ended(w, n)) = Cardinality(sys.declares \cap {"resources", "prompts"})
          THEN Pass(1)
        ELSE IF n - e = 0 THEN More
        ELSE IF w[n].out # "ok" THEN Fail(n - e, "surface-invalid-envelope")
        ELSE IF n - e = c.maxPages THEN Fail(Stalled(n - e), "surface-stalled-cursor")
        ELSE More
  BY <1>2, Zenon DEF Listed
<1> QED
  BY <1>3, <1>5, <1>6, Zenon

\* Listings, one after the other, to their ends.
LEMMA ListingSound ==
  ASSUME NEW c, NEW w, NEW sys, ValidCase(c), Heard(c, w, sys), c.kind = "surface-listing"
  PROVE  Sound(c, w, sys)
<1>0. /\ Len(w) \in Nat /\ DOMAIN w = 1 .. Len(w) /\ Last(w) = w[Len(w)]
      /\ \A n \in 1 .. Len(w) : w[n].out \in {"ok", "error"} \cup Unanswered
  BY HeardIs
<1>1. PICK n \in Nat : n = Len(w)
  BY <1>0
<1>2. PICK p \in Nat \ {0} : p = c.maxPages
  BY PagesAreBounded
<1>3. PICK all : all = Cardinality(sys.declares \cap {"resources", "prompts"})
  OBVIOUS
<1> DEFINE pages(m) == m - LastEnd(w, m)
<1>4. \A m \in Nat : pages(m) \in 0 .. m
  BY LastEndIs
<1>5. Judge(c, w, sys) =
        IF Cardinality(Ended(w, n)) = all THEN Pass(1)
        ELSE IF pages(n) = 0 THEN More
        ELSE IF w[n].out # "ok" THEN Fail(pages(n), "surface-invalid-envelope")
        ELSE IF pages(n) = p THEN Fail(Stalled(pages(n)), "surface-stalled-cursor")
        ELSE More
  <2>1. Judge(c, w, sys) = SurfaceListing(c, w, sys)
    BY DEF Judge
  <2>2. Len(w) = n /\ DOMAIN w = 1 .. n /\ Last(w) = w[n] /\ \A k \in 1 .. n : w[k] = w[k]
    BY <1>0, <1>1
  <2>3. SurfaceListing(c, w, sys) = Listed(c, w, sys, n)
    BY <2>2, ListingIs
  <2> QED
    BY <1>2, <1>3, <2>1, <2>3, Zenon DEF Listed
<1>6. ASSUME NEW m \in 0 .. n, m # n
      PROVE  /\ Cardinality(Ended(w, m)) # all
             /\ pages(m) # p
             /\ m # 0 => w[m].out = "ok"
  <2>1. PICK g : /\ Judge(c, g, sys).says = "more" /\ Len(g) = m /\ DOMAIN g = 1 .. m /\ Last(g) = g[m]
                 /\ \A k \in 1 .. m : g[k] = w[k]
    <3>1. m \in 0 .. Len(w) - 1
      BY <1>1, <1>6
    <3> QED
      BY <3>1, HeardBefore
  <2>2. Judge(c, g, sys) = SurfaceListing(c, g, sys)
    BY DEF Judge
  <2>3. Judge(c, g, sys) =
          IF Cardinality(Ended(w, m)) = all THEN Pass(1)
          ELSE IF pages(m) = 0 THEN More
          ELSE IF w[m].out # "ok" THEN Fail(pages(m), "surface-invalid-envelope")
          ELSE IF pages(m) = p THEN Fail(Stalled(pages(m)), "surface-stalled-cursor")
          ELSE More
    <3>1. m \in Nat
      OBVIOUS
    <3>2. SurfaceListing(c, g, sys) = Listed(c, w, sys, m)
      BY <2>1, <3>1, ListingIs
    <3> QED
      BY <1>2, <1>3, <2>2, <3>2, Zenon DEF Listed
  <2>4. Cardinality(Ended(w, m)) # all
    BY <2>1, <2>3, Says
  <2>5. pages(m) # p
    BY <1>2, <2>1, <2>3, <2>4, Says
  <2>6. m # 0 => w[m].out = "ok"
    <3> SUFFICES ASSUME m # 0 PROVE w[m].out = "ok"
      OBVIOUS
    <3>1. CASE pages(m) = 0
      <4>1. LastEnd(w, m) = m
        BY <3>1, LastEndIs
      <4>2. Ended(w, m) # {}
        BY <4>1 DEF LastEnd
      <4>3. m \in Ended(w, m)
        <5>1. Ended(w, m) \in SUBSET (1 .. m)
          BY DEF Ended
        <5>0. m \in Nat
          OBVIOUS
        <5>2. Max(Ended(w, m)) \in Ended(w, m)
          BY <4>2, <5>0, <5>1, LastOf
        <5>3. Max(Ended(w, m)) = m
          BY <4>1, <4>2 DEF LastEnd
        <5> QED
          BY <5>2, <5>3
      <4> QED
        BY <4>3 DEF Ended
    <3>2. CASE pages(m) # 0
      BY <2>1, <2>3, <2>4, <3>2, Says
    <3> QED
      BY <3>1, <3>2
  <2> QED
    BY <2>4, <2>5, <2>6
<1>7. Contract(c, w, sys) <=>
        LET ends == {i \in 1 .. n : ~w[i].is.more}
        IN /\ AllOk(w)
           /\ Cardinality(ends) = all
           /\ \A i \in 0 .. (n - p) : ends \cap ((i + 1) .. (i + p)) # {}
  BY <1>0, <1>1, <1>2, <1>3 DEF Contract, SurfacesTraversed
<1>8. AllOk(w) => {i \in 1 .. n : ~w[i].is.more} = Ended(w, n)
  BY <1>0, <1>1 DEF AllOk, Ended
<1> HIDE DEF pages
<1>9. CASE Cardinality(Ended(w, n)) = all
  <2>1. n # 0 => n \in Ended(w, n)
    <3> SUFFICES ASSUME n # 0, n \notin Ended(w, n) PROVE FALSE
      OBVIOUS
    <3>1. n - 1 \in 0 .. n /\ n - 1 # n /\ \A i : i \in 1 .. n /\ i # n <=> i \in 1 .. n - 1
      OBVIOUS
    <3>2. Ended(w, n - 1) = Ended(w, n)
      BY <3>1 DEF Ended
    <3> QED
      BY <1>6, <1>9, <3>1, <3>2
  <2>2. AllOk(w)
    <3>1. \A m \in 1 .. n : m \in 0 .. n /\ m # 0
      OBVIOUS
    <3>2. n # 0 => w[n].out = "ok"
      BY <2>1 DEF Ended
    <3> QED
      BY <1>0, <1>1, <1>6, <3>1, <3>2 DEF AllOk
  <2>3. ASSUME NEW i \in 0 .. (n - p) PROVE Ended(w, n) \cap ((i + 1) .. (i + p)) # {}
    <3> SUFFICES ASSUME Ended(w, n) \cap ((i + 1) .. (i + p)) = {} PROVE FALSE
      OBVIOUS
    <3>1. i \in Nat /\ i + p <= n
      OBVIOUS
    <3>2. PICK e \in 0 .. i : e = LastEnd(w, i)
      BY <3>1, LastEndIs
    <3>3. \A k \in 1 .. i : k \in Ended(w, n) => k \in 1 .. e
      <4>1. \A k \in 1 .. i : k \in Ended(w, n) => k \in Ended(w, i)
        BY DEF Ended
      <4> QED
        BY <3>1, <3>2, <4>1, LastEndIs
    <3>4. ASSUME NEW j \in e .. i + p PROVE Ended(w, j) = Ended(w, e)
      <4>1. \A k \in 1 .. j : k \in 1 .. n /\ (k \in 1 .. i \/ k \in (i + 1) .. (i + p))
        BY <3>1, <3>2
      <4>2. \A k \in 1 .. j : k \in Ended(w, n) => k \in 1 .. e
        BY <3>3, <4>1
      <4>3. \A k \in 1 .. e : k \in 1 .. j
        BY <3>1, <3>2
      <4> QED
        BY <4>1, <4>2, <4>3 DEF Ended
    <3>5. i \in e .. i + p /\ e + p \in e .. i + p
      BY <3>1, <3>2
    <3>6. LastEnd(w, e + p) = e
      <4>1. Ended(w, e + p) = Ended(w, i)
        BY <3>4, <3>5
      <4> QED
        BY <3>2, <4>1 DEF LastEnd
    <3>7. pages(e + p) = p
      BY <3>2, <3>6 DEF pages
    <3>8. CASE e + p = n
      <4>1. n # 0 /\ n \in (i + 1) .. (i + p)
        BY <3>1, <3>2, <3>8
      <4> QED
        BY <2>1, <4>1
    <3>9. CASE e + p # n
      <4>1. e + p \in 0 .. n
        BY <3>1, <3>2
      <4> QED
        BY <1>6, <3>7, <3>9, <4>1
    <3> QED
      BY <3>8, <3>9
  <2>4. Contract(c, w, sys)
    BY <1>7, <1>8, <1>9, <2>2, <2>3
  <2> QED
    BY <1>5, <1>9, <2>4, Says, Unbounded, SoundWithoutBound
<1>10. CASE Cardinality(Ended(w, n)) # all
  <2>1. ~Contract(c, w, sys)
    BY <1>7, <1>8, <1>10
  <2>2. CASE pages(n) = 0
    BY <1>5, <1>10, <2>2, Says, Unbounded, SoundWithoutBound
  <2>3. CASE pages(n) # 0 /\ w[n].out # "ok"
    <3>1. Judge(c, w, sys) = Fail(pages(n), "surface-invalid-envelope")
      BY <1>5, <1>10, <2>3
    <3> QED
      BY <2>1, <3>1, Says, SoundWithoutBound DEF BoundReasons
  <2>4. CASE pages(n) # 0 /\ w[n].out = "ok" /\ pages(n) = p
    <3>1. Judge(c, w, sys) = Fail(Stalled(p), "surface-stalled-cursor")
      BY <1>5, <1>10, <2>4
    <3>2. PICK v : v = Judge(c, w, sys)
      OBVIOUS
    <3>3. v.says = "failed" /\ v.reason = "surface-stalled-cursor" /\ v.attempts = p + 1
      BY <3>1, <3>2, Says DEF Stalled
    <3>4. BoundDetail(c, w, sys, v) = Detail("max_pages", p, p + 1)
      BY <1>2, <3>3 DEF BoundDetail
    <3>5. Exceeds(c, w, sys, v)
      <4>1. p + 1 > p
        OBVIOUS
      <4> QED
        BY <3>4, <4>1, OneBound
    <3> QED
      BY <2>1, <3>2, <3>3, <3>5 DEF Sound
  <2>5. CASE pages(n) # 0 /\ w[n].out = "ok" /\ pages(n) # p
    BY <1>5, <1>10, <2>5, Says, Unbounded, SoundWithoutBound
  <2> QED
    BY <2>2, <2>3, <2>4, <2>5
<1> QED
  BY <1>9, <1>10

\* The function that FlattenSeq evaluates: the first n lists after each other.
Flat(f, s, n) == f = [i \in 1 .. n |-> IF i = 1 THEN s[i] ELSE f[i - 1] \o s[i]]

\* There is such a function.
LEMMA FlatExists ==
  ASSUME NEW s, NEW n \in Nat
  PROVE  \E f : Flat(f, s, n)
<1> DEFINE S == {m \in Nat : \E f : Flat(f, s, m)}
<1>1. 0 \in S
  <2>1. 1 .. 0 = {}
    OBVIOUS
  <2>2. Flat([i \in {} |-> 0], s, 0)
    BY <2>1 DEF Flat
  <2> QED
    BY <2>2
<1>2. ASSUME NEW m \in Nat, m \in S PROVE m + 1 \in S
  <2>1. PICK g : Flat(g, s, m)
    BY <1>2
  <2> DEFINE V(i) == IF i = 1 THEN s[i] ELSE g[i - 1] \o s[i]
             f == [i \in 1 .. m + 1 |-> V(i)]
  <2>2. ASSUME NEW i \in 1 .. m, NEW x, x = V(i) PROVE g[i] = x
    <3>1. g[i] = V(i)
      <4> HIDE DEF V
      <4>1. g = [j \in 1 .. m |-> V(j)]
        BY <2>1, Zenon DEF Flat, V
      <4> QED
        BY <4>1
    <3> QED
      BY <2>2, <3>1
  <2>3. \A i \in 1 .. m : g[i] = f[i]
    <3> TAKE i \in 1 .. m
    <3>1. i \in 1 .. m + 1
      BY <1>2
    <3>2. PICK x : x = V(i)
      OBVIOUS
    <3> HIDE DEF V
    <3>3. f[i] = x /\ g[i] = x
      BY <2>2, <3>1, <3>2
    <3> QED
      BY <3>3
  <2>4. ASSUME NEW i \in 1 .. m + 1 PROVE f[i] = IF i = 1 THEN s[i] ELSE f[i - 1] \o s[i]
    <3>1. f[i] = V(i)
      OBVIOUS
    <3>2. i # 1 => i - 1 \in 1 .. m
      BY <1>2
    <3> HIDE DEF f
    <3>3. i # 1 => g[i - 1] = f[i - 1]
      BY <2>3, <3>2
    <3> QED
      BY <3>1, <3>3
  <2>5. DOMAIN f = 1 .. m + 1 /\ f = [i \in DOMAIN f |-> f[i]]
    OBVIOUS
  <2> HIDE DEF f
  <2>6. Flat(f, s, m + 1)
    BY <2>4, <2>5 DEF Flat
  <2> QED
    BY <1>2, <2>6
<1>3. n \in S
  <2> HIDE DEF S
  <2> QED
    BY <1>1, <1>2, InductionOnNat
<1> QED
  BY <1>3

\* The lists FlattenSeq goes through.
LEMMA FlatSteps ==
  ASSUME NEW s, NEW n \in Nat \ {0}, Len(s) = n
  PROVE  \E f : /\ f[1] = s[1]
                /\ \A k \in 2 .. n : f[k] = f[k - 1] \o s[k]
                /\ f[n] = FlattenSeq(s)
<1> DEFINE E(f) == f = [i \in 1 .. n |-> IF i = 1 THEN s[i] ELSE f[i - 1] \o s[i]]
           F == CHOOSE f : E(f)
<1>1. FlattenSeq(s) = F[n]
  BY Zenon DEF FlattenSeq
<1>2. E(F)
  <2>1. \E f : E(f)
    BY FlatExists, Zenon DEF Flat
  <2> HIDE DEF E
  <2> QED
    BY <2>1
<1> HIDE DEF F
<1>3. ASSUME NEW k \in 1 .. n
      PROVE  (k = 1 => F[k] = s[k]) /\ (k # 1 => F[k] = F[k - 1] \o s[k])
  <2> DEFINE V(i) == IF i = 1 THEN s[i] ELSE F[i - 1] \o s[i]
  <2>1. F = [i \in 1 .. n |-> V(i)]
    BY <1>2, Zenon
  <2>2. k = 1 => V(k) = s[k]
    BY Zenon
  <2>3. k # 1 => V(k) = F[k - 1] \o s[k]
    BY Zenon
  <2> HIDE DEF V
  <2>4. F[k] = V(k)
    BY <2>1
  <2> QED
    BY <2>2, <2>3, <2>4, Zenon
<1>4. F[1] = s[1]
  <2>1. 1 \in 1 .. n
    OBVIOUS
  <2> QED
    BY <1>3, <2>1
<1>5. ASSUME NEW k \in 2 .. n PROVE F[k] = F[k - 1] \o s[k]
  <2>1. k \in 1 .. n /\ k # 1
    OBVIOUS
  <2> QED
    BY <1>3, <2>1, Zenon
<1> QED
  BY <1>1, <1>4, <1>5

\* The entries of a list that a listing may have.
Distinct(e) == IsInjective(e) /\ "malformed" \notin Range(e)

\* The positions of a page whose entries are malformed, or were seen before.
Bad(seen, e) ==
    {i \in DOMAIN e : e[i] = "malformed" \/ e[i] \in seen \cup {e[j] : j \in 1 .. (i - 1)}}

\* A page added to what was listed before.
LEMMA PageAdded ==
  ASSUME NEW S, NEW a \in Seq(S), NEW b \in Seq(S)
  PROVE  /\ a \o b \in Seq(S)
         /\ Range(a \o b) = Range(a) \cup Range(b)
         /\ Distinct(a \o b) <=> Distinct(a) /\ Bad(Range(a), b) = {}
<1>1. PICK t : t = a \o b
  OBVIOUS
<1>2. /\ t \in Seq(S) /\ Len(t) = Len(a) + Len(b)
      /\ \A k \in 1 .. Len(a) : t[k] = a[k]
      /\ \A k \in 1 .. Len(b) : t[Len(a) + k] = b[k]
  BY <1>1, Joined
<1>3. PICK m \in Nat, n \in Nat : m = Len(a) /\ n = Len(b)
  OBVIOUS
<1>4. /\ DOMAIN t = 1 .. m + n /\ DOMAIN a = 1 .. m /\ DOMAIN b = 1 .. n
      /\ \A k \in 1 .. m : t[k] = a[k]
      /\ \A k \in 1 .. n : t[m + k] = b[k]
  BY <1>2, <1>3
<1>5. ASSUME NEW k \in 1 .. m + n
      PROVE  k \in 1 .. m \/ (k - m \in 1 .. n /\ k = m + (k - m))
  OBVIOUS
<1>6. \A k \in 1 .. m : k \in 1 .. m + n
  OBVIOUS
<1>7. \A k \in 1 .. n : m + k \in 1 .. m + n
  OBVIOUS
<1>8. Range(t) = Range(a) \cup Range(b)
  <2>1. ASSUME NEW x \in Range(t) PROVE x \in Range(a) \cup Range(b)
    <3>1. PICK k \in 1 .. m + n : x = t[k]
      BY <1>4 DEF Range
    <3>2. CASE k \in 1 .. m
      BY <1>4, <3>1, <3>2 DEF Range
    <3>3. CASE k - m \in 1 .. n /\ k = m + (k - m)
      <4>1. t[m + (k - m)] = b[k - m] /\ b[k - m] \in Range(b)
        BY <1>4, <3>3 DEF Range
      <4> QED
        BY <3>1, <3>3, <4>1
    <3> QED
      BY <1>5, <3>2, <3>3
  <2>2. \A x \in Range(a) : x \in Range(t)
    BY <1>4, <1>6 DEF Range
  <2>3. \A x \in Range(b) : x \in Range(t)
    BY <1>4, <1>7 DEF Range
  <2> QED
    BY <2>1, <2>2, <2>3
<1>9. ASSUME Distinct(t) PROVE Distinct(a) /\ Bad(Range(a), b) = {}
  <2>1. "malformed" \notin Range(t) /\ \A i, j \in 1 .. m + n : t[i] = t[j] => i = j
    BY <1>4, <1>9 DEF Distinct, IsInjective
  <2>2. Distinct(a)
    BY <1>4, <1>6, <1>8, <2>1 DEF Distinct, IsInjective
  <2>3. ASSUME NEW i \in 1 .. n PROVE i \notin Bad(Range(a), b)
    <3>1. b[i] # "malformed"
      BY <1>4, <1>8, <2>1 DEF Range
    <3>2. b[i] \notin Range(a)
      <4> SUFFICES ASSUME NEW k \in 1 .. m, a[k] = b[i] PROVE FALSE
        BY <1>4 DEF Range
      <4>1. k # m + i
        OBVIOUS
      <4> QED
        BY <1>4, <1>6, <1>7, <2>1, <4>1
    <3>3. \A j \in 1 .. i - 1 : b[i] # b[j]
      <4> TAKE j \in 1 .. i - 1
      <4>1. j \in 1 .. n /\ m + j # m + i
        OBVIOUS
      <4> QED
        BY <1>4, <1>7, <2>1, <4>1
    <3> QED
      BY <3>1, <3>2, <3>3 DEF Bad
  <2> QED
    BY <1>4, <2>2, <2>3 DEF Bad
<1>10. ASSUME Distinct(a), Bad(Range(a), b) = {} PROVE Distinct(t)
  <2>1. "malformed" \notin Range(a) /\ \A i, j \in 1 .. m : a[i] = a[j] => i = j
    BY <1>4, <1>10 DEF Distinct, IsInjective
  <2>2. \A i \in 1 .. n : /\ b[i] # "malformed" /\ b[i] \notin Range(a)
                          /\ \A j \in 1 .. i - 1 : b[i] # b[j]
    BY <1>4, <1>10 DEF Bad
  <2>3. "malformed" \notin Range(b)
    BY <1>4, <2>2 DEF Range
  <2>4. ASSUME NEW i \in 1 .. m + n, NEW j \in 1 .. m + n, i < j, t[i] = t[j] PROVE FALSE
    <3>1. CASE j \in 1 .. m
      <4>1. i \in 1 .. m /\ i # j
        BY <2>4, <3>1
      <4> QED
        BY <1>4, <2>1, <2>4, <3>1, <4>1
    <3>2. CASE i \in 1 .. m /\ j \notin 1 .. m
      <4>1. j - m \in 1 .. n /\ t[j] = b[j - m] /\ t[i] = a[i] /\ a[i] \in Range(a)
        <5>1. j - m \in 1 .. n /\ j = m + (j - m)
          BY <1>5, <3>2
        <5>2. t[m + (j - m)] = b[j - m]
          BY <1>4, <5>1
        <5>3. t[i] = a[i] /\ a[i] \in Range(a)
          BY <1>4, <3>2 DEF Range
        <5> QED
          BY <5>1, <5>2, <5>3
      <4> QED
        BY <2>2, <2>4, <4>1
    <3>3. CASE i \notin 1 .. m
      <4>0. j \notin 1 .. m
        BY <2>4, <3>3
      <4>1. i - m \in 1 .. n /\ i = m + (i - m) /\ j - m \in 1 .. n /\ j = m + (j - m)
        BY <1>5, <3>3, <4>0
      <4>2. t[m + (i - m)] = b[i - m] /\ t[m + (j - m)] = b[j - m]
        BY <1>4, <4>1
      <4>3. i - m \in 1 .. (j - m) - 1
        BY <2>4, <4>1
      <4> QED
        BY <2>2, <2>4, <4>1, <4>2, <4>3
    <3> QED
      BY <3>1, <3>2, <3>3
  <2>5. \A i, j \in 1 .. m + n : t[i] = t[j] => i = j
    <3> TAKE i \in 1 .. m + n, j \in 1 .. m + n
    <3> SUFFICES ASSUME t[i] = t[j], i # j PROVE FALSE
      OBVIOUS
    <3>1. i < j \/ j < i
      OBVIOUS
    <3> QED
      BY <2>4, <3>1
  <2> QED
    BY <1>4, <1>8, <2>1, <2>3, <2>5 DEF Distinct, IsInjective
<1> QED
  BY <1>1, <1>2, <1>8, <1>9, <1>10

\* The entries of the pages before the i-th.
Before(s, i) == UNION {Range(s[j]) : j \in 1 .. (i - 1)}

\* No entry is listed twice: page by page, and over all the pages.
LEMMA PagesDistinct ==
  ASSUME NEW s, NEW n \in Nat \ {0}, Len(s) = n,
         \A i \in 1 .. n : s[i] \in Seq(Range(s[i]))
  PROVE  Distinct(FlattenSeq(s)) <=> \A i \in 1 .. n : Bad(Before(s, i), s[i]) = {}
<1> DEFINE T == UNION {Range(s[i]) : i \in 1 .. n}
<1>1. PICK f : /\ f[1] = s[1]
               /\ \A k \in 2 .. n : f[k] = f[k - 1] \o s[k]
               /\ f[n] = FlattenSeq(s)
  BY FlatSteps
<1>2. ASSUME NEW i \in 1 .. n PROVE s[i] \in Seq(T)
  <2>1. PICK e : e = s[i]
    OBVIOUS
  <2>2. e \in Seq(Range(e)) /\ \A x \in Range(e) : x \in T
    BY <2>1
  <2> HIDE DEF T
  <2>3. \A k \in 1 .. Len(e) : e[k] \in T
    <3>1. \A k \in 1 .. Len(e) : e[k] \in Range(e)
      BY <2>2
    <3> QED
      BY <2>2, <3>1
  <2>4. e \in Seq(T)
    BY <2>2, <2>3
  <2> QED
    BY <2>1, <2>4
<1> HIDE DEF T
<1> DEFINE Clean(k) == \A i \in 1 .. k : Bad(Before(s, i), s[i]) = {}
           Good(k) == /\ f[k] \in Seq(T)
                      /\ Range(f[k]) = Before(s, k + 1)
                      /\ Distinct(f[k]) <=> Clean(k)
           S == {k \in Nat : k + 1 <= n => Good(k + 1)}
<1>3. Good(1)
  <2>0. 1 \in 1 .. n
    OBVIOUS
  <2>1. f[1] \in Seq(T)
    BY <1>1, <1>2, <2>0
  <2>2. Range(f[1]) = Before(s, 1 + 1)
    <3>1. 1 .. ((1 + 1) - 1) = {1}
      OBVIOUS
    <3> QED
      BY <1>1, <3>1 DEF Before
  <2>3. Clean(1) <=> Bad({}, s[1]) = {}
    <3>1. 1 .. 1 = {1} /\ 1 .. (1 - 1) = {}
      OBVIOUS
    <3>2. Before(s, 1) = {}
      BY <3>1 DEF Before
    <3> QED
      BY <3>1, <3>2
  <2>4. PICK e : e = s[1]
    OBVIOUS
  <2>5. PICK m \in Nat : DOMAIN e = 1 .. m
    BY <1>2, <2>0, <2>4
  <2>6. Distinct(e) <=> Bad({}, e) = {}
    <3>1. ASSUME Distinct(e) PROVE Bad({}, e) = {}
      <4> SUFFICES ASSUME NEW i \in 1 .. m, i \in Bad({}, e) PROVE FALSE
        BY <2>5 DEF Bad
      <4>1. e[i] # "malformed" /\ \A j \in 1 .. m : e[i] = e[j] => i = j
        BY <2>5, <3>1 DEF Distinct, IsInjective, Range
      <4>2. PICK j \in 1 .. i - 1 : e[i] = e[j]
        BY <4>1 DEF Bad
      <4>3. j \in 1 .. m /\ i # j
        OBVIOUS
      <4> QED
        BY <4>1, <4>2, <4>3
    <3>2. ASSUME Bad({}, e) = {} PROVE Distinct(e)
      <4>1. \A i \in 1 .. m : e[i] # "malformed" /\ \A j \in 1 .. i - 1 : e[i] # e[j]
        BY <2>5, <3>2 DEF Bad
      <4>2. \A i, j \in 1 .. m : e[i] = e[j] => i = j
        <5> TAKE i \in 1 .. m, j \in 1 .. m
        <5>1. i = j \/ i \in 1 .. j - 1 \/ j \in 1 .. i - 1
          OBVIOUS
        <5> QED
          BY <4>1, <5>1
      <4> QED
        BY <2>5, <4>1, <4>2 DEF Distinct, IsInjective, Range
    <3> QED
      BY <3>1, <3>2
  <2> QED
    BY <1>1, <2>1, <2>2, <2>3, <2>4, <2>6
<1>4. ASSUME NEW k \in 1 .. n - 1, Good(k) PROVE Good(k + 1)
  <2>0. k + 1 \in 2 .. n /\ k + 1 \in 1 .. n /\ (k + 1) - 1 = k
    OBVIOUS
  <2>1. f[k + 1] = f[k] \o s[k + 1]
    BY <1>1, <2>0
  <2>2. PICK a : a = f[k]
    OBVIOUS
  <2>3. PICK b : b = s[k + 1]
    OBVIOUS
  <2>4. a \in Seq(T) /\ b \in Seq(T)
    BY <1>2, <1>4, <2>0, <2>2, <2>3
  <2>5. /\ a \o b \in Seq(T)
        /\ Range(a \o b) = Range(a) \cup Range(b)
        /\ Distinct(a \o b) <=> Distinct(a) /\ Bad(Range(a), b) = {}
    BY ONLY <2>4, PageAdded
  <2>6. Range(a) = Before(s, k + 1) /\ (Distinct(a) <=> Clean(k))
    BY <1>4, <2>2
  <2>7. Before(s, (k + 1) + 1) = Before(s, k + 1) \cup Range(s[k + 1])
    <3>1. \A j : j \in 1 .. ((k + 1) + 1) - 1 <=> j \in 1 .. (k + 1) - 1 \/ j = k + 1
      OBVIOUS
    <3> QED
      BY <3>1 DEF Before
  <2>8. Clean(k + 1) <=> Clean(k) /\ Bad(Before(s, k + 1), s[k + 1]) = {}
    <3>1. \A j : j \in 1 .. k + 1 <=> j \in 1 .. k \/ j = k + 1
      OBVIOUS
    <3> QED
      BY <3>1
  <2> HIDE DEF Clean
  <2> QED
    BY <2>1, <2>2, <2>3, <2>5, <2>6, <2>7, <2>8
<1>5. n - 1 \in S
  <2> HIDE DEF Good
  <2>1. 0 \in S
    BY <1>3
  <2>2. ASSUME NEW k \in Nat, k \in S PROVE k + 1 \in S
    <3> SUFFICES ASSUME (k + 1) + 1 <= n PROVE Good((k + 1) + 1)
      OBVIOUS
    <3>1. k + 1 \in 1 .. n - 1 /\ k + 1 <= n
      OBVIOUS
    <3>2. Good(k + 1)
      BY <2>2, <3>1
    <3> QED
      BY <1>4, <3>1, <3>2
  <2> HIDE DEF S
  <2>3. n - 1 \in Nat
    OBVIOUS
  <2> QED
    BY <2>1, <2>2, <2>3, InductionOnNat
<1>6. Good(n)
  <2> HIDE DEF Good
  <2>1. (n - 1) + 1 = n
    OBVIOUS
  <2> QED
    BY <1>5, <2>1
<1> QED
  BY <1>1, <1>6

\* A bad entry is named, whichever it is.
LEMMA FirstBadIs ==
  ASSUME NEW seen, NEW e
  PROVE  /\ FirstBadEntry(seen, e) = "none" <=> Bad(seen, e) = {}
         /\ FirstBadEntry(seen, e) \notin BoundReasons
BY DEF FirstBadEntry, Bad, BoundReasons

\* Pages of a listing, to its end.
LEMMA PaginationSound ==
  ASSUME NEW c, NEW w, NEW sys, ValidCase(c), Heard(c, w, sys), c.kind = "pagination"
  PROVE  Sound(c, w, sys)
<1>0. /\ Len(w) \in Nat /\ DOMAIN w = 1 .. Len(w) /\ Last(w) = w[Len(w)]
      /\ Raised(w) <=> Len(w) > 0 /\ w[Len(w)].out \in Unanswered
      /\ \A n \in 1 .. Len(w) : w[n].out \in {"ok", "error"} \cup Unanswered
  BY HeardIs
<1>1. PICK n \in Nat : n = Len(w)
  BY <1>0
<1>2. PICK p \in Nat \ {0} : p = c.maxPages
  BY PagesAreBounded
<1>3. PICK s : s = [i \in DOMAIN w |-> w[i].is.entries]
  OBVIOUS
<1>4. DOMAIN s = 1 .. n /\ Len(s) = n /\ \A i \in 1 .. n : s[i] = w[i].is.entries
  BY <1>0, <1>1, <1>3
<1>5. ASSUME NEW i \in 1 .. n, w[i].out = "ok"
      PROVE  s[i] \in Seq(Range(s[i])) /\ w[i].is.more \in BOOLEAN
  <2>1. Answered(c, i, w[i])
    BY <1>0, <1>1 DEF Heard
  <2>2. w[i] # Cut
    BY <1>5 DEF Cut
  <2>3. Readable(c, i, w[i])
    BY <2>1, <2>2 DEF Answered
  <2>4. w[i].is.entries \in Seq(Range(w[i].is.entries)) /\ w[i].is.more \in BOOLEAN
    BY <1>5, <2>3 DEF Readable
  <2> QED
    BY <1>4, <2>4
<1> DEFINE reason(m) == FirstBadEntry(Before(s, m), s[m])
<1>6. ASSUME NEW g, NEW m \in 1 .. n, Len(g) = m, Last(g) = g[m], \A k \in 1 .. m : g[k] = w[k],
             ~Raised(g), w[m].out \in {"ok", "error"}
      PROVE  Judge(c, g, sys) =
               IF w[m].out = "error" THEN Fail(m, "pagination-invalid-entry")
               ELSE IF reason(m) # "none" THEN Fail(m, reason(m))
               ELSE IF ~w[m].is.more THEN Pass(m)
               ELSE IF m = p THEN Fail(Stalled(m), "pagination-stalled-cursor")
               ELSE More
  <2>1. Judge(c, g, sys) = Pagination(c, g)
    BY DEF Judge
  <2>2. UNION {Range(g[i].is.entries) : i \in 1 .. (m - 1)} = Before(s, m)
    <3>1. \A i \in 1 .. (m - 1) : i \in 1 .. m /\ i \in 1 .. n
      OBVIOUS
    <3>2. \A i \in 1 .. (m - 1) : g[i].is.entries = s[i]
      BY <1>4, <1>6, <3>1
    <3> QED
      BY <3>2 DEF Before
  <2>3. Last(g) = w[m] /\ Last(g).is.entries = s[m] /\ m # 0
    BY <1>4, <1>6
  <2> QED
    BY <1>2, <1>6, <2>1, <2>2, <2>3, Zenon DEF Pagination
<1>7. ASSUME NEW m \in 1 .. n, m # n
      PROVE  /\ w[m].out = "ok" /\ reason(m) = "none" /\ w[m].is.more /\ m # p
  <2>1. PICK g : /\ Judge(c, g, sys).says = "more" /\ Len(g) = m /\ Last(g) = g[m]
                 /\ \A k \in 1 .. m : g[k] = w[k]
                 /\ Raised(g) <=> m > 0 /\ w[m].out \in Unanswered
    <3>1. m \in 0 .. Len(w) - 1
      BY <1>1, <1>7
    <3> QED
      BY <3>1, HeardBefore
  <2>2. ~Raised(g)
    <3> SUFFICES ASSUME Raised(g) PROVE FALSE
      OBVIOUS
    <3>1. Judge(c, g, sys) = Raise(g)
      <4>1. Judge(c, g, sys) = Pagination(c, g) /\ Len(g) # 0
        BY <2>1 DEF Judge
      <4> QED
        BY <4>1, Zenon DEF Pagination
    <3> QED
      BY <2>1, <3>1, Says
  <2>3. w[m].out \in {"ok", "error"}
    BY <1>0, <1>1, <2>1, <2>2
  <2>4. Judge(c, g, sys) =
               IF w[m].out = "error" THEN Fail(m, "pagination-invalid-entry")
               ELSE IF reason(m) # "none" THEN Fail(m, reason(m))
               ELSE IF ~w[m].is.more THEN Pass(m)
               ELSE IF m = p THEN Fail(Stalled(m), "pagination-stalled-cursor")
               ELSE More
    BY <1>6, <2>1, <2>2, <2>3
  <2> HIDE DEF reason
  <2>5. w[m].out = "ok"
    BY <2>1, <2>3, <2>4, Says
  <2>6. reason(m) = "none"
    BY <2>1, <2>4, <2>5, Says
  <2>7. w[m].is.more
    BY <2>1, <2>4, <2>5, <2>6, Says
  <2>8. m # p
    BY <2>1, <2>4, <2>5, <2>6, <2>7, Says
  <2> QED
    BY <2>5, <2>6, <2>7, <2>8
<1>8. \A m \in 1 .. n : reason(m) \notin BoundReasons /\ (reason(m) = "none" <=> Bad(Before(s, m), s[m]) = {})
  BY FirstBadIs
<1> HIDE DEF reason
<1>9. Contract(c, w, sys) <=>
        /\ AllOk(w)
        /\ \A i \in 1 .. n : w[i].is.more <=> i < n
        /\ n <= p
        /\ Distinct(FlattenSeq(s))
  BY <1>0, <1>1, <1>2, <1>3 DEF Contract, Traversed, Entries, Distinct
<1>10. n <= p
  <2> SUFFICES ASSUME n > p PROVE FALSE
    OBVIOUS
  <2>1. p \in 1 .. n /\ p # n
    OBVIOUS
  <2> QED
    BY <1>7, <2>1
<1>11. CASE n = 0
  <2>1. Judge(c, w, sys) = More
    BY <1>1, <1>11 DEF Judge, Pagination
  <2> QED
    BY <2>1, Says, Unbounded, SoundWithoutBound
<1>12. CASE Raised(w)
  <2>1. Judge(c, w, sys) = Raise(w)
    <3>1. Judge(c, w, sys) = Pagination(c, w) /\ Len(w) # 0
      BY <1>0, <1>12 DEF Judge
    <3> QED
      BY <1>12, <3>1, Zenon DEF Pagination
  <2> QED
    BY <2>1, Says, Unbounded, SoundWithoutBound
<1>13. CASE n # 0 /\ ~Raised(w)
  <2>1. n \in 1 .. n /\ w[n].out \in {"ok", "error"}
    BY <1>0, <1>1, <1>13
  <2>2. Judge(c, w, sys) =
               IF w[n].out = "error" THEN Fail(n, "pagination-invalid-entry")
               ELSE IF reason(n) # "none" THEN Fail(n, reason(n))
               ELSE IF ~w[n].is.more THEN Pass(n)
               ELSE IF n = p THEN Fail(Stalled(n), "pagination-stalled-cursor")
               ELSE More
    <3>1. Len(w) = n /\ Last(w) = w[n] /\ \A k \in 1 .. n : w[k] = w[k]
      BY <1>0, <1>1
    <3> QED
      BY <1>6, <1>13, <2>1, <3>1
  <2>3. AllOk(w) <=> w[n].out = "ok"
    BY <1>0, <1>1, <1>7, <2>1 DEF AllOk
  <2>4. CASE w[n].out = "error"
    <3>1. ~Contract(c, w, sys)
      BY <1>9, <2>3, <2>4
    <3>2. Judge(c, w, sys) = Fail(n, "pagination-invalid-entry")
      BY <2>2, <2>4
    <3> QED
      BY <3>1, <3>2, Says, SoundWithoutBound DEF BoundReasons
  <2>5. CASE w[n].out = "ok"
    <3>1. \A i \in 1 .. n : s[i] \in Seq(Range(s[i]))
      BY <1>5, <1>7, <2>5
    <3>2. Distinct(FlattenSeq(s)) <=> \A i \in 1 .. n : Bad(Before(s, i), s[i]) = {}
      BY <1>4, <1>13, <3>1, PagesDistinct
    <3>3. Distinct(FlattenSeq(s)) <=> reason(n) = "none"
      BY <1>7, <1>8, <2>1, <3>2
    <3>4. CASE reason(n) # "none"
      <4>1. Judge(c, w, sys) = Fail(n, reason(n))
        BY <2>2, <2>5, <3>4
      <4> QED
        BY <1>8, <1>9, <2>1, <3>3, <3>4, <4>1, Says, SoundWithoutBound
    <3>5. CASE reason(n) = "none" /\ ~w[n].is.more
      <4>1. Judge(c, w, sys) = Pass(n)
        BY <2>2, <2>5, <3>5
      <4>2. \A i \in 1 .. n : w[i].is.more <=> i < n
        <5> TAKE i \in 1 .. n
        <5>1. CASE i = n
          BY <3>5, <5>1
        <5>2. CASE i # n
          <6>1. i < n
            BY <5>2
          <6> QED
            BY <1>7, <5>2, <6>1
        <5> QED
          BY <5>1, <5>2
      <4>3. Contract(c, w, sys)
        BY <1>9, <1>10, <2>3, <2>5, <3>3, <3>5, <4>2
      <4> QED
        BY <4>1, <4>3, Says, Unbounded, SoundWithoutBound
    <3>6. CASE reason(n) = "none" /\ w[n].is.more /\ n = p
      <4>1. Judge(c, w, sys) = Fail(Stalled(p), "pagination-stalled-cursor")
        BY <2>2, <2>5, <3>6
      <4>2. ~Contract(c, w, sys)
        <5>1. ~(n < n)
          OBVIOUS
        <5> QED
          BY <1>9, <2>1, <3>6, <5>1
      <4>3. PICK v : v = Judge(c, w, sys)
        OBVIOUS
      <4>4. v.says = "failed" /\ v.reason = "pagination-stalled-cursor" /\ v.attempts = p + 1
        BY <4>1, <4>3, Says DEF Stalled
      <4>5. BoundDetail(c, w, sys, v) = Detail("max_pages", p, p + 1)
        BY <1>2, <4>4 DEF BoundDetail
      <4>6. Exceeds(c, w, sys, v)
        <5>1. p + 1 > p
          OBVIOUS
        <5> QED
          BY <4>5, <5>1, OneBound
      <4> QED
        BY <4>2, <4>3, <4>4, <4>6 DEF Sound
    <3>7. CASE reason(n) = "none" /\ w[n].is.more /\ n # p
      <4>1. Judge(c, w, sys) = More
        BY <2>2, <2>5, <3>7
      <4> QED
        BY <4>1, Says, Unbounded, SoundWithoutBound
    <3> QED
      BY <3>4, <3>5, <3>6, <3>7
  <2> QED
    BY <2>1, <2>4, <2>5
<1> QED
  BY <1>11, <1>12, <1>13

\* A runner's verdict is what the contract of its kind says of the answers.
LEMMA JudgeSound ==
  ASSUME NEW c, NEW w, NEW sys, ValidCase(c), Heard(c, w, sys), c.kind # "contention",
         sys.tokens \in Seq(Nat), sys.bytes \in Nat
  PROVE  Sound(c, w, sys)
<1>1. c.kind \in Kinds
  BY DEF ValidCase
<1>2. CASE c.kind \in {"discovery-cost", "token-cost"}
  BY <1>2, CatalogSound
<1>3. CASE c.kind \in {"sampling", "elicitation"}
  BY <1>3, RequestsSound
<1>4. CASE c.kind \in {"schema-guessability", "degradation-over-n", "instruction-fidelity",
                       "workflow", "error-honesty", "state-recovery", "latency-budget", "output-schema"}
  BY <1>4, SchemaSound, DegradationSound, FidelitySound, WorkflowSound, HonestySound,
     RecoverySound, LatencySound, OutputSound
<1>5. CASE c.kind \in {"cancellation", "pagination", "surface-listing", "payload-bounds",
                       "protocol-negotiation", "resource-subscription", "completion"}
  BY <1>5, CancellationSound, PaginationSound, ListingSound, PayloadSound, NegotiationSound,
     SubscriptionSound, CompletionSound
<1> QED
  BY <1>1, <1>2, <1>3, <1>4, <1>5 DEF Kinds
-----------------------------------------------------------------------------
(* An evaluation: the answers of a case are heard one at a time.            *)

\* What the clients make of the answers to a manifest's cases can be looked at.
AnswersAreReadable ==
    \A m \in Manifests : \A k \in DOMAIN m : \A g :
        \A a \in Answers(m[k], g) : Readable(m[k], Len(g) + 1, a)

\* What may come back to a thread of a contention.
Received == Opening \cup {Cut}
Steps == {"idle", "initialize", "list", "ready", "released", "wait", "call", "stopped",
          "begin", "start", "drop", "join"}
ThreadsInv == worker \in [at : Steps, got : Received] /\ primary \in [at : Steps, got : Received]

\* Where the run is in its manifest, and what it has heard for its case: a runner
\* went on only while its answers left the case open, and a case goes on to its
\* report when they decide it, or when the budget is spent.
PlaceInv ==
    /\ manifest \in Manifests /\ srv \in Servers /\ next \in Nat \ {0}
    /\ pc \in {"runner", "contend", "finish"} => next \in DOMAIN manifest
    /\ pc \notin {"runner", "finish"} => h = <<>>
    /\ pc = "contend" => Case.kind = "contention"
    /\ pc = "runner" => Case.kind # "contention" /\ Heard(Case, h, srv)
    /\ pc = "finish" /\ ~Spent => Judge(Case, h, srv).says # "more" /\ Sound(Case, h, srv)

\* The bounds the reports name.
DetailsInv == \A k \in DOMAIN reports : \A d \in Range(reports[k].detail) : d.observed > d.limit

\* The inductive invariant.
VerdictInv == ExhaustionInv /\ ThreadsInv /\ PlaceInv /\ DetailsInv

\* The case a run is at, and its server, are what a manifest and a server may be.
LEMMA CaseIsValid ==
  ASSUME PlaceInv, next \in DOMAIN manifest
  PROVE  ValidCase(Case) /\ srv.tokens \in Seq(Nat) /\ srv.bytes \in Nat
BY ManifestsAssumption, ServersAssumption DEF PlaceInv, Case

\* The invariant says what the property says.
LEMMA VerdictInvMeans == ASSUME VerdictInv PROVE VerdictMeansContract
BY DEF VerdictInv, PlaceInv, DetailsInv, VerdictMeansContract, Sound

\* An answer more, to a case that was still open.
LEMMA HeardMore ==
  ASSUME NEW c, NEW g, NEW s, NEW a, Heard(c, g, s), Judge(c, g, s).says = "more",
         Answered(c, Len(g) + 1, a)
  PROVE  Heard(c, Append(g, a), s)
<1>1. PICK t : t = Append(g, a)
  OBVIOUS
<1>2. /\ IsList(g) /\ IsList(t) /\ DOMAIN t = 1 .. Len(g) + 1
      /\ t[Len(g) + 1] = a /\ DOMAIN g = 1 .. Len(g) /\ Len(g) \in Nat
      /\ \A k \in 1 .. Len(g) : t[k] = g[k]
  BY <1>1, Appended DEF Heard
<1>3. PICK l \in Nat : l = Len(g)
  BY <1>2
<1>4. Len(t) = l + 1
  <2>1. Len(t) \in Nat /\ DOMAIN t = 1 .. Len(t)
    BY <1>2, Shape
  <2>2. 1 .. Len(t) = 1 .. l + 1
    BY <1>2, <1>3, <2>1
  <2>3. PICK x \in Nat : x = Len(t)
    BY <2>1
  <2>4. x <= l + 1
    <3> SUFFICES ASSUME x > l + 1 PROVE FALSE
      OBVIOUS
    <3>1. x \in 1 .. x /\ x \notin 1 .. l + 1
      OBVIOUS
    <3> QED
      BY <2>2, <2>3, <3>1
  <2>5. l + 1 <= x
    <3> SUFFICES ASSUME x < l + 1 PROVE FALSE
      OBVIOUS
    <3>1. l + 1 \notin 1 .. x /\ l + 1 \in 1 .. l + 1
      OBVIOUS
    <3> QED
      BY <2>2, <2>3, <3>1
  <2> QED
    BY <2>3, <2>4, <2>5
<1>5. ASSUME NEW k \in DOMAIN t PROVE Answered(c, k, t[k])
  <2>1. CASE k = Len(g) + 1
    BY <1>2, <2>1
  <2>2. CASE k # Len(g) + 1
    <3>1. k \in DOMAIN g /\ t[k] = g[k]
      BY <1>2, <2>2
    <3> QED
      BY <3>1 DEF Heard
  <2> QED
    BY <2>1, <2>2
<1>6. ASSUME NEW n \in 0 .. l PROVE SubSeq(t, 1, n) = SubSeq(g, 1, n)
  <2> DEFINE S == {g[k] : k \in DOMAIN g}
  <2>1. n \in Int /\ \A i \in 1 .. n : i \in 1 .. l
    BY <1>3
  <2>2. \A i \in 1 .. n : t[i] \in S /\ g[i] \in S
    BY <1>2, <1>3, <2>1
  <2> HIDE DEF S
  <2>3. PICK u, v : u = SubSeq(t, 1, n) /\ v = SubSeq(g, 1, n)
    OBVIOUS
  <2>4. /\ u \in Seq(S) /\ Len(u) = (IF 1 <= n THEN n - 1 + 1 ELSE 0)
        /\ \A i \in 1 .. n - 1 + 1 : u[i] = t[1 + i - 1]
    BY <2>1, <2>2, <2>3, SubSeqProperties
  <2>5. /\ v \in Seq(S) /\ Len(v) = (IF 1 <= n THEN n - 1 + 1 ELSE 0)
        /\ \A i \in 1 .. n - 1 + 1 : v[i] = g[1 + i - 1]
    BY <2>1, <2>2, <2>3, SubSeqProperties
  <2>6. Len(u) = n /\ Len(v) = n
    BY <2>4, <2>5
  <2>7. \A i \in 1 .. n : u[i] = t[i] /\ v[i] = g[i]
    <3>1. \A i \in 1 .. n : i \in 1 .. n - 1 + 1 /\ 1 + i - 1 = i
      OBVIOUS
    <3> QED
      BY <2>4, <2>5, <3>1
  <2>8. \A i \in 1 .. Len(u) : u[i] = v[i]
    BY <1>2, <1>3, <2>1, <2>6, <2>7
  <2>9. u = v
    BY <2>4, <2>5, <2>6, <2>8, SeqEqual
  <2> QED
    BY <2>3, <2>9
<1>7. SubSeq(g, 1, l) = g
  <2>1. g \in Seq({g[k] : k \in DOMAIN g})
    BY <1>2 DEF IsList
  <2> QED
    BY <1>3, <2>1, SubSeqFull
<1>8. ASSUME NEW n \in 0 .. (Len(t) - 1) PROVE Judge(c, SubSeq(t, 1, n), s).says = "more"
  <2>1. n \in 0 .. l
    BY <1>4
  <2>2. CASE n = l
    <3>1. SubSeq(t, 1, n) = g
      BY <1>6, <1>7, <2>1, <2>2
    <3> QED
      BY <3>1
  <2>3. CASE n # l
    <3>1. n \in 0 .. (Len(g) - 1)
      BY <1>3, <2>1, <2>3
    <3>2. Judge(c, SubSeq(g, 1, n), s).says = "more"
      BY <3>1 DEF Heard, Unsettled
    <3> QED
      BY <1>6, <2>1, <3>2
  <2> QED
    BY <2>2, <2>3
<1> QED
  BY <1>1, <1>2, <1>5, <1>8 DEF Heard, Unsettled

\* No answer yet.
LEMMA NothingHeard ==
  ASSUME NEW c, NEW s PROVE Heard(c, <<>>, s)
<1>1. Len(<<>>) = 0 /\ DOMAIN <<>> = {}
  OBVIOUS
<1>2. 0 .. (0 - 1) = {}
  OBVIOUS
<1> QED
  BY <1>1, <1>2 DEF Heard, Unsettled, IsList

\* Before and after a case nothing is heard, and the deadline changes no answer.
LEMMA AsideVerdicts ==
  ASSUME VerdictInv, Open \/ Discover \/ Reconnect \/ Standard \/ Expire
  PROVE  ThreadsInv' /\ PlaceInv' /\ DetailsInv'
<1>1. UNCHANGED <<manifest, srv, next, h, worker, primary, reports>> /\ (Spent => Spent')
  BY AskedSpends DEF Open, Discover, Reconnect, Standard, Expire, threads, session, budget, Spent
<1>2. pc' = pc \/ (pc \notin {"runner", "contend", "finish"} /\ pc' \notin {"runner", "contend", "finish"})
  BY DEF Open, Discover, Reconnect, Standard, Expire
<1>3. ThreadsInv' /\ DetailsInv'
  BY <1>1 DEF VerdictInv, ThreadsInv, DetailsInv
<1>4. Case' = Case
  BY <1>1 DEF Case
<1>5. PlaceInv'
  <2>1. PlaceInv
    BY DEF VerdictInv
  <2> QED
    BY <1>1, <1>2, <1>4, <2>1 DEF PlaceInv
<1> QED
  BY <1>3, <1>5

\* A report whose bounds are exceeded.
LEMMA ReportDetails ==
  ASSUME VerdictInv, NEW v, NEW detail, Report(v, detail),
         \A d \in Range(detail) : d.observed > d.limit
  PROVE  DetailsInv' /\ h' = <<>> /\ next' \in Nat \ {0}
<1>1. PICK r : r = [verdict |-> v, detail |-> detail, cut |-> cut]
  OBVIOUS
<1>2. reports' = Append(reports, r) /\ r.detail = detail /\ h' = <<>> /\ next' = next + 1
  BY <1>1 DEF Report
<1>3. /\ DOMAIN reports' = 1..Len(reports) + 1
      /\ reports'[Len(reports) + 1] = r /\ DOMAIN reports = 1..Len(reports) /\ Len(reports) \in Nat
      /\ \A k \in 1..Len(reports) : reports'[k] = reports[k]
  BY <1>2, Appended DEF VerdictInv, ExhaustionInv
<1>4. ASSUME NEW k \in DOMAIN reports', NEW d \in Range(reports'[k].detail)
      PROVE  d.observed > d.limit
  <2>1. CASE k = Len(reports) + 1
    <3>1. d \in Range(detail)
      BY <1>2, <1>3, <2>1
    <3> QED
      BY <3>1
  <2>2. CASE k # Len(reports) + 1
    <3>1. k \in DOMAIN reports /\ reports'[k] = reports[k]
      BY <1>3, <2>2
    <3> QED
      BY <3>1 DEF VerdictInv, DetailsInv
  <2> QED
    BY <2>1, <2>2
<1>5. next \in Nat
  BY DEF VerdictInv, PlaceInv
<1> QED
  BY <1>2, <1>4, <1>5 DEF DetailsInv

\* A case that is skipped names no bound.
LEMMA SkipCaseVerdicts ==
  ASSUME VerdictInv, SkipCase PROVE ThreadsInv' /\ PlaceInv' /\ DetailsInv'
<1>1. PICK v : Report(v, NoDetail)
  BY DEF SkipCase
<1>2. Range(NoDetail) = {}
  BY DEF NoDetail, Range
<1>3. DetailsInv' /\ h' = <<>> /\ next' \in Nat \ {0}
  BY <1>1, <1>2, ReportDetails
<1>4. pc' = "case" /\ UNCHANGED <<manifest, srv, worker, primary>>
  BY DEF SkipCase, threads
<1> QED
  BY <1>3, <1>4 DEF VerdictInv, ThreadsInv, PlaceInv

\* A case begins with nothing heard.
LEMMA StartCaseVerdicts ==
  ASSUME VerdictInv, StartCase PROVE ThreadsInv' /\ PlaceInv' /\ DetailsInv'
<1>1. /\ pc = "case" /\ next <= Len(manifest)
      /\ pc' = IF Spent THEN "finish" ELSE IF Case.kind = "contention" THEN "contend" ELSE "runner"
      /\ UNCHANGED <<manifest, srv, next, h, denied, expired, reports>>
  BY DEF StartCase, budget
<1>2. PlaceInv /\ ThreadsInv /\ DetailsInv
  BY DEF VerdictInv
<1>3. next \in DOMAIN manifest
  <2>1. manifest \in Seq(Range(manifest)) /\ next \in Nat \ {0}
    BY <1>2, ManifestsAssumption DEF PlaceInv
  <2>2. PICK m : m = manifest
    OBVIOUS
  <2>3. DOMAIN m = 1 .. Len(m) /\ Len(m) \in Nat
    BY <2>1, <2>2
  <2>4. next \in 1 .. Len(m)
    BY <1>1, <2>1, <2>2, <2>3
  <2> QED
    BY <2>2, <2>3, <2>4
<1>4. Case' = Case /\ (Spent' <=> Spent) /\ h' = <<>>
  BY <1>1, <1>2 DEF Case, Spent, PlaceInv
<1>5. Heard(Case, <<>>, srv)
  BY NothingHeard
<1>6. ThreadsInv'
  <2>1. CASE pc' = "contend"
    <3>1. worker' = [Idle EXCEPT !.at = "initialize"] /\ primary' = [Idle EXCEPT !.at = "begin"]
      BY <2>1 DEF StartCase
    <3>2. worker' = [at |-> "initialize", got |-> Ok] /\ primary' = [at |-> "begin", got |-> Ok]
      BY <3>1 DEF Idle
    <3> QED
      BY <3>2 DEF ThreadsInv, Steps, Received, Opening
  <2>2. CASE pc' # "contend"
    BY <1>2, <2>2 DEF StartCase, threads, ThreadsInv
  <2> QED
    BY <2>1, <2>2
<1>7. PlaceInv'
  <2>1. manifest' \in Manifests /\ srv' \in Servers /\ next' \in Nat \ {0} /\ next' \in DOMAIN manifest'
    BY <1>1, <1>2, <1>3 DEF PlaceInv
  <2>2. CASE Spent
    BY <1>1, <1>4, <2>1, <2>2 DEF PlaceInv
  <2>3. CASE ~Spent /\ Case.kind = "contention"
    BY <1>1, <1>4, <2>1, <2>3 DEF PlaceInv
  <2>4. CASE ~Spent /\ Case.kind # "contention"
    BY <1>1, <1>4, <1>5, <2>1, <2>4 DEF PlaceInv
  <2> QED
    BY <2>2, <2>3, <2>4
<1>8. DetailsInv'
  BY <1>1, <1>2 DEF DetailsInv
<1> QED
  BY <1>6, <1>7, <1>8

\* What comes too late is lost, and what is lost can be looked at.
LEMMA InTimeIsReadable ==
  ASSUME NEW c, NEW n, NEW a, Answered(c, n, a) PROVE Answered(c, n, InTime(c, a))
<1>1. CASE c.kind = "latency-budget" /\ a.out = "ok" /\ a.is > CaseTimeout(c)
  <2>1. a # Cut
    BY <1>1 DEF Cut
  <2>2. a \in [out : {"ok"}, is : Nat]
    BY <1>1, <2>1 DEF Answered, Readable
  <2>3. InTime(c, a) = [a EXCEPT !.out = "timeout"]
    BY <1>1 DEF InTime
  <2>4. InTime(c, a).out = "timeout"
    BY <2>2, <2>3
  <2> QED
    BY <2>4 DEF Answered, Readable, LostOuts
<1>2. CASE ~(c.kind = "latency-budget" /\ a.out = "ok" /\ a.is > CaseTimeout(c))
  BY <1>2 DEF InTime
<1> QED
  BY <1>1, <1>2

\* The runner's exchanges.
LEMMA ExchangeVerdicts ==
  ASSUME AnswersAreReadable, VerdictInv, Exchange PROVE ThreadsInv' /\ PlaceInv' /\ DetailsInv'
<1>1. /\ pc = "runner" /\ Judge(Case, h, srv).says = "more"
      /\ UNCHANGED <<manifest, srv, pc, next, worker, primary, reports>>
  BY DEF Exchange, threads
<1>2. PICK a \in Answers(Case, h) \cup {Cut} : h' = Append(h, InTime(Case, a))
  BY DEF Exchange
<1>3. PlaceInv /\ ThreadsInv /\ DetailsInv
  BY DEF VerdictInv
<1>4. /\ manifest \in Manifests /\ next \in DOMAIN manifest
      /\ Case.kind # "contention" /\ Heard(Case, h, srv)
  BY <1>1, <1>3 DEF PlaceInv
<1>5. Answered(Case, Len(h) + 1, a)
  BY <1>2, <1>4 DEF AnswersAreReadable, Answered, Case
<1>6. Heard(Case, h', srv)
  BY <1>1, <1>2, <1>4, <1>5, InTimeIsReadable, HeardMore
<1>7. Case' = Case
  BY <1>1 DEF Case
<1> QED
  BY <1>1, <1>3, <1>4, <1>6, <1>7 DEF PlaceInv, ThreadsInv, DetailsInv

\* The runner's decision.
LEMMA DecideVerdicts ==
  ASSUME VerdictInv, Decide PROVE ThreadsInv' /\ PlaceInv' /\ DetailsInv'
<1>1. /\ pc = "runner" /\ pc' = "finish" /\ Judge(Case, h, srv).says # "more"
      /\ UNCHANGED <<manifest, srv, next, h, worker, primary, reports>>
  BY DEF Decide, threads
<1>2. PlaceInv /\ ThreadsInv /\ DetailsInv
  BY DEF VerdictInv
<1>3. next \in DOMAIN manifest /\ Case.kind # "contention" /\ Heard(Case, h, srv)
  BY <1>1, <1>2 DEF PlaceInv
<1>4. Sound(Case, h, srv)
  BY <1>2, <1>3, CaseIsValid, JudgeSound
<1>5. Case' = Case
  BY <1>1 DEF Case
<1> QED
  BY <1>1, <1>2, <1>3, <1>4, <1>5 DEF PlaceInv, ThreadsInv, DetailsInv

\* The report of a case: of its bounds, or of the budget.
LEMMA FinishVerdicts ==
  ASSUME VerdictInv, Finish PROVE ThreadsInv' /\ PlaceInv' /\ DetailsInv'
<1>1. PICK v : v = FinishedVerdict
  OBVIOUS
<1>2. PICK detail : detail = IF v.says = "errored" THEN NoDetail ELSE BoundDetail(Case, h, srv, v)
  OBVIOUS
<1>3. /\ pc = "finish" /\ Report(v, detail) /\ pc' \in {"reconnect", "case"}
      /\ UNCHANGED <<manifest, srv, worker, primary>>
  BY <1>1, <1>2 DEF Finish, threads
<1>4. ASSUME NEW d \in Range(detail) PROVE d.observed > d.limit
  <2>1. CASE v.says = "errored"
    <3>1. Range(detail) = {}
      BY <1>2, <2>1 DEF NoDetail, Range
    <3> QED
      BY <1>4, <3>1
  <2>2. CASE v.says # "errored"
    <3>1. ~Spent /\ v = Judge(Case, h, srv)
      BY <1>1, <2>2, Says DEF FinishedVerdict
    <3>2. v.says # "more" /\ Sound(Case, h, srv)
      BY <1>3, <3>1 DEF VerdictInv, PlaceInv
    <3>3. Exceeds(Case, h, srv, v)
      BY <2>2, <3>1, <3>2 DEF Sound
    <3> QED
      BY <1>2, <1>4, <2>2, <3>3 DEF Exceeds
  <2> QED
    BY <2>1, <2>2
<1>5. DetailsInv' /\ h' = <<>> /\ next' \in Nat \ {0}
  BY <1>3, <1>4, ReportDetails
<1> QED
  BY <1>3, <1>5 DEF VerdictInv, ThreadsInv, PlaceInv

\* What comes back to a thread, and where that leaves it.
LEMMA ThreadMoves ==
  /\ Ok \in Received /\ Error \in Received /\ Cut \in Received /\ Broken \in Received
  /\ \A t \in [at : Steps, got : Received] : \A at \in Steps : At(t, at) \in [at : Steps, got : Received]
  /\ \A t : \A a \in Received : Stop(t, a) \in [at : Steps, got : Received]
  /\ \A at \in Steps : \A a \in Received : [at |-> at, got |-> a] \in [at : Steps, got : Received]
<1>1. Ok \in Received /\ Error \in Received /\ Cut \in Received
  BY DEF Received, Opening
<1>2. Broken \in Received
  <2>1. Broken \in LostAnswers
    BY DEF Broken, LostAnswers, LostOuts
  <2> QED
    BY <2>1 DEF Received, Opening
<1> QED
  BY <1>1, <1>2 DEF At, Stop, Steps

\* The threads of a contention have their own answers, and the run waits.
LEMMA ContentionVerdicts ==
  ASSUME VerdictInv,
         \/ WorkerAsks \/ WorkerGivesUp \/ WorkerWaits \/ Meet
         \/ PrimaryBegins \/ PrimaryGivesUp \/ PrimaryCalls \/ DropChannels
  PROVE  ThreadsInv' /\ PlaceInv' /\ DetailsInv'
<1>1. /\ worker.at # "idle" \/ primary.at # "idle"
      /\ UNCHANGED <<manifest, srv, pc, next, h, reports>>
  BY DEF WorkerAsks, WorkerGivesUp, WorkerWaits, Meet, PrimaryBegins, PrimaryGivesUp,
         PrimaryCalls, DropChannels, OthersThanThreads
<1>2. pc = "contend" /\ PlaceInv /\ ThreadsInv /\ DetailsInv
  BY <1>1 DEF VerdictInv, ExhaustionInv, CutInv
<1>3. PlaceInv' /\ DetailsInv'
  BY <1>1, <1>2 DEF PlaceInv, DetailsInv, Case
<1> DEFINE T == [at : Steps, got : Received]
<1>4. worker \in T /\ primary \in T
  BY <1>2 DEF ThreadsInv
<1>5. {"ready", "list", "released", "wait", "call", "start", "drop", "join"} \subseteq Steps
  BY DEF Steps
<1>6. worker' \in T /\ primary' \in T
  <2> HIDE DEF T
  <2>0. /\ \A t \in T : \A at \in Steps : At(t, at) \in T
        /\ \A t : \A a \in Received : Stop(t, a) \in T
        /\ \A at \in Steps : \A a \in Received : [at |-> at, got |-> a] \in T
    BY ThreadMoves DEF T
  <2>1. CASE WorkerAsks
    <3>1. PICK a \in Received :
            worker' = IF worker.at = "call" THEN Stop(worker, a)
                      ELSE IF a.out = "ok" THEN At(worker, IF worker.at = "list" THEN "ready" ELSE "list")
                      ELSE Stop(worker, IF a.out = "error" THEN Broken ELSE a)
      BY <2>1 DEF WorkerAsks, Received
    <3>2. worker' = Stop(worker, a) \/ worker' = Stop(worker, Broken)
          \/ worker' = At(worker, "ready") \/ worker' = At(worker, "list")
      BY <3>1
    <3>3. primary' = primary
      BY <2>1 DEF WorkerAsks
    <3>4. Broken \in Received
      BY ThreadMoves
    <3>5. Stop(worker, a) \in T /\ Stop(worker, Broken) \in T
      BY <2>0, <3>1, <3>4
    <3>6. At(worker, "ready") \in T /\ At(worker, "list") \in T
      BY <1>4, <1>5, <2>0
    <3> QED
      BY <1>4, <3>2, <3>3, <3>5, <3>6
  <2>2. CASE WorkerGivesUp
    <3>1. worker' = Stop(worker, Cut) \/ worker' = Stop(worker, Broken)
      BY <2>2 DEF WorkerGivesUp
    <3>2. primary' = primary
      BY <2>2 DEF WorkerGivesUp
    <3> QED
      BY <1>4, <2>0, <3>1, <3>2, ThreadMoves
  <2>3. CASE WorkerWaits
    <3>1. worker' = At(worker, "wait") /\ primary' = primary
      BY <2>3 DEF WorkerWaits
    <3> QED
      BY <1>4, <1>5, <2>0, <3>1
  <2>4. CASE Meet
    <3>1. \/ primary' = At(primary, "start") /\ worker' = At(worker, "released")
          \/ primary' = At(primary, "call") /\ worker' = At(worker, "call")
      BY <2>4 DEF Meet
    <3> QED
      BY <1>4, <1>5, <2>0, <3>1
  <2>5. CASE PrimaryBegins
    <3>1. primary' = [at |-> "drop", got |-> Cut] \/ primary' = At(primary, "ready")
      BY <2>5 DEF PrimaryBegins
    <3>2. worker' = worker
      BY <2>5 DEF PrimaryBegins
    <3>3. [at |-> "drop", got |-> Cut] \in T /\ At(primary, "ready") \in T
      BY <1>4, <1>5, <2>0, ThreadMoves
    <3> QED
      BY <1>4, <3>1, <3>2, <3>3
  <2>6. CASE PrimaryGivesUp
    <3>1. primary' = [at |-> "drop", got |-> Broken] /\ worker' = worker
      BY <2>6 DEF PrimaryGivesUp
    <3> QED
      BY <1>4, <1>5, <2>0, <3>1, ThreadMoves
  <2>7. CASE PrimaryCalls
    <3>1. PICK a \in Received : primary' = [at |-> "drop", got |-> a]
      BY <2>7 DEF PrimaryCalls, Received
    <3>2. worker' = worker
      BY <2>7 DEF PrimaryCalls
    <3> QED
      BY <1>4, <1>5, <2>0, <3>1, <3>2
  <2>8. CASE DropChannels
    <3>1. primary' = At(primary, "join") /\ worker' = worker
      BY <2>8 DEF DropChannels
    <3> QED
      BY <1>4, <1>5, <2>0, <3>1
  <2> QED
    BY <2>1, <2>2, <2>3, <2>4, <2>5, <2>6, <2>7, <2>8
<1> QED
  BY <1>3, <1>6 DEF ThreadsInv

\* The two answers of a contention decide it.
LEMMA JoinVerdicts ==
  ASSUME VerdictInv, Join PROVE ThreadsInv' /\ PlaceInv' /\ DetailsInv'
<1>1. /\ primary.at = "join" /\ pc' = "finish" /\ worker' = Idle /\ primary' = Idle
      /\ UNCHANGED <<manifest, srv, next, reports>>
  BY DEF Join, OthersThanThreads
<1>2. PlaceInv /\ ThreadsInv /\ DetailsInv /\ pc = "contend"
  BY <1>1 DEF VerdictInv, ExhaustionInv, CutInv
<1>3. next \in DOMAIN manifest /\ Case.kind = "contention" /\ Case' = Case
  BY <1>1, <1>2 DEF PlaceInv, Case
<1>4. PICK a \in Recorded(primary.got), b \in Recorded(worker.got) : h' = <<a, b>>
  BY DEF Join
<1>5. primary.got \in Received /\ worker.got \in Received
  BY <1>2 DEF ThreadsInv
<1>6. \A x \in Received : x.out \in {"ok", "error"} \cup Unanswered
  BY DEF Received, Opening, Ok, Error, Cut, LostAnswers, LostOuts, Unanswered
<1>7. ASSUME NEW x \in Received, NEW y \in Recorded(x) PROVE y.out \in {"ok", "error"} \cup Unanswered
  <2>1. y = x \/ y = [out |-> "unrecorded"]
    BY <1>7 DEF Recorded
  <2> QED
    BY <1>6, <2>1 DEF Unanswered
<1>8. a.out \in {"ok", "error"} \cup Unanswered /\ b.out \in {"ok", "error"} \cup Unanswered
  BY <1>4, <1>5, <1>7
<1>9. Judge(Case, h', srv).says # "more" /\ Sound(Case, h', srv)
  BY <1>3, <1>4, <1>8, ContentionSound
<1>10. ThreadsInv'
  BY <1>1, ThreadMoves DEF ThreadsInv, Idle, Steps
<1> QED
  BY <1>1, <1>2, <1>3, <1>9, <1>10 DEF PlaceInv, DetailsInv

\* Every step keeps the inductive invariant.
LEMMA NextVerdictInv ==
  ASSUME AnswersAreReadable, VerdictInv, [Next]_vars PROVE VerdictInv'
<1>1. pc = "runner" => Cut \notin Answers(Case, h)
  <2> SUFFICES ASSUME pc = "runner", Cut \in Answers(Case, h) PROVE FALSE
    OBVIOUS
  <2>1. manifest \in Manifests /\ next \in DOMAIN manifest
    BY DEF VerdictInv, PlaceInv
  <2>2. Readable(Case, Len(h) + 1, Cut)
    BY <2>1 DEF AnswersAreReadable, Case
  <2> QED
    BY <2>2 DEF Readable, Cut, LostOuts
<1>2. ExhaustionInv'
  BY <1>1, NextExhaustionInv DEF VerdictInv
<1>3. ThreadsInv' /\ PlaceInv' /\ DetailsInv'
  <2>1. CASE UNCHANGED vars
    BY <2>1 DEF vars, threads, budget, session, VerdictInv, ThreadsInv, PlaceInv, DetailsInv, Case, Spent
  <2>2. CASE Next
    BY <2>2, AsideVerdicts, SkipCaseVerdicts, StartCaseVerdicts, ExchangeVerdicts, DecideVerdicts,
       FinishVerdicts, ContentionVerdicts, JoinVerdicts DEF Next, Main, Worker
  <2> QED
    BY <2>1, <2>2
<1> QED
  BY <1>2, <1>3 DEF VerdictInv

\* Whatever a valid manifest asks and whatever the server answers to whom and
\* when, a case that is decided passes exactly when its answers keep the
\* contract of its kind, but for a completion without values, which breaks it
\* and passes; and the bound a report names is one its measurement exceeds.
THEOREM VerdictsKeepContracts ==
  ASSUME AnswersAreReadable
  PROVE  Spec => []VerdictMeansContract
<1>1. Init => VerdictInv
  <2> SUFFICES ASSUME Init PROVE VerdictInv
    OBVIOUS
  <2>1. /\ reports = <<>> /\ cut = FALSE /\ worker = Idle /\ primary = Idle
        /\ pc = "open" /\ next = 1 /\ h = <<>> /\ manifest \in Manifests /\ srv \in Servers
    BY DEF Init
  <2>2. ExhaustionInv
    <3>1. worker.at = "idle" /\ primary.at = "idle"
      BY <2>1 DEF Idle
    <3> QED
      BY <2>1, <3>1 DEF ExhaustionInv, CutInv, IsList, NoVerdictAfterExhaustion
  <2>3. ThreadsInv
    BY <2>1, ThreadMoves DEF ThreadsInv, Idle, Steps
  <2>4. PlaceInv /\ DetailsInv
    BY <2>1 DEF PlaceInv, DetailsInv
  <2> QED
    BY <2>2, <2>3, <2>4 DEF VerdictInv
<1>2. VerdictInv /\ [Next]_vars => VerdictInv'
  BY NextVerdictInv
<1>3. VerdictInv => VerdictMeansContract
  BY VerdictInvMeans
<1> QED
  BY <1>1, <1>2, <1>3, PTL DEF Spec
=============================================================================
