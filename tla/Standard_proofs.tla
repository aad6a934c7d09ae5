-------------------------- MODULE Standard_proofs ---------------------------
(***************************************************************************)
(* Proofs about the standard battery, its score, and probe and score as    *)
(* commands.                                                               *)
(***************************************************************************)
EXTENDS Command, FiniteSetTheorems, SequenceTheorems, WellFoundedInduction, TLAPS

-----------------------------------------------------------------------------
(* The exit code.                                                         *)

\* A run has no exit code before it exits, begins the battery only when it was
\* asked for, and goes without it only when no floor was declared.
RunInv ==
    /\ asked.is = "probe" \/ (asked.is = "score" /\ ~asked.gateOnly)
    /\ phase # "exit" => exit = {} /\ point = FALSE
    /\ phase \in {"declare", "gate", "report"} => pc # "ended"
    /\ phase \in {"gate", "battery", "report"} /\ Declared(asked.floors) => WithBattery
    /\ phase = "battery" => WithBattery
    /\ phase = "report" => ~WithBattery

\* The inductive invariant.
CommandInv == RunInv /\ ExitTellsTheRun

\* Without a floor there is no shortfall.
LEMMA NoFloorNoShortfall ==
    ASSUME NEW floors, NEW readiness, ~Declared(floors)
    PROVE  Shortfalls(floors, readiness) = {}
  <1>1. floors.score = {} /\ floors.areas = <<>>
    BY DEF Declared
  <1>2. DOMAIN floors.areas = {}
    BY <1>1
  <1> QED
    BY <1>1, <1>2 DEF Shortfalls

\* A run that goes on has said nothing.
LEMMA NoExitTells ==
    ASSUME exit' = {}, point' = FALSE
    PROVE  ExitTellsTheRun'
  BY DEF ExitTellsTheRun

\* A run that exits before its report claims nothing.
LEMMA EarlyExitTells ==
    ASSUME NEW code \in {Usage, Infrastructure}, exit' = {code}, point' = FALSE
    PROVE  ExitTellsTheRun'
  <1>1. exit' # {Success} /\ exit' # {Verdict}
    BY DEF Usage, Infrastructure, Success, Verdict
  <1> QED
    BY <1>1 DEF ExitTellsTheRun

\* What the report says of the run.
LEMMA ReportTells ==
    ASSUME CommandInv, ReportRun
    PROVE  ExitTellsTheRun'
  <1>1. /\ exit' = {ExitForReport}
        /\ UNCHANGED <<vars, asked, cases>>
        /\ point' => asked.is = "probe" /\ Full /\ ~Errored /\ Measured
        /\ phase = "report" \/ (phase = "battery" /\ pc \in {"ended", "failed"})
    BY DEF ReportRun, Exit
  <1>2. pc' = pc /\ obs' = obs /\ cases' = cases /\ asked' = asked
    BY <1>1 DEF vars
  <1>3. ~Errored => "errored" \notin cases /\ (WithBattery => pc = "ended")
    BY <1>1 DEF Errored, CommandInv, RunInv
  <1>4. Declared(asked.floors) => WithBattery
    BY <1>1 DEF CommandInv, RunInv
  <1>5. pc = "ended" => WithBattery
    BY <1>1 DEF CommandInv, RunInv
  <1>6. pc = "ended" /\ Shortfalls(asked.floors, Fold(obs)) # {} <=> BelowFloor
    BY <1>4, <1>5, NoFloorNoShortfall DEF BelowFloor, Measured
  <1>7. /\ exit' = {Success} => ~Errored /\ ~Failed /\ ~BelowFloor
        /\ exit' = {Verdict} => ~Errored /\ (Failed \/ BelowFloor)
        /\ ~Errored => exit' \in {{Success}, {Verdict}}
    BY <1>1 DEF ExitForReport, Success, Verdict, Infrastructure
  <1>8. WithBattery' = WithBattery
    BY <1>2 DEF WithBattery, Full
  <1>9. PICK short : short = Shortfalls(asked.floors, Fold(obs))
    OBVIOUS
  <1>10. Shortfalls(asked.floors, Fold(obs))' = short
    BY <1>2, <1>9
  <1> QED
    BY <1>1, <1>2, <1>3, <1>4, <1>6, <1>7, <1>8, <1>9, <1>10
       DEF ExitTellsTheRun, Failed, Measured

\* Every step keeps the inductive invariant.
LEMMA NextCommandInv == CommandInv /\ [CommandNext]_<<vars, commandVars>> => CommandInv'
  <1> SUFFICES ASSUME CommandInv, [CommandNext]_<<vars, commandVars>> PROVE CommandInv'
    OBVIOUS
  <1>1. CASE Declare
    <2>1. UNCHANGED <<pc, obs, asked, cases, point>> /\ phase = "declare" /\ exit = {} /\ point = FALSE
      BY <1>1 DEF Declare, vars, CommandInv, RunInv
    <2>2. (Declared(asked.floors) <=> Declared(asked.floors)') /\ (WithBattery <=> WithBattery')
      BY <2>1 DEF Declared, WithBattery, Full
    <2>3. CASE Comparable
      <3>1. phase' = (IF asked.is = "probe" THEN "gate" ELSE "battery") /\ exit' = exit
        BY <1>1, <2>3 DEF Declare
      <3>2. Declared(asked.floors) => WithBattery
        BY <2>3 DEF Comparable
      <3>3. asked.is # "probe" => WithBattery
        BY DEF CommandInv, RunInv, WithBattery, Full
      <3>4. RunInv'
        BY <2>1, <2>2, <3>1, <3>2, <3>3 DEF CommandInv, RunInv
      <3> QED
        BY <2>1, <3>1, <3>4, NoExitTells DEF CommandInv
    <2>4. CASE ~Comparable
      <3>1. exit' = {Usage} /\ phase' = "exit"
        BY <1>1, <2>4 DEF Declare, Exit
      <3>2. ExitTellsTheRun'
        BY <2>1, <3>1, EarlyExitTells
      <3> QED
        BY <2>1, <3>1, <3>2 DEF CommandInv, RunInv
    <2> QED
      BY <2>3, <2>4
  <1>2. CASE DeclareFails \/ Misused
    <2>1. UNCHANGED <<pc, obs, asked, cases, point>> /\ point = FALSE
      BY <1>2 DEF DeclareFails, Misused, vars, CommandInv, RunInv
    <2>2. phase' = "exit" /\ \E code \in {Usage, Infrastructure} : exit' = {code}
      BY <1>2 DEF DeclareFails, Misused, Exit
    <2>3. ExitTellsTheRun'
      BY <2>1, <2>2, EarlyExitTells
    <2> QED
      BY <2>1, <2>2, <2>3 DEF CommandInv, RunInv
  <1>3. CASE Gate
    <2>1. UNCHANGED <<pc, obs, asked, point>> /\ phase = "gate" /\ exit = {} /\ point = FALSE
      BY <1>3 DEF Gate, vars, CommandInv, RunInv
    <2>2. (Declared(asked.floors) <=> Declared(asked.floors)') /\ (WithBattery <=> WithBattery')
      BY <2>1 DEF Declared, WithBattery, Full
    <2>3. CASE phase' = (IF WithBattery THEN "battery" ELSE "report") /\ exit' = exit
      <3>1. RunInv'
        BY <2>1, <2>2, <2>3 DEF CommandInv, RunInv
      <3> QED
        BY <2>1, <2>3, <3>1, NoExitTells DEF CommandInv
    <2>4. CASE \E code \in {Usage, Infrastructure} : Exit(code)
      <3>1. phase' = "exit" /\ \E code \in {Usage, Infrastructure} : exit' = {code}
        BY <2>4 DEF Exit
      <3>2. ExitTellsTheRun'
        BY <2>1, <3>1, EarlyExitTells
      <3> QED
        BY <2>1, <3>1, <3>2 DEF CommandInv, RunInv
    <2> QED
      BY <1>3, <2>3, <2>4 DEF Gate
  <1>4. CASE Battery
    <2>1. UNCHANGED <<asked, phase, cases, exit, point>> /\ phase = "battery"
      BY <1>4 DEF Battery, commandVars
    <2>2. exit' = {} /\ point' = FALSE
      BY <2>1 DEF CommandInv, RunInv
    <2>3. (Declared(asked.floors) <=> Declared(asked.floors)') /\ (WithBattery <=> WithBattery')
      BY <2>1 DEF Declared, WithBattery, Full
    <2>4. RunInv'
      BY <2>1, <2>2, <2>3 DEF CommandInv, RunInv
    <2> QED
      BY <2>2, <2>4, NoExitTells DEF CommandInv
  <1>5. CASE ReportRun
    <2>1. ExitTellsTheRun' /\ phase' = "exit" /\ asked' = asked
      BY <1>5, ReportTells DEF ReportRun, Exit
    <2> QED
      BY <2>1 DEF CommandInv, RunInv
  <1>6. CASE UNCHANGED <<vars, commandVars>>
    BY <1>6 DEF vars, commandVars, CommandInv, RunInv, ExitTellsTheRun, WithBattery, Full, Declared
  <1> QED
    BY <1>1, <1>2, <1>3, <1>4, <1>5, <1>6 DEF CommandNext

\* Whatever the server, the manifest, the options and the floors: 0 is only the
\* exit of a run whose cases passed and whose floors were met, 1 of a complete
\* one that fell short, and a trend point is of a complete one.
THEOREM ExitIsTruthful == CommandSpec => []ExitTellsTheRun
  <1>1. CommandInit => CommandInv
    <2> SUFFICES ASSUME CommandInit PROVE CommandInv
      OBVIOUS
    <2>1. /\ phase = "declare" /\ exit = {} /\ point = FALSE /\ pc = "connect"
          /\ surface \in Surfaces /\ asked \in CommandsOn(surface)
      BY DEF CommandInit, Init
    <2>2. asked.is = "probe" \/ (asked.is = "score" /\ ~asked.gateOnly)
      BY <2>1, CommandAssumption
    <2>3. RunInv
      BY <2>1, <2>2 DEF RunInv
    <2>4. ExitTellsTheRun
      BY <2>1 DEF ExitTellsTheRun
    <2> QED
      BY <2>3, <2>4 DEF CommandInv
  <1>2. CommandInv => ExitTellsTheRun
    BY DEF CommandInv
  <1> QED
    BY <1>1, <1>2, NextCommandInv, PTL DEF CommandSpec
-----------------------------------------------------------------------------
(* Induction.                                                              *)

\* A set that holds 0 and the successor of what it holds holds every number.
LEMMA InductionOnNat ==
  ASSUME NEW S, 0 \in S, \A n \in Nat : n \in S => n + 1 \in S
  PROVE  \A n \in Nat : n \in S
<1> DEFINE T == Nat \ S
<1> SUFFICES ASSUME T # {} PROVE FALSE
  OBVIOUS
<1>1. IsWellFoundedOn(OpToRel(<, Nat), Nat)
  BY NatLessThanWellFounded, Zenon
<1>2. PICK x \in T : \A y \in T : ~(<<y, x>> \in OpToRel(<, Nat))
  <2> HIDE DEF T
  <2>1. T \subseteq Nat
    BY DEF T
  <2> QED
    BY <1>1, <2>1, WFMin, Zenon
<1>3. x \in Nat /\ x # 0
  BY <1>2
<1>4. x - 1 \in Nat /\ x - 1 < x /\ (x - 1) + 1 = x
  BY <1>3
<1>5. x - 1 \notin T
  BY <1>2, <1>3, <1>4 DEF OpToRel
<1> QED
  BY <1>2, <1>4, <1>5

-----------------------------------------------------------------------------
(* Sums over finite sets.                                                  *)

\* What a sum adds next.
Next1(s) == CHOOSE x \in s : TRUE

\* g sums f over every member of W.
Sums(g, f, W) ==
    g = [s \in W |-> IF s = {} THEN 0 ELSE f[Next1(s)] + g[s \ {Next1(s)}]]

\* The subsets of S with at most n members.
UpTo(S, n) == {s \in SUBSET S : Cardinality(s) <= n}

\* What is left of a finite set without its next element has one less.
LEMMA Smaller ==
  ASSUME NEW S, IsFiniteSet(S), NEW s \in SUBSET S, s # {}
  PROVE  /\ Next1(s) \in s /\ IsFiniteSet(s) /\ IsFiniteSet(s \ {Next1(s)})
         /\ Cardinality(s) \in Nat \ {0}
         /\ Cardinality(s \ {Next1(s)}) = Cardinality(s) - 1
<1>1. Next1(s) \in s
  BY DEF Next1
<1>2. IsFiniteSet(s) /\ IsFiniteSet(s \ {Next1(s)})
  BY FS_Subset
<1>3. Cardinality(s) \in Nat /\ Cardinality(s) # 0
  BY <1>2, FS_CardinalityType, FS_EmptySet
<1> QED
  BY <1>1, <1>2, <1>3, FS_RemoveElement

\* The recursion of a sum has a solution on the small subsets of a finite set.
LEMMA SumsExist ==
  ASSUME NEW f, NEW S, IsFiniteSet(S), NEW n \in Nat
  PROVE  \E g : Sums(g, f, UpTo(S, n))
<1> DEFINE Good == {m \in Nat : \E g : Sums(g, f, UpTo(S, m))}
<1>1. 0 \in Good
  <2>1. UpTo(S, 0) = {{}}
    <3>1. ASSUME NEW s \in SUBSET S, s # {} PROVE ~(Cardinality(s) <= 0)
      <4>1. Cardinality(s) \in Nat \ {0}
        BY <3>1, Smaller
      <4> QED
        BY <4>1
    <3>2. Cardinality({}) = 0
      BY FS_EmptySet
    <3> QED
      BY <3>1, <3>2 DEF UpTo
  <2>2. Sums([s \in {{}} |-> 0], f, {{}})
    BY DEF Sums
  <2> QED
    BY <2>1, <2>2
<1>2. ASSUME NEW m \in Nat, m \in Good PROVE m + 1 \in Good
  <2>1. PICK g : Sums(g, f, UpTo(S, m))
    BY <1>2
  <2> DEFINE V(s) == IF s = {} THEN 0 ELSE f[Next1(s)] + g[s \ {Next1(s)}]
             h == [s \in UpTo(S, m + 1) |-> V(s)]
  <2>2. ASSUME NEW s \in UpTo(S, m + 1), s # {} PROVE s \ {Next1(s)} \in UpTo(S, m)
    <3>1. s \in SUBSET S /\ Cardinality(s) <= m + 1
      BY DEF UpTo
    <3>2. Cardinality(s) \in Nat \ {0} /\ Cardinality(s \ {Next1(s)}) = Cardinality(s) - 1
      BY <2>2, <3>1, Smaller
    <3>3. Cardinality(s \ {Next1(s)}) <= m
      BY <3>1, <3>2
    <3> QED
      BY <3>1, <3>3 DEF UpTo
  <2>3. \A s \in UpTo(S, m) : s \in UpTo(S, m + 1) /\ g[s] = V(s)
    <3>1. ASSUME NEW s \in UpTo(S, m) PROVE s \in UpTo(S, m + 1)
      <4>1. IsFiniteSet(s) /\ Cardinality(s) \in Nat /\ Cardinality(s) <= m
        BY FS_Subset, FS_CardinalityType DEF UpTo
      <4> QED
        BY <4>1 DEF UpTo
    <3>2. \A s \in UpTo(S, m) : g[s] = V(s)
      BY <2>1 DEF Sums
    <3> QED
      BY <3>1, <3>2
  <2>4. \A s \in UpTo(S, m) : h[s] = g[s]
    BY <2>3
  <2>5. \A s \in UpTo(S, m + 1) :
           h[s] = IF s = {} THEN 0 ELSE f[Next1(s)] + h[s \ {Next1(s)}]
    <3> SUFFICES ASSUME NEW s \in UpTo(S, m + 1)
                 PROVE  h[s] = IF s = {} THEN 0 ELSE f[Next1(s)] + h[s \ {Next1(s)}]
      OBVIOUS
    <3>1. h[s] = V(s)
      OBVIOUS
    <3>2. s # {} => h[s \ {Next1(s)}] = g[s \ {Next1(s)}]
      BY <2>2, <2>4
    <3> HIDE DEF h
    <3> QED
      BY <3>1, <3>2
  <2>6. h = [s \in UpTo(S, m + 1) |-> h[s]]
    OBVIOUS
  <2>7. Sums(h, f, UpTo(S, m + 1))
    <3> HIDE DEF h
    <3>1. [s \in UpTo(S, m + 1) |-> h[s]]
          = [s \in UpTo(S, m + 1) |-> IF s = {} THEN 0 ELSE f[Next1(s)] + h[s \ {Next1(s)}]]
      BY <2>5, Zenon
    <3> QED
      BY <2>6, <3>1, Zenon DEF Sums
  <2> HIDE DEF h
  <2> QED
    BY <1>2, <2>7
<1> HIDE DEF Good
<1>3. n \in Good
  BY <1>1, <1>2, InductionOnNat
<1> QED
  BY <1>3 DEF Good

\* A sum, element by element.
LEMMA SumSteps ==
  ASSUME NEW f, IsFiniteSet(DOMAIN f)
  PROVE  \E g : /\ SumFunction(f) = g[DOMAIN f]
                /\ g[{}] = 0
                /\ \A s \in SUBSET DOMAIN f :
                      s # {} => g[s] = f[Next1(s)] + g[s \ {Next1(s)}]
<1> DEFINE D == DOMAIN f
           F(g) == g = [s \in SUBSET D |->
                          IF s = {} THEN 0 ELSE f[Next1(s)] + g[s \ {Next1(s)}]]
           iter == CHOOSE g : F(g)
<1>1. SumFunction(f) = iter[D]
  BY DEF SumFunction, SumFunctionOnSet, FoldFunctionOnSet, MapThenFoldSet, Next1
<1>2. Cardinality(D) \in Nat
  BY FS_CardinalityType
<1>3. UpTo(D, Cardinality(D)) = SUBSET D
  BY <1>2, FS_Subset DEF UpTo
<1>4. \E g : F(g)
  <2>1. PICK g : Sums(g, f, UpTo(D, Cardinality(D)))
    BY <1>2, SumsExist
  <2>2. F(g)
    BY <1>3, <2>1, Zenon DEF Sums
  <2> QED
    BY <2>2, Zenon
<1>5. F(iter)
  BY <1>4
<1> HIDE DEF iter
<1>6. iter[{}] = 0 /\ \A s \in SUBSET D : s # {} => iter[s] = f[Next1(s)] + iter[s \ {Next1(s)}]
  BY <1>5
<1> QED
  BY <1>1, <1>6

\* A sum of larger numbers is larger.
LEMMA SumGrows ==
  ASSUME NEW f, NEW g, IsFiniteSet(DOMAIN f), DOMAIN g = DOMAIN f,
         \A x \in DOMAIN f : f[x] \in Int /\ g[x] \in Int /\ f[x] <= g[x]
  PROVE  SumFunction(f) \in Int /\ SumFunction(g) \in Int /\ SumFunction(f) <= SumFunction(g)
<1> DEFINE D == DOMAIN f
<1>1. PICK a : /\ SumFunction(f) = a[D] /\ a[{}] = 0
               /\ \A s \in SUBSET D : s # {} => a[s] = f[Next1(s)] + a[s \ {Next1(s)}]
  BY SumSteps
<1>2. PICK b : /\ SumFunction(g) = b[D] /\ b[{}] = 0
               /\ \A s \in SUBSET D : s # {} => b[s] = g[Next1(s)] + b[s \ {Next1(s)}]
  <2>1. IsFiniteSet(DOMAIN g)
    OBVIOUS
  <2>2. PICK b : /\ SumFunction(g) = b[DOMAIN g] /\ b[{}] = 0
                 /\ \A s \in SUBSET DOMAIN g : s # {} => b[s] = g[Next1(s)] + b[s \ {Next1(s)}]
    BY <2>1, SumSteps
  <2> QED
    BY <2>2
<1> DEFINE Ok(s) == a[s] \in Int /\ b[s] \in Int /\ a[s] <= b[s]
           Good == {n \in Nat : \A s \in SUBSET D : Cardinality(s) <= n => Ok(s)}
<1>3. Ok({})
  BY <1>1, <1>2
<1>4. 0 \in Good
  <2> SUFFICES ASSUME NEW s \in SUBSET D, Cardinality(s) <= 0 PROVE Ok(s)
    OBVIOUS
  <2>1. s # {} => Cardinality(s) \in Nat \ {0}
    BY Smaller
  <2>2. s = {}
    BY <2>1
  <2> QED
    BY <1>3, <2>2
<1>5. ASSUME NEW n \in Nat, n \in Good PROVE n + 1 \in Good
  <2> SUFFICES ASSUME NEW s \in SUBSET D, Cardinality(s) <= n + 1 PROVE Ok(s)
    OBVIOUS
  <2>1. CASE s = {}
    BY <1>3, <2>1
  <2>2. CASE s # {}
    <3> DEFINE x == Next1(s)
               t == s \ {x}
    <3>1. /\ x \in D /\ t \in SUBSET D /\ Cardinality(s) \in Nat
          /\ Cardinality(t) = Cardinality(s) - 1
      BY <2>2, Smaller
    <3>2. Cardinality(t) <= n
      BY <3>1
    <3>3. Ok(t)
      BY <1>5, <3>1, <3>2
    <3>4. a[s] = f[x] + a[t] /\ b[s] = g[x] + b[t]
      BY <1>1, <1>2, <2>2
    <3>5. f[x] \in Int /\ g[x] \in Int /\ f[x] <= g[x]
      BY <3>1
    <3> HIDE DEF x, t
    <3> QED
      BY <3>3, <3>4, <3>5
  <2> QED
    BY <2>1, <2>2
<1>6. Cardinality(D) \in Nat
  BY FS_CardinalityType
<1> HIDE DEF Good, Ok
<1>7. Cardinality(D) \in Good
  BY <1>4, <1>5, <1>6, InductionOnNat
<1>8. Ok(D)
  BY <1>6, <1>7 DEF Good
<1> QED
  BY <1>1, <1>2, <1>8 DEF Ok

\* A sum of zeros is zero.
LEMMA SumOfZeros ==
  ASSUME NEW S, IsFiniteSet(S)
  PROVE  SumFunction([x \in S |-> 0]) = 0
<1> DEFINE f == [x \in S |-> 0]
<1>1. PICK a : /\ SumFunction(f) = a[S] /\ a[{}] = 0
               /\ \A s \in SUBSET S : s # {} => a[s] = f[Next1(s)] + a[s \ {Next1(s)}]
  <2>1. DOMAIN f = S
    OBVIOUS
  <2> HIDE DEF f
  <2> QED
    BY <2>1, SumSteps
<1>2. \A x \in S : f[x] = 0
  OBVIOUS
<1> HIDE DEF f
<1> DEFINE Good == {n \in Nat : \A s \in SUBSET S : Cardinality(s) <= n => a[s] = 0}
<1>4. 0 \in Good
  <2> SUFFICES ASSUME NEW s \in SUBSET S, Cardinality(s) <= 0 PROVE a[s] = 0
    OBVIOUS
  <2>1. s # {} => Cardinality(s) \in Nat \ {0}
    BY Smaller
  <2>2. s = {}
    BY <2>1
  <2> QED
    BY <1>1, <2>2
<1>5. ASSUME NEW n \in Nat, n \in Good PROVE n + 1 \in Good
  <2> SUFFICES ASSUME NEW s \in SUBSET S, Cardinality(s) <= n + 1 PROVE a[s] = 0
    OBVIOUS
  <2>1. CASE s = {}
    BY <1>1, <2>1
  <2>2. CASE s # {}
    <3> DEFINE x == Next1(s)
               t == s \ {x}
    <3>1. /\ x \in S /\ t \in SUBSET S /\ Cardinality(s) \in Nat
          /\ Cardinality(t) = Cardinality(s) - 1
      BY <2>2, Smaller
    <3>2. Cardinality(t) <= n
      BY <3>1
    <3>3. a[t] = 0
      BY <1>5, <3>1, <3>2
    <3>4. a[s] = f[x] + a[t]
      BY <1>1, <2>2
    <3>5. f[x] = 0
      BY <1>2, <3>1
    <3> HIDE DEF x, t
    <3> QED
      BY <3>3, <3>4, <3>5
  <2> QED
    BY <2>1, <2>2
<1>6. Cardinality(S) \in Nat
  BY FS_CardinalityType
<1> HIDE DEF Good
<1>7. Cardinality(S) \in Good
  BY <1>4, <1>5, <1>6, InductionOnNat
<1>8. a[S] = 0
  BY <1>6, <1>7 DEF Good
<1> QED
  BY <1>1, <1>8 DEF f

\* A sum of numbers that are not negative is not negative.
LEMMA SumNotNegative ==
  ASSUME NEW f, IsFiniteSet(DOMAIN f), \A x \in DOMAIN f : f[x] \in Int /\ 0 <= f[x]
  PROVE  SumFunction(f) \in Nat
<1> DEFINE z == [x \in DOMAIN f |-> 0]
<1>1. DOMAIN z = DOMAIN f /\ \A x \in DOMAIN f : z[x] = 0
  OBVIOUS
<1>2. SumFunction(z) = 0
  BY SumOfZeros
<1> HIDE DEF z
<1>3. SumFunction(z) <= SumFunction(f) /\ SumFunction(f) \in Int
  BY <1>1, SumGrows
<1> QED
  BY <1>2, <1>3

-----------------------------------------------------------------------------
(* Rounding.                                                               *)

\* Division keeps the order of its dividends.
LEMMA QuotientGrows ==
  ASSUME NEW a \in Int, NEW b \in Int, NEW d \in Int, d > 0, a <= b
  PROVE  a \div d \in Int /\ b \div d \in Int /\ a \div d <= b \div d
  OBVIOUS

\* A rounded share of more is not less.
LEMMA RoundGrows ==
  ASSUME NEW a \in Int, NEW b \in Int, NEW d \in Int, d > 0, a <= b
  PROVE  Round(a, d) \in Int /\ Round(b, d) \in Int /\ Round(a, d) <= Round(b, d)
<1>1. 2 * a + d \in Int /\ 2 * b + d \in Int /\ 2 * d \in Int /\ 2 * d > 0 /\ 2 * a + d <= 2 * b + d
  OBVIOUS
<1> QED
  BY <1>1, QuotientGrows DEF Round

\* The same share of more is less.
LEMMA RoundShrinks ==
  ASSUME NEW a \in Nat, NEW d \in Int, NEW e \in Int, d > 0, d <= e
  PROVE  Round(a, e) \in Int /\ Round(a, d) \in Int /\ Round(a, e) <= Round(a, d)
<1> DEFINE q == (2 * a + e) \div (2 * e)
           p == (2 * a + d) \div (2 * d)
<1>1. e > 0 /\ 2 * e > 0 /\ 2 * d > 0 /\ 2 * a + e \in Int /\ 2 * a + d \in Int /\ 2 * e \in Int /\ 2 * d \in Int
  OBVIOUS
<1>2. /\ q \in Int /\ p \in Int
      /\ (2 * e) * q <= 2 * a + e /\ 2 * a + d < (2 * d) * (p + 1)
  BY <1>1
<1>3. p >= 0
  BY <1>1
<1> HIDE DEF p, q
<1>4. CASE q <= 0
  BY <1>2, <1>3, <1>4 DEF Round, p, q
<1>5. CASE q > 0
  <2>1. SUFFICES ASSUME p < q PROVE FALSE
    BY <1>2 DEF Round, p, q
  <2>2. (2 * q - 1) \in Nat /\ e - d \in Nat
    BY <1>2, <1>5
  <2>3. (e - d) * (2 * q - 1) >= 0
    BY <2>2
  <2>4. e * (2 * q - 1) <= 2 * a
    BY <1>2
  <2>5. d * (2 * q - 1) <= 2 * a
    BY <1>2, <2>3, <2>4
  <2>6. (2 * d) * q <= 2 * a + d
    BY <1>2, <2>5
  <2>7. (q - (p + 1)) \in Nat
    BY <1>2, <2>1
  <2>8. (2 * d) * (q - (p + 1)) >= 0
    BY <1>1, <2>7
  <2> QED
    BY <1>2, <2>6, <2>8
<1> QED
  BY <1>2, <1>4, <1>5

-----------------------------------------------------------------------------
(* What is observed.                                                       *)

\* What is collected is a list.
IsList(s) == s \in Seq({s[k] : k \in DOMAIN s})

\* Tools that do not write, and may be called, refuse when their schema does.
Judged(i) == Callable(Tools[i]) /\ Tools[i].refusable

\* What is known of a tool: what its catalog entry says, how its calls went,
\* and how it refuses when it was to be judged.
IsExercise(e) ==
    e = [is |-> e.is, reason |-> e.reason, consistent |-> e.consistent,
         latency |-> e.latency, schema |-> e.schema]
Observed(i, o) ==
    /\ o = Observation(Tools[i], o.exercise, o.honesty, o.successes)
    /\ IsExercise(o.exercise)
    /\ o.honesty # "none" <=> Judged(i)
    /\ o.successes \in Nat

AtTools == {"tool", "refusal", "ping", "exercise"}
CheckNames == {"unknown-method", "protocol-ping", "unknown-tool", "pagination",
               "surfaces", "negotiation", "finish"}
AfterTools == {"contention", "payload", "ended"} \cup CheckNames

\* The inductive invariant of the battery.
ObservedInv ==
    /\ surface \in Surfaces
    /\ IsList(outs) /\ IsList(obs.tools) /\ IsList(obs.protocol)
    /\ obs = [tools |-> obs.tools, contention |-> obs.contention,
              payload |-> obs.payload, protocol |-> obs.protocol]
    /\ \A i \in 1 .. Len(obs.tools) : Observed(i, obs.tools[i])
    /\ pc = "connect" => tool = 1 /\ obs.tools = <<>>
    /\ pc \in AtTools => tool \in 1 .. Len(Tools) /\ Len(obs.tools) = tool - 1
    /\ pc = "refusal" => Judged(tool)
    /\ pc = "ping" => Judged(tool) /\ honesty # "none"
    /\ pc = "exercise" => (honesty # "none" <=> Judged(tool))
    /\ pc \in AfterTools => Len(obs.tools) = Len(Tools)

\* A list has a length, and is a list with one more at its end.
LEMMA Listed ==
  ASSUME NEW s, IsList(s), NEW x
  PROVE  /\ Len(s) \in Nat /\ DOMAIN s = 1 .. Len(s)
         /\ IsList(Append(s, x)) /\ Len(Append(s, x)) = Len(s) + 1
         /\ Append(s, x)[Len(s) + 1] = x
         /\ \A k \in 1 .. Len(s) : Append(s, x)[k] = s[k]
<1> DEFINE S == {s[k] : k \in DOMAIN s} \cup {x}
           t == Append(s, x)
<1>1. s \in Seq(S) /\ x \in S
  <2>1. s \in Seq({s[k] : k \in DOMAIN s})
    BY DEF IsList
  <2> QED
    BY <2>1
<1>2. /\ t \in Seq(S) /\ Len(t) = Len(s) + 1 /\ t[Len(s) + 1] = x
      /\ \A k \in 1 .. Len(s) : t[k] = s[k]
  <2> HIDE DEF S
  <2> QED
    BY <1>1, AppendProperties
<1>3. Len(s) \in Nat /\ DOMAIN s = 1 .. Len(s)
  BY <1>1, LenProperties
<1> HIDE DEF S, t
<1>4. t \in Seq({t[k] : k \in DOMAIN t})
  <2> DEFINE T == {t[k] : k \in DOMAIN t}
  <2>1. DOMAIN t = 1 .. Len(t) /\ Len(t) \in Nat
    BY <1>2
  <2>2. \A k \in 1 .. Len(t) : t[k] \in T
    BY <2>1
  <2> HIDE DEF T
  <2> QED
    BY <1>2, <2>1, <2>2
<1> QED
  BY <1>2, <1>3, <1>4 DEF IsList, t

\* A tool is observed as soon as it is left.
LEMMA ObserveKeeps ==
  ASSUME ObservedInv, pc = "exercise", NEW exercise, IsExercise(exercise),
         NEW calls, IsList(calls), Observe(exercise, calls)
  PROVE  ObservedInv'
<1>1. PICK n \in Nat :
         n = Cardinality({k \in DOMAIN calls : calls[k] \in {"success", "off-schema"}})
  <2>1. DOMAIN calls = 1 .. Len(calls) /\ Len(calls) \in Nat
    BY Listed
  <2>2. IsFiniteSet(DOMAIN calls)
    BY <2>1, FS_Interval
  <2>3. IsFiniteSet({k \in DOMAIN calls : calls[k] \in {"success", "off-schema"}})
    BY <2>2, FS_Subset
  <2> QED
    BY <2>3, FS_CardinalityType
<1>2. PICK o : o = Observation(Tool, exercise, honesty, n)
  OBVIOUS
<1>3. /\ obs' = [obs EXCEPT !.tools = Append(@, o)]
      /\ tool' = tool + 1
      /\ pc' = IF tool = Len(Tools) THEN "contention" ELSE "tool"
      /\ outs' = <<>> /\ surface' = surface
  BY <1>1, <1>2 DEF Observe
<1>4. /\ obs'.tools = Append(obs.tools, o) /\ obs'.protocol = obs.protocol
      /\ obs' = [tools |-> obs'.tools, contention |-> obs'.contention,
                 payload |-> obs'.payload, protocol |-> obs'.protocol]
  BY <1>3 DEF ObservedInv
<1>5. /\ tool \in 1 .. Len(Tools) /\ Len(obs.tools) = tool - 1
      /\ Len(obs.tools) \in Nat /\ IsList(obs'.tools) /\ Len(obs'.tools) = tool
      /\ obs'.tools[tool] = o
      /\ \A k \in 1 .. tool - 1 : obs'.tools[k] = obs.tools[k]
  <2>1. tool \in 1 .. Len(Tools) /\ Len(obs.tools) = tool - 1 /\ IsList(obs.tools)
    BY DEF ObservedInv, AtTools
  <2> QED
    BY <1>4, <2>1, Listed
<1>6. Observed(tool, o)
  BY <1>2 DEF ObservedInv, Observed, Observation, Tool
<1>7. \A i : Judged(i)' <=> Judged(i)
  BY <1>3 DEF Judged, Callable, Class, Tools
<1>8. ASSUME NEW i, NEW x, Observed(i, x) PROVE Observed(i, x)'
  BY <1>3, <1>7, <1>8 DEF Observed, Callable, Class, Observation, Tools, IsExercise
<1>14. \A i \in 1 .. Len(obs'.tools) : Observed(i, obs'.tools[i])
  <2> SUFFICES ASSUME NEW i \in 1 .. tool PROVE Observed(i, obs'.tools[i])
    BY <1>5
  <2>1. CASE i = tool
    BY <1>5, <1>6, <2>1
  <2>2. CASE i # tool
    <3>1. i \in 1 .. Len(obs.tools) /\ i \in 1 .. tool - 1
      BY <1>5, <2>2
    <3> QED
      BY <1>5, <3>1 DEF ObservedInv
  <2> QED
    BY <2>1, <2>2
<1>9. IsList(<<>>)
  BY DEF IsList
<1>10. Tools' = Tools
  BY <1>3 DEF Tools
<1>11. pc' = "contention" \/ (pc' = "tool" /\ tool' \in 1 .. Len(Tools))
  BY <1>3, <1>5
<1>12. pc' = "contention" => Len(obs'.tools) = Len(Tools)
  BY <1>3, <1>5
<1>13. Len(obs'.tools) = tool' - 1
  BY <1>3, <1>5
<1>15. \A i \in 1 .. Len(obs'.tools) : Observed(i, obs.tools[i])'
  <2> SUFFICES ASSUME NEW i \in 1 .. Len(obs'.tools) PROVE Observed(i, obs.tools[i])'
    OBVIOUS
  <2>1. PICK x : x = obs'.tools[i]
    OBVIOUS
  <2>2. Observed(i, x)'
    BY <1>8, <1>14, <2>1
  <2> QED
    BY <2>1, <2>2 DEF Observed
<1>16. surface' \in Surfaces /\ IsList(outs') /\ IsList(obs'.tools) /\ IsList(obs'.protocol)
  BY <1>3, <1>4, <1>5, <1>9 DEF ObservedInv
<1>17. pc' \in {"tool", "contention"}
  BY <1>11
<1> QED
  BY <1>4, <1>10, <1>11, <1>12, <1>13, <1>15, <1>16, <1>17
     DEF ObservedInv, AtTools, AfterTools, CheckNames, IsList

\* A step that leaves the observations of tools alone.
LEMMA StageKeeps ==
  ASSUME ObservedInv, surface' = surface, obs' = obs, tool' = tool, IsList(outs)',
         pc' \in AtTools => tool \in 1 .. Len(Tools) /\ Len(obs.tools) = tool - 1,
         pc' # "connect",
         pc' = "refusal" => Judged(tool),
         pc' = "ping" => Judged(tool) /\ honesty' # "none",
         pc' = "exercise" => (honesty' # "none" <=> Judged(tool)),
         pc' \in AfterTools => Len(obs.tools) = Len(Tools)
  PROVE  ObservedInv'
<1>1. Tools' = Tools /\ \A i : Judged(i)' <=> Judged(i)
  BY DEF Judged, Callable, Class, Tools
<1>2. ASSUME NEW i \in 1 .. Len(obs.tools) PROVE Observed(i, obs.tools[i])'
  <2>1. Observed(i, obs.tools[i])
    BY DEF ObservedInv
  <2> QED
    BY <1>1, <2>1 DEF Observed, Callable, Class, Observation, Tools, IsExercise
<1>3. Judged(tool)' <=> Judged(tool)
  BY <1>1
<1> QED
  BY <1>1, <1>2, <1>3 DEF ObservedInv, AtTools, AfterTools, CheckNames, IsList

\* A protocol check is followed by another, or by the end of them.
LEMMA CheckFollows ==
  ASSUME pc \in Range(Checks) \ {"finish"}
  PROVE  NextCheck \in CheckNames /\ pc \in CheckNames
<1>1. Len(Checks) = 7 /\ DOMAIN Checks = 1 .. 7
  BY DEF Checks
<1>2. /\ Checks[1] = "unknown-method" /\ Checks[2] = "protocol-ping"
      /\ Checks[3] = "unknown-tool" /\ Checks[4] = "pagination"
      /\ Checks[5] = "surfaces" /\ Checks[6] = "negotiation" /\ Checks[7] = "finish"
  BY DEF Checks
<1>3. PICK j \in 1 .. 7 : Checks[j] = pc
  BY <1>1 DEF Range
<1>4. j + 1 \in 2 .. Len(Checks) /\ Checks[(j + 1) - 1] = pc
  BY <1>1, <1>2, <1>3
<1>5. PICK k \in 2 .. 7 : k = CHOOSE m \in 2 .. Len(Checks) : Checks[m - 1] = pc
  BY <1>1, <1>4
<1>6. NextCheck = Checks[k]
  BY <1>5 DEF NextCheck
<1>7. \A i \in 1 .. 7 : Checks[i] \in CheckNames
  <2> SUFFICES ASSUME NEW i \in 1 .. 7 PROVE Checks[i] \in CheckNames
    OBVIOUS
  <2>1. i = 1 \/ i = 2 \/ i = 3 \/ i = 4 \/ i = 5 \/ i = 6 \/ i = 7
    OBVIOUS
  <2> QED
    BY <1>2, <2>1 DEF CheckNames
<1> QED
  BY <1>3, <1>6, <1>7

\* A step that leaves the tools and adds to what is known of the whole server.
LEMMA ServerKeeps ==
  ASSUME ObservedInv, surface' = surface, tool' = tool, outs' = outs,
         pc \in AfterTools, pc' \in AfterTools \cup {"failed"},
         obs'.tools = obs.tools, IsList(obs'.protocol),
         obs' = [tools |-> obs'.tools, contention |-> obs'.contention,
                 payload |-> obs'.payload, protocol |-> obs'.protocol]
  PROVE  ObservedInv'
<1>1. Tools' = Tools /\ \A i : Judged(i)' <=> Judged(i)
  BY DEF Judged, Callable, Class, Tools
<1>2. ASSUME NEW i \in 1 .. Len(obs.tools) PROVE Observed(i, obs.tools[i])'
  <2>1. Observed(i, obs.tools[i])
    BY DEF ObservedInv
  <2> QED
    BY <1>1, <2>1 DEF Observed, Callable, Class, Observation, Tools, IsExercise
<1>3. Len(obs.tools) = Len(Tools)
  BY DEF ObservedInv
<1> QED
  BY <1>1, <1>2, <1>3 DEF ObservedInv, AtTools, AfterTools, CheckNames, IsList

\* A battery that has not begun has observed nothing.
LEMMA InitObserved == Init => ObservedInv
<1> SUFFICES ASSUME Init PROVE ObservedInv
  OBVIOUS
<1>1. /\ surface \in Surfaces /\ pc = "connect" /\ tool = 1 /\ outs = <<>>
      /\ obs = [tools |-> <<>>, contention |-> "none", payload |-> "none", protocol |-> <<>>]
  BY DEF Init
<1>2. IsList(<<>>)
  BY DEF IsList
<1> QED
  BY <1>1, <1>2 DEF ObservedInv, AtTools, AfterTools, CheckNames

\* Every step keeps the inductive invariant.
LEMMA NextObserved == ObservedInv /\ [Next]_vars => ObservedInv'
<1> SUFFICES ASSUME ObservedInv, [Next]_vars PROVE ObservedInv'
  OBVIOUS
<1>0. IsList(outs) /\ (UNCHANGED outs => IsList(outs)')
  BY DEF ObservedInv, IsList
<1>1. CASE Exhaust \/ UNCHANGED vars
  <2>1. UNCHANGED <<surface, pc, tool, honesty, outs, obs>>
    BY <1>1 DEF Exhaust, vars
  <2>2. CASE pc = "connect"
    BY <2>1, <2>2 DEF ObservedInv, AtTools, AfterTools, CheckNames, IsList
  <2>3. CASE pc # "connect"
    BY <1>0, <2>1, <2>3, StageKeeps DEF ObservedInv
  <2> QED
    BY <2>2, <2>3
<1>2. CASE Connect
  <2>1. /\ UNCHANGED <<surface, tool, honesty, outs, obs>>
        /\ pc' \in {"failed", "misused", "contention", "tool"}
        /\ pc' = "contention" => Tools = <<>>
        /\ pc' = "tool" => Tools # <<>>
    BY <1>2 DEF Connect
  <2>2. tool = 1 /\ obs.tools = <<>> /\ surface \in Surfaces
    BY <1>2 DEF Connect, ObservedInv
  <2>3. Tools \in Seq({Tools[i] : i \in DOMAIN Tools})
    BY <2>2, StandardAssumption DEF Tools
  <2>4. Len(Tools) \in Nat /\ (Tools = <<>> <=> Len(Tools) = 0)
    BY <2>3, EmptySeq
  <2>5. Len(obs.tools) = 0
    BY <2>2
  <2> QED
    BY <1>0, <2>1, <2>2, <2>4, <2>5, StageKeeps DEF AtTools, AfterTools, CheckNames
<1>3. CASE StartTool
  <2>1. /\ UNCHANGED <<surface, tool, outs, obs>> /\ pc = "tool"
        /\ pc' \in {"failed", "refusal", "exercise"}
        /\ pc' = "refusal" => Judged(tool)
        /\ pc' = "exercise" => ~(Callable(Tool) /\ ~IsSkipped(Tool) /\ Tool.refusable)
        /\ honesty' = IF IsSkipped(Tool) THEN SkippedHonesty(Tool) ELSE "none"
    BY <1>3 DEF StartTool, Judged, Tool
  <2>2. pc' = "exercise" => (honesty' # "none" <=> Judged(tool))
    BY <2>1 DEF IsSkipped, SkippedHonesty, Judged, Tool
  <2>3. tool \in 1 .. Len(Tools) /\ Len(obs.tools) = tool - 1
    BY <2>1 DEF ObservedInv, AtTools
  <2> QED
    BY <1>0, <2>1, <2>2, <2>3, StageKeeps DEF AtTools, AfterTools, CheckNames
<1>4. CASE ProbeRefusal
  <2>1. PICK a \in Answers.refusal \cup {"lost"} :
           /\ honesty' = HonestyOf(a)
           /\ pc' = IF a = "lost" THEN "exercise" ELSE "ping"
    BY <1>4 DEF ProbeRefusal
  <2>2. UNCHANGED <<surface, tool, outs, obs>> /\ pc = "refusal"
    BY <1>4 DEF ProbeRefusal
  <2>3. a # "none"
    BY StandardAssumption DEF ObservedInv, Answers
  <2>4. honesty' # "none"
    BY <2>1, <2>3 DEF HonestyOf
  <2>5. Judged(tool) /\ tool \in 1 .. Len(Tools) /\ Len(obs.tools) = tool - 1
    BY <2>2 DEF ObservedInv, AtTools
  <2> QED
    BY <1>0, <2>1, <2>2, <2>4, <2>5, StageKeeps DEF AtTools, AfterTools, CheckNames
<1>5. CASE Ping
  <2>1. PICK a \in {"pong", "lost"} :
           honesty' = IF a = "lost" THEN HonestyOf(a) ELSE honesty
    BY <1>5 DEF Ping
  <2>2. UNCHANGED <<surface, tool, outs, obs>> /\ pc = "ping" /\ pc' = "exercise"
    BY <1>5 DEF Ping
  <2>3. /\ Judged(tool) /\ tool \in 1 .. Len(Tools) /\ Len(obs.tools) = tool - 1
        /\ honesty # "none"
    BY <2>2 DEF ObservedInv, AtTools
  <2>4. honesty' # "none"
    BY <2>1, <2>3 DEF HonestyOf
  <2> QED
    BY <1>0, <2>2, <2>3, <2>4, StageKeeps DEF AtTools, AfterTools, CheckNames
<1>6. CASE LeaveOut
  <2>1. Observe(NotExercised(WhyNotCalled), <<>>) /\ pc = "exercise"
    BY <1>6 DEF LeaveOut
  <2>2. IsExercise(NotExercised(WhyNotCalled)) /\ IsList(<<>>)
    BY DEF IsExercise, NotExercised, IsList
  <2> QED
    BY <2>1, <2>2, ObserveKeeps
<1>7. CASE Call
  <2>1. PICK a :
          IF a = "lost" THEN Observe(NotExercised("coverage-call-failed"), outs)
          ELSE IF a = "rejected"
            THEN Observe(NotExercised("coverage-rejected-arguments"), outs)
          ELSE IF Len(outs) + 1 < Repeats
            THEN outs' = Append(outs, a)
                 /\ UNCHANGED <<surface, pc, tool, honesty, succeeded, obs, spent>>
          ELSE \E latency \in Latencies :
                 Observe(ExercisedWith(Append(outs, a), latency, Tool), Append(outs, a))
    BY <1>7 DEF Call
  <2>2. pc = "exercise"
    BY <1>7 DEF Call
  <2>3. \A reason : IsExercise(NotExercised(reason))
    BY DEF IsExercise, NotExercised
  <2>4. \A calls, latency, t : IsExercise(ExercisedWith(calls, latency, t))
    BY DEF IsExercise, ExercisedWith
  <2>5. IsList(Append(outs, a))
    BY <1>0, Listed
  <2>6. CASE \E reason : Observe(NotExercised(reason), outs)
    BY <1>0, <2>2, <2>3, <2>6, ObserveKeeps
  <2>7. CASE outs' = Append(outs, a) /\ UNCHANGED <<surface, pc, tool, honesty, succeeded, obs, spent>>
    <3>1. IsList(outs)'
      BY <2>5, <2>7 DEF IsList
    <3> QED
      BY <2>2, <2>7, <3>1, StageKeeps DEF ObservedInv, AtTools, AfterTools, CheckNames
  <2>8. CASE \E latency \in Latencies :
                Observe(ExercisedWith(Append(outs, a), latency, Tool), Append(outs, a))
    BY <2>2, <2>4, <2>5, <2>8, ObserveKeeps
  <2> QED
    BY <2>1, <2>6, <2>7, <2>8
<1>8. CASE ServerCase("contention") \/ ServerCase("payload")
  <2>1. PICK case \in {"contention", "payload"} : ServerCase(case)
    BY <1>8
  <2>2. UNCHANGED <<surface, tool, outs>> /\ pc = case /\ pc' = After(case)
    BY <2>1 DEF ServerCase
  <2>3. pc \in AfterTools /\ pc' \in AfterTools
    BY <2>2 DEF AfterTools, After, CheckNames
  <2>4. obs' = obs \/ \E x : obs' = [obs EXCEPT ![case] = x]
    BY <2>1 DEF ServerCase
  <2>5. /\ obs'.tools = obs.tools /\ obs'.protocol = obs.protocol
        /\ obs' = [tools |-> obs'.tools, contention |-> obs'.contention,
                   payload |-> obs'.payload, protocol |-> obs'.protocol]
    BY <2>4 DEF ObservedInv
  <2> QED
    BY <2>2, <2>3, <2>5, ServerKeeps DEF ObservedInv
<1>9. CASE ProtocolCheck
  <2>1. UNCHANGED <<surface, tool, outs>> /\ pc' = NextCheck /\ pc \in Range(Checks) \ {"finish"}
    BY <1>9 DEF ProtocolCheck
  <2>2. pc \in AfterTools /\ pc' \in AfterTools
    BY <2>1, CheckFollows DEF AfterTools
  <2>3. obs' = obs \/ \E x : obs' = [obs EXCEPT !.protocol = Append(obs.protocol, x)]
    BY <1>9 DEF ProtocolCheck
  <2>4. /\ obs'.tools = obs.tools
        /\ obs'.protocol = obs.protocol \/ \E x : obs'.protocol = Append(obs.protocol, x)
        /\ obs' = [tools |-> obs'.tools, contention |-> obs'.contention,
                   payload |-> obs'.payload, protocol |-> obs'.protocol]
    BY <2>3 DEF ObservedInv
  <2>5. IsList(obs'.protocol)
    <3>1. PICK l : l = obs.protocol
      OBVIOUS
    <3>2. IsList(l)
      BY <3>1 DEF ObservedInv
    <3>3. \A x : IsList(Append(l, x))
      BY <3>2, Listed
    <3> QED
      BY <2>4, <3>1, <3>2, <3>3
  <2> QED
    BY <2>1, <2>2, <2>4, <2>5, ServerKeeps
<1>10. CASE Finish
  <2>1. /\ UNCHANGED <<surface, tool, outs, obs>> /\ pc = "finish" /\ pc' \in {"failed", "ended"}
    BY <1>10 DEF Finish
  <2>2. pc \in AfterTools /\ pc' \in AfterTools \cup {"failed"}
    BY <2>1 DEF AfterTools, CheckNames
  <2> QED
    BY <2>1, <2>2, ServerKeeps DEF ObservedInv
<1> QED
  BY <1>1, <1>2, <1>3, <1>4, <1>5, <1>6, <1>7, <1>8, <1>9, <1>10 DEF Next

-----------------------------------------------------------------------------
(* What the areas score.                                                   *)

\* What can be scored: lists of tools and of protocol checks.
Scorable(o) ==
    /\ IsList(o.tools) /\ IsList(o.protocol)
    /\ \A i \in 1 .. Len(o.tools) : o.tools[i].successes \in Nat /\ o.tools[i].tokens \in Nat

\* What is read off the logarithmic curve is a percentage.
CurveIsPercent ==
    \A value, full, zero \in Nat : full < zero => LogCurve(value, full, zero) \in 0 .. 100

\* The score of an area is what it was made with.
LEMMA ScoreOf ==
  ASSUME NEW score, NEW checks
  PROVE  AreaScore(score, checks).score = score
  BY DEF AreaScore

\* Finitely many tools have what one asks of them.
LEMMA Counts ==
  ASSUME NEW n \in Nat, NEW S, S \subseteq 1 .. n
  PROVE  /\ IsFiniteSet(S) /\ Cardinality(S) \in Nat
         /\ S # {} => Cardinality(S) > 0
<1>1. IsFiniteSet(S)
  <2>1. IsFiniteSet(1 .. n)
    BY FS_Interval
  <2> QED
    BY <2>1, FS_Subset
<1> QED
  BY <1>1, FS_CardinalityType, FS_EmptySet

\* A share of something is a number.
LEMMA ShareIsNumber ==
  ASSUME NEW part \in Int, NEW whole \in Int, whole > 0
  PROVE  Share(part, whole) \in Int
<1>1. 100 * part \in Int
  OBVIOUS
<1> QED
  BY <1>1, RoundGrows DEF Share

\* The greater the part, the greater its share.
LEMMA ShareGrows ==
  ASSUME NEW part \in Int, NEW more \in Int, NEW whole \in Int, whole > 0, part <= more
  PROVE  Share(part, whole) <= Share(more, whole)
<1>1. 100 * part \in Int /\ 100 * more \in Int /\ 100 * part <= 100 * more
  OBVIOUS
<1> QED
  BY <1>1, RoundGrows DEF Share

\* The protocol area scores a number, whichever checks applied.
LEMMA ProtocolScore ==
  ASSUME NEW o, Scorable(o)
  PROVE  Protocol(o.protocol).score \in Int
<1> DEFINE results == o.protocol
           passed == {k \in DOMAIN results : results[k].reason = "none"}
<1>1. Len(results) \in Nat /\ DOMAIN results = 1 .. Len(results)
  BY Listed DEF Scorable
<1>2. CASE results = <<>>
  BY <1>2, ScoreOf DEF Protocol
<1>3. CASE results # <<>>
  <2>1. Len(results) > 0
    BY <1>1, <1>3 DEF Scorable, IsList
  <2>2. Cardinality(passed) \in Nat
    BY <1>1, Counts
  <2>3. \E checks : Protocol(results) = AreaScore(Share(Cardinality(passed), Len(results)), checks)
    BY <1>3 DEF Protocol
  <2>4. PICK whole \in Nat : whole = Len(results) /\ whole > 0
    BY <1>1, <2>1
  <2>5. PICK part \in Nat : part = Cardinality(passed)
    BY <2>2
  <2>6. Protocol(results).score = Share(part, whole)
    BY <2>3, <2>4, <2>5, ScoreOf
  <2> QED
    BY <2>4, <2>6, ShareIsNumber
<1> QED
  BY <1>2, <1>3

\* Sets written out are finite.
LEMMA ThreeAreFinite ==
  ASSUME NEW a, NEW b, NEW c
  PROVE  IsFiniteSet({a, b, c})
<1>1. IsFiniteSet({a} \cup {b})
  BY FS_Singleton, FS_AddElement
<1>2. IsFiniteSet(({a} \cup {b}) \cup {c})
  BY <1>1, FS_AddElement
<1>3. {a, b, c} = ({a} \cup {b}) \cup {c}
  OBVIOUS
<1> QED
  BY <1>2, <1>3

\* Every tool has three checks of its entry or more.
LEMMA EntryShare ==
  ASSUME NEW t
  PROVE  (60 * Cardinality(EntryPassed(t))) \div Cardinality(EntryChecks(t)) \in Int
<1> DEFINE Names == {"description", "read-only-declared", "output-schema", "params-described",
                     "params-typed", "destructive-declared"}
<1>1. EntryChecks(t) \subseteq Names /\ "description" \in EntryChecks(t)
  BY DEF EntryChecks
<1>2. EntryPassed(t) \subseteq EntryChecks(t)
  BY DEF EntryPassed
<1>3. IsFiniteSet(Names)
  <2>1. IsFiniteSet({"description", "read-only-declared", "output-schema"})
    BY ThreeAreFinite
  <2>2. IsFiniteSet({"params-described", "params-typed", "destructive-declared"})
    BY ThreeAreFinite
  <2>3. Names = {"description", "read-only-declared", "output-schema"}
                \cup {"params-described", "params-typed", "destructive-declared"}
    OBVIOUS
  <2> QED
    BY <2>1, <2>2, <2>3, FS_Union
<1> HIDE DEF Names
<1>4. IsFiniteSet(EntryChecks(t)) /\ IsFiniteSet(EntryPassed(t))
  BY <1>1, <1>2, <1>3, FS_Subset
<1>5. PICK c \in Nat : c = Cardinality(EntryChecks(t))
  BY <1>4, FS_CardinalityType
<1>6. PICK p \in Nat : p = Cardinality(EntryPassed(t))
  BY <1>4, FS_CardinalityType
<1>7. c > 0
  BY <1>1, <1>4, <1>5, FS_EmptySet
<1>8. (60 * p) \div c \in Int
  BY <1>7
<1> QED
  BY <1>5, <1>6, <1>8

Shares(ts) ==
    [i \in DOMAIN ts |-> (60 * Cardinality(EntryPassed(ts[i]))) \div Cardinality(EntryChecks(ts[i]))]

\* The catalog area is a rounded share of its tools' shares.
LEMMA CatalogScore ==
  ASSUME NEW ts
  PROVE  Catalog(ts).score = IF ts = <<>> THEN 0
                             ELSE Round(100 * SumFunction(Shares(ts)), 60 * Len(ts))
<1>1. CASE ts = <<>>
  BY <1>1, ScoreOf DEF Catalog
<1>2. CASE ts # <<>>
  <2>1. \E checks : Catalog(ts)
          = AreaScore(Round(100 * SumFunction(Shares(ts)), 60 * Len(ts)), checks)
    BY <1>2, Zenon DEF Catalog, Shares
  <2> QED
    BY <1>2, <2>1, ScoreOf
<1> QED
  BY <1>1, <1>2

\* It is a number for every list of tools.
LEMMA CatalogIsNumber ==
  ASSUME NEW o, Scorable(o)
  PROVE  Catalog(o.tools).score \in Int
<1> DEFINE ts == o.tools
<1>1. Len(ts) \in Nat /\ DOMAIN ts = 1 .. Len(ts) /\ (ts # <<>> => Len(ts) > 0)
  <2>1. IsList(ts)
    BY DEF Scorable
  <2> QED
    BY <2>1, Listed DEF IsList
<1>2. IsFiniteSet(DOMAIN ts)
  BY <1>1, FS_Interval
<1>3. \A i \in DOMAIN ts : Shares(ts)[i] \in Int
  BY EntryShare DEF Shares
<1>4. DOMAIN Shares(ts) = DOMAIN ts
  BY DEF Shares
<1>5. PICK f : f = Shares(ts)
  OBVIOUS
<1>6. PICK s \in Int : s = SumFunction(Shares(ts))
  <2>1. \A x \in DOMAIN f : f[x] \in Int /\ f[x] <= f[x]
    BY <1>3, <1>4, <1>5
  <2>2. SumFunction(f) \in Int
    BY <1>2, <1>4, <1>5, <2>1, SumGrows
  <2> QED
    BY <1>5, <2>2
<1>7. ts # <<>> => 60 * Len(ts) \in Int /\ 60 * Len(ts) > 0 /\ 100 * s \in Int
  BY <1>1
<1>8. ts # <<>> => Round(100 * s, 60 * Len(ts)) \in Int
  BY <1>7, RoundGrows
<1>9. Catalog(ts).score = IF ts = <<>> THEN 0 ELSE Round(100 * s, 60 * Len(ts))
  BY <1>6, CatalogScore, Zenon
<1> QED
  BY <1>8, <1>9

Tokens(ts) == SumFunction([i \in DOMAIN ts |-> ts[i].tokens])
Heaviest(ts) == Max({0} \cup {ts[i].tokens : i \in DOMAIN ts})

\* The context area is read off two logarithmic curves.
LEMMA ContextIs ==
  ASSUME NEW ts
  PROVE  Context(ts).score = Round(3 * LogCurve(Tokens(ts), 2000, 40000)
                                     + LogCurve(Heaviest(ts), 500, 5000), 4)
<1> DEFINE catalog == LogCurve(Tokens(ts), 2000, 40000)
           heavy == LogCurve(Heaviest(ts), 500, 5000)
<1>1. Context(ts) = AreaScore(Round(3 * catalog + heavy, 4),
                      Lost("context.catalog", "none", catalog, "context-catalog-heavy")
                      \cup Lost("context.heaviest-tool", "none", heavy, "context-tool-heavy"))
  BY DEF Context, Tokens, Heaviest
<1> HIDE DEF catalog, heavy
<1>2. PICK score : score = Round(3 * catalog + heavy, 4)
  OBVIOUS
<1>3. \E checks : Context(ts) = AreaScore(score, checks)
  BY <1>1, <1>2
<1>4. Context(ts).score = score
  BY <1>3, ScoreOf
<1> QED
  BY <1>2, <1>4 DEF catalog, heavy

\* A list has a largest entry.
LEMMA HeaviestIsNumber ==
  ASSUME NEW n \in Nat, NEW ts, DOMAIN ts = 1 .. n, \A i \in 1 .. n : ts[i].tokens \in Nat
  PROVE  Heaviest(ts) \in Nat
<1> DEFINE H(m) == {0} \cup {ts[i].tokens : i \in 1 .. m}
           Good == {m \in Nat : m <= n => \E x \in H(m) : \A y \in H(m) : x >= y}
<1>1. \A m \in Nat : m <= n => H(m) \subseteq Nat
  OBVIOUS
<1>2. 0 \in Good
  <2>1. H(0) = {0}
    OBVIOUS
  <2> QED
    BY <2>1
<1>3. ASSUME NEW m \in Nat, m \in Good PROVE m + 1 \in Good
  <2> SUFFICES ASSUME m + 1 <= n PROVE \E x \in H(m + 1) : \A y \in H(m + 1) : x >= y
    OBVIOUS
  <2>1. m <= n /\ m + 1 \in 1 .. n
    OBVIOUS
  <2>2. PICK x \in H(m) : \A y \in H(m) : x >= y
    BY <1>3, <2>1
  <2>3. PICK t \in Nat : t = ts[m + 1].tokens
    BY <2>1
  <2>4. H(m + 1) = H(m) \cup {t}
    <3>1. 1 .. m + 1 = (1 .. m) \cup {m + 1}
      OBVIOUS
    <3> QED
      BY <2>3, <3>1
  <2>5. H(m) \subseteq Nat
    BY <1>1, <2>1
  <2> HIDE DEF H
  <2>6. CASE x >= t
    BY <2>2, <2>4, <2>5, <2>6
  <2>7. CASE ~(x >= t)
    <3>1. \A y \in H(m + 1) : t >= y
      BY <2>2, <2>3, <2>4, <2>5, <2>7
    <3> QED
      BY <2>4, <3>1
  <2> QED
    BY <2>6, <2>7
<1>4. n \in Good
  <2> HIDE DEF Good
  <2> QED
    BY <1>2, <1>3, InductionOnNat
<1>5. \E x \in H(n) : \A y \in H(n) : x >= y
  BY <1>4
<1>6. Heaviest(ts) = Max(H(n))
  BY DEF Heaviest
<1>7. H(n) \subseteq Nat
  BY <1>1
<1> HIDE DEF H
<1>8. Max(H(n)) \in H(n)
  BY <1>5 DEF Max
<1> QED
  BY <1>6, <1>7, <1>8

\* It is a number when the curves give percentages.
LEMMA ContextIsNumber ==
  ASSUME NEW o, Scorable(o), CurveIsPercent
  PROVE  Context(o.tools).score \in Int
<1>1. PICK n \in Nat : n = Len(o.tools) /\ DOMAIN o.tools = 1 .. n
  BY Listed DEF Scorable
<1>2. \A i \in 1 .. n : o.tools[i].tokens \in Nat
  BY <1>1 DEF Scorable
<1>3. PICK h \in Nat : h = Heaviest(o.tools)
  BY <1>1, <1>2, HeaviestIsNumber
<1>4. PICK f : f = [i \in DOMAIN o.tools |-> o.tools[i].tokens]
  OBVIOUS
<1>5. DOMAIN f = 1 .. n /\ (\A i \in 1 .. n : f[i] \in Int /\ 0 <= f[i]) /\ IsFiniteSet(1 .. n)
  BY <1>1, <1>2, <1>4, FS_Interval
<1>6. SumFunction(f) \in Nat
  BY <1>5, SumNotNegative
<1>7. PICK t \in Nat : t = Tokens(o.tools)
  BY <1>4, <1>6 DEF Tokens
<1>8. PICK c \in Int : c = LogCurve(Tokens(o.tools), 2000, 40000)
  <2>1. PICK full \in Nat, zero \in Nat : full = 2000 /\ zero = 40000 /\ full < zero
    OBVIOUS
  <2>3. full < zero
    BY <2>1
  <2>2. LogCurve(t, full, zero) \in 0 .. 100
    BY <2>3, Zenon DEF CurveIsPercent
  <2> QED
    BY <1>7, <2>1, <2>2
<1>9. PICK d \in Int : d = LogCurve(Heaviest(o.tools), 500, 5000)
  <2>1. PICK full \in Nat, zero \in Nat : full = 500 /\ zero = 5000 /\ full < zero
    OBVIOUS
  <2>3. full < zero
    BY <2>1
  <2>2. LogCurve(h, full, zero) \in 0 .. 100
    BY <2>3, Zenon DEF CurveIsPercent
  <2> QED
    BY <1>3, <2>1, <2>2
<1>10. 3 * c + d \in Int /\ 4 > 0
  OBVIOUS
<1>11. Round(3 * c + d, 4) \in Int
  BY <1>10, RoundGrows
<1> QED
  BY <1>8, <1>9, <1>11, ContextIs

JudgedOf(ts) == {i \in DOMAIN ts : ts[i].honesty # "none"}
HonestOf(ts) == {i \in JudgedOf(ts) : ts[i].honesty = "honest"}

\* The error honesty is the share of the judged tools that are honest.
LEMMA HonestyScore ==
  ASSUME NEW ts
  PROVE  ErrorHonesty(ts).score =
            IF JudgedOf(ts) = {} THEN 0
            ELSE Share(Cardinality(HonestOf(ts)), Cardinality(JudgedOf(ts)))
<1>1. CASE JudgedOf(ts) = {}
  <2>1. \E checks : ErrorHonesty(ts) = AreaScore(0, checks)
    BY <1>1, Zenon DEF ErrorHonesty, JudgedOf
  <2> QED
    BY <1>1, <2>1, ScoreOf
<1>2. CASE JudgedOf(ts) # {}
  <2>1. \E checks : ErrorHonesty(ts)
          = AreaScore(Share(Cardinality(HonestOf(ts)), Cardinality(JudgedOf(ts))), checks)
    BY <1>2, Zenon DEF ErrorHonesty, JudgedOf, HonestOf
  <2> QED
    BY <1>2, <2>1, ScoreOf
<1> QED
  BY <1>1, <1>2

\* The fewer honest tools, the less.
LEMMA HonestyLoses ==
  ASSUME NEW ts, NEW us, NEW n \in Nat, DOMAIN ts = 1 .. n, DOMAIN us = 1 .. n,
         \A i \in 1 .. n : /\ us[i].honesty # "none" <=> ts[i].honesty # "none"
                           /\ us[i].honesty = "honest" => ts[i].honesty = "honest"
  PROVE  /\ ErrorHonesty(us).score \in Int /\ ErrorHonesty(ts).score \in Int
         /\ ErrorHonesty(us).score <= ErrorHonesty(ts).score
<1>1. /\ JudgedOf(us) = JudgedOf(ts) /\ JudgedOf(ts) \subseteq 1 .. n
      /\ HonestOf(us) \subseteq HonestOf(ts) /\ HonestOf(ts) \subseteq 1 .. n
  BY DEF JudgedOf, HonestOf
<1>2. PICK a \in Nat : a = Cardinality(HonestOf(us))
  BY <1>1, Counts
<1>3. PICK b \in Nat : b = Cardinality(HonestOf(ts))
  BY <1>1, Counts
<1>4. a <= b
  <2>1. IsFiniteSet(HonestOf(ts))
    BY <1>1, Counts
  <2> QED
    BY <1>1, <1>2, <1>3, <2>1, FS_Subset
<1>5. PICK c \in Nat : c = Cardinality(JudgedOf(ts))
  BY <1>1, Counts
<1>6. JudgedOf(ts) # {} => c > 0
  BY <1>1, <1>5, Counts
<1>7. JudgedOf(ts) # {} => Share(a, c) \in Int /\ Share(b, c) \in Int /\ Share(a, c) <= Share(b, c)
  BY <1>4, <1>6, ShareIsNumber, ShareGrows
<1>8. ErrorHonesty(us).score = IF JudgedOf(ts) = {} THEN 0 ELSE Share(a, c)
  BY <1>1, <1>2, <1>5, HonestyScore
<1>9. ErrorHonesty(ts).score = IF JudgedOf(ts) = {} THEN 0 ELSE Share(b, c)
  BY <1>3, <1>5, HonestyScore
<1> QED
  BY <1>7, <1>8, <1>9

ExercisedOf(ts) == {i \in ReadOnlySurface(ts) : ts[i].successes > 0}

\* The coverage is the share of the tools that do not write and have succeeded.
LEMMA CoverageScore ==
  ASSUME NEW ts
  PROVE  Coverage(ts).score =
            IF ReadOnlySurface(ts) = {} THEN 0
            ELSE Share(Cardinality(ExercisedOf(ts)), Cardinality(ReadOnlySurface(ts)))
<1>1. CASE ReadOnlySurface(ts) = {}
  <2>1. \E checks : Coverage(ts) = AreaScore(0, checks)
    BY <1>1, Zenon DEF Coverage
  <2> QED
    BY <1>1, <2>1, ScoreOf
<1>2. CASE ReadOnlySurface(ts) # {}
  <2>1. \E checks : Coverage(ts)
          = AreaScore(Share(Cardinality(ExercisedOf(ts)), Cardinality(ReadOnlySurface(ts))), checks)
    BY <1>2, Zenon DEF Coverage, ExercisedOf
  <2> QED
    BY <1>2, <2>1, ScoreOf
<1> QED
  BY <1>1, <1>2

\* The fewer tools were exercised, the less.
LEMMA CoverageLoses ==
  ASSUME NEW ts, NEW us, NEW n \in Nat, DOMAIN ts = 1 .. n, DOMAIN us = 1 .. n,
         \A i \in 1 .. n : /\ us[i].class = ts[i].class
                           /\ us[i].successes > 0 => ts[i].successes > 0
  PROVE  /\ Coverage(us).score \in Int /\ Coverage(ts).score \in Int
         /\ Coverage(us).score <= Coverage(ts).score
<1>1. /\ ReadOnlySurface(us) = ReadOnlySurface(ts) /\ ReadOnlySurface(ts) \subseteq 1 .. n
      /\ ExercisedOf(us) \subseteq ExercisedOf(ts) /\ ExercisedOf(ts) \subseteq 1 .. n
  <2>1. ReadOnlySurface(us) = ReadOnlySurface(ts) /\ ReadOnlySurface(ts) \subseteq 1 .. n
    BY DEF ReadOnlySurface
  <2> QED
    BY <2>1 DEF ExercisedOf
<1>2. PICK a \in Nat : a = Cardinality(ExercisedOf(us))
  BY <1>1, Counts
<1>3. PICK b \in Nat : b = Cardinality(ExercisedOf(ts))
  BY <1>1, Counts
<1>4. a <= b
  <2>1. IsFiniteSet(ExercisedOf(ts))
    BY <1>1, Counts
  <2> QED
    BY <1>1, <1>2, <1>3, <2>1, FS_Subset
<1>5. PICK c \in Nat : c = Cardinality(ReadOnlySurface(ts))
  BY <1>1, Counts
<1>6. ReadOnlySurface(ts) # {} => c > 0
  BY <1>1, <1>5, Counts
<1>7. ReadOnlySurface(ts) # {} => Share(a, c) \in Int /\ Share(b, c) \in Int /\ Share(a, c) <= Share(b, c)
  BY <1>4, <1>6, ShareIsNumber, ShareGrows
<1>8. Coverage(us).score = IF ReadOnlySurface(ts) = {} THEN 0 ELSE Share(a, c)
  BY <1>1, <1>2, <1>5, CoverageScore
<1>9. Coverage(ts).score = IF ReadOnlySurface(ts) = {} THEN 0 ELSE Share(b, c)
  BY <1>3, <1>5, CoverageScore
<1> QED
  BY <1>7, <1>8, <1>9

-----------------------------------------------------------------------------
(* Reliability.                                                            *)

\* An entry has two parts, or three when the schema of the output is judged.
LEMMA PartsAre ==
  ASSUME NEW e, NEW b \in BOOLEAN
  PROVE  /\ Len(Parts(e, b)) = IF e.schema = "none" THEN 2 ELSE 3
         /\ DOMAIN Parts(e, b) = 1 .. Len(Parts(e, b))
         /\ Parts(e, b)[1].score = Percent(e.consistent)
         /\ b = TRUE => Parts(e, b)[2].score = LatencyBand(e.latency)
         /\ b = FALSE => Parts(e, b)[2].score = 100
         /\ e.schema # "none" => Parts(e, b)[3].score = Percent(e.schema = "kept")
<1>1. PICK p : p = [id |-> "consistent", score |-> Percent(e.consistent),
                    reason |-> "reliability-inconsistent"]
  OBVIOUS
<1>2. PICK q : q = [id |-> "latency", score |-> IF b THEN LatencyBand(e.latency) ELSE 100,
                    reason |-> "reliability-slow"]
  OBVIOUS
<1>8. (b = TRUE => q.score = LatencyBand(e.latency)) /\ (b = FALSE => q.score = 100)
  BY <1>2
<1>3. PICK r : r = [id |-> "output-schema", score |-> Percent(e.schema = "kept"),
                    reason |-> "reliability-output-schema-broken"]
  OBVIOUS
<1> DEFINE S == {p, q, r}
<1>4. Parts(e, b) = <<p, q>> \o (IF e.schema = "none" THEN <<>> ELSE <<r>>)
  BY <1>1, <1>2, <1>3, Zenon DEF Parts
<1>5. <<p, q>> \in Seq(S) /\ <<>> \in Seq(S) /\ <<r>> \in Seq(S)
  OBVIOUS
<1>6. CASE e.schema = "none"
  <2>1. Parts(e, b) = <<p, q>>
    <3>1. Parts(e, b) = <<p, q>> \o <<>>
      BY <1>4, <1>6
    <3> HIDE DEF S
    <3> QED
      BY <1>5, <3>1, ConcatEmptySeq
  <2>2. Len(Parts(e, b)) = 2 /\ Parts(e, b)[1] = p /\ Parts(e, b)[2] = q
        /\ DOMAIN Parts(e, b) = 1 .. 2
    BY <2>1
  <2> QED
    BY <1>1, <1>6, <1>8, <2>2
<1>7. CASE e.schema # "none"
  <2>1. PICK s \in Seq(S) : s = <<p, q>> /\ Len(s) = 2 /\ s[1] = p /\ s[2] = q
    BY <1>5
  <2>2. PICK t \in Seq(S) : t = <<r>> /\ Len(t) = 1 /\ t[1] = r
    BY <1>5
  <2>3. Parts(e, b) = s \o t
    BY <1>4, <1>7, <2>1, <2>2
  <2>4. /\ s \o t \in Seq(S) /\ Len(s \o t) = 3
        /\ \A i \in 1 .. 3 : (s \o t)[i] = IF i <= 2 THEN s[i] ELSE t[i - 2]
    <3> HIDE DEF S
    <3> QED
      BY <2>1, <2>2, ConcatProperties
  <2>5. /\ (s \o t)[1] = p /\ (s \o t)[2] = q /\ (s \o t)[3] = r
        /\ DOMAIN (s \o t) = 1 .. 3
    BY <2>1, <2>2, <2>4
  <2> QED
    BY <1>1, <1>3, <1>7, <1>8, <2>3, <2>4, <2>5
<1> QED
  BY <1>6, <1>7

PartScores(e, b) == [k \in DOMAIN Parts(e, b) |-> Parts(e, b)[k].score]

\* Without the band the latency is at full marks.
LEMMA BandsCost ==
  ASSUME NEW e
  PROVE  /\ SumFunction(PartScores(e, TRUE)) \in Nat /\ SumFunction(PartScores(e, FALSE)) \in Nat
         /\ SumFunction(PartScores(e, TRUE)) <= SumFunction(PartScores(e, FALSE))
<1>1. /\ \A x : Percent(x) \in Nat
      /\ \A ms : LatencyBand(ms) \in Nat /\ LatencyBand(ms) <= 100
  BY DEF Percent, LatencyBand
<1>2. PICK f, g : f = PartScores(e, TRUE) /\ g = PartScores(e, FALSE)
  OBVIOUS
<1>3. PICK n \in 2 .. 3 : n = IF e.schema = "none" THEN 2 ELSE 3
  OBVIOUS
<1>10. PICK p, q : p = Parts(e, TRUE) /\ q = Parts(e, FALSE)
  OBVIOUS
<1>11. /\ DOMAIN p = 1 .. n /\ p[1].score = Percent(e.consistent)
       /\ p[2].score = LatencyBand(e.latency)
       /\ e.schema # "none" => p[3].score = Percent(e.schema = "kept")
  <2>1. Len(p) = IF e.schema = "none" THEN 2 ELSE 3
    BY <1>10, PartsAre, Zenon
  <2>2. /\ DOMAIN p = 1 .. Len(p) /\ p[1].score = Percent(e.consistent)
        /\ p[2].score = LatencyBand(e.latency)
        /\ e.schema # "none" => p[3].score = Percent(e.schema = "kept")
    BY <1>10, PartsAre, Zenon
  <2> QED
    BY <1>3, <2>1, <2>2
<1>12. /\ DOMAIN q = 1 .. n /\ q[1].score = Percent(e.consistent) /\ q[2].score = 100
       /\ e.schema # "none" => q[3].score = Percent(e.schema = "kept")
  <2>1. Len(q) = IF e.schema = "none" THEN 2 ELSE 3
    BY <1>10, PartsAre, Zenon
  <2>2. /\ DOMAIN q = 1 .. Len(q) /\ q[1].score = Percent(e.consistent) /\ q[2].score = 100
        /\ e.schema # "none" => q[3].score = Percent(e.schema = "kept")
    BY <1>10, PartsAre, Zenon
  <2> QED
    BY <1>3, <2>1, <2>2
<1>13. f = [k \in DOMAIN p |-> p[k].score] /\ g = [k \in DOMAIN q |-> q[k].score]
  BY <1>2, <1>10 DEF PartScores
<1>4. DOMAIN f = 1 .. n /\ DOMAIN g = 1 .. n
  BY <1>11, <1>12, <1>13
<1>5. \A k \in 1 .. n : f[k] = p[k].score /\ g[k] = q[k].score
  BY <1>11, <1>12, <1>13
<1>6. \A k \in 1 .. n : f[k] \in Nat /\ g[k] \in Nat /\ f[k] <= g[k]
  <2> SUFFICES ASSUME NEW k \in 1 .. n PROVE f[k] \in Nat /\ g[k] \in Nat /\ f[k] <= g[k]
    OBVIOUS
  <2>1. k = 1 \/ k = 2 \/ (k = 3 /\ e.schema # "none")
    BY <1>3
  <2>2. CASE k = 1
    BY <1>1, <1>5, <1>11, <1>12, <2>2
  <2>3. CASE k = 2
    BY <1>1, <1>5, <1>11, <1>12, <2>3
  <2>4. CASE k = 3 /\ e.schema # "none"
    BY <1>1, <1>5, <1>11, <1>12, <2>4
  <2> QED
    BY <2>1, <2>2, <2>3, <2>4
<1>7. IsFiniteSet(1 .. n)
  BY FS_Interval
<1>8. SumFunction(f) \in Nat /\ SumFunction(g) \in Nat
  BY <1>4, <1>6, <1>7, SumNotNegative
<1>9. SumFunction(f) <= SumFunction(g)
  BY <1>4, <1>6, <1>7, SumGrows
<1> QED
  BY <1>2, <1>8, <1>9

\* An entry is the share of the successes times that of its parts.
LEMMA EntryIs ==
  ASSUME NEW t, NEW b \in BOOLEAN
  PROVE  Entry(t, b) =
            IF ~Exercised(t) THEN 0
            ELSE (Units * t.successes * SumFunction(PartScores(t.exercise, b)))
                    \div (3 * (IF t.exercise.schema = "none" THEN 2 ELSE 3))
<1>1. Len(Parts(t.exercise, b)) = IF t.exercise.schema = "none" THEN 2 ELSE 3
  BY PartsAre, Zenon
<1>2. Entry(t, b) = IF ~Exercised(t) THEN 0
            ELSE (Units * t.successes * SumFunction(PartScores(t.exercise, b)))
                    \div (3 * Len(Parts(t.exercise, b)))
  BY Zenon DEF Entry, PartScores
<1> QED
  BY <1>1, <1>2, Zenon

\* Latency takes nothing else from an entry than its band.
LEMMA EntryGrows ==
  ASSUME NEW t, t.successes \in Nat
  PROVE  /\ Entry(t, TRUE) \in Nat /\ Entry(t, FALSE) \in Nat
         /\ Entry(t, TRUE) <= Entry(t, FALSE)
<1>1. PICK a \in Nat, b \in Nat :
         /\ a = SumFunction(PartScores(t.exercise, TRUE))
         /\ b = SumFunction(PartScores(t.exercise, FALSE)) /\ a <= b
  BY BandsCost
<1>2. PICK n \in {2, 3} : n = IF t.exercise.schema = "none" THEN 2 ELSE 3
  OBVIOUS
<1>3. PICK s \in Nat : s = t.successes
  OBVIOUS
<1> DEFINE x == Units * s * a
           y == Units * s * b
           d == 3 * n
<1>4. x \in Nat /\ y \in Nat /\ x <= y
  <2>1. PICK u \in Nat : u = Units * s
    BY DEF Units
  <2>2. PICK c \in Nat : b = a + c
    <3>1. a <= b
      BY <1>1, Zenon
    <3>2. b - a \in Nat /\ b = a + (b - a)
      BY ONLY a \in Nat, b \in Nat, <3>1
    <3> QED
      BY ONLY <3>2
  <2>3. u * c \in Nat /\ u * a \in Nat /\ u * b = u * a + u * c
    BY ONLY u \in Nat, c \in Nat, a \in Nat, <2>2
  <2> QED
    BY <2>1, <2>3
<1>5. d \in Nat /\ d > 0
  OBVIOUS
<1>6. Entry(t, TRUE) = IF ~Exercised(t) THEN 0 ELSE x \div d
  BY <1>1, <1>2, <1>3, EntryIs
<1>7. Entry(t, FALSE) = IF ~Exercised(t) THEN 0 ELSE y \div d
  BY <1>1, <1>2, <1>3, EntryIs
<1> HIDE DEF x, y, d
<1>8. x \div d \in Nat /\ y \div d \in Nat /\ x \div d <= y \div d
  BY <1>4, <1>5, QuotientGrows
<1>9. PICK p, q : p = Entry(t, TRUE) /\ q = Entry(t, FALSE)
  OBVIOUS
<1>10. p \in Nat /\ q \in Nat /\ p <= q
  <2>1. CASE Exercised(t)
    <3>1. p = x \div d /\ q = y \div d
      BY <1>6, <1>7, <1>9, <2>1, Zenon
    <3> QED
      BY ONLY <1>8, <3>1
  <2>2. CASE ~Exercised(t)
    <3>1. p = 0 /\ q = 0
      BY <1>6, <1>7, <1>9, <2>2, Zenon
    <3> QED
      BY ONLY <3>1
  <2> QED
    BY <2>1, <2>2, Zenon
<1> QED
  BY <1>9, <1>10, Zenon

\* Two cases at most; with a tool skipped there are both, and neither counts.
LEMMA CasesAre ==
  ASSUME NEW o
  PROVE  /\ IsFiniteSet(ServerCases(o))
         /\ Cardinality(ServerCases(o)) \in 0 .. 2
         /\ \A c \in ServerCases(o) : c.score \in {0, 100}
         /\ AnySkipped(o.tools) =>
               /\ Cardinality(ServerCases(o)) = 2
               /\ \A c \in ServerCases(o) : c.score = 0
<1> DEFINE skipped == AnySkipped(o.tools)
           F(c) == [id |-> c, score |-> IF skipped THEN 0 ELSE Percent(o[c] = "passed"),
                    reason |-> IF skipped THEN "coverage-skipped" ELSE c]
           D == {c \in {"contention", "payload"} : skipped \/ o[c] # "none"}
<1>1. ServerCases(o) = {F(c) : c \in D}
  BY Zenon DEF ServerCases
<1>2. PICK x, y : x = F("contention") /\ y = F("payload")
  OBVIOUS
<1>3. x # y /\ x.score \in {0, 100} /\ y.score \in {0, 100} /\ (skipped => x.score = 0 /\ y.score = 0)
  <2>1. x.id = "contention" /\ y.id = "payload"
    BY <1>2
  <2>2. x # y
    BY <2>1
  <2> HIDE DEF skipped
  <2> QED
    BY <1>2, <2>2 DEF Percent
<1>4. ServerCases(o) \subseteq {x, y} /\ (skipped => ServerCases(o) = {x, y})
  <2> HIDE DEF F, skipped
  <2> QED
    BY <1>1, <1>2
<1> HIDE DEF F, D, skipped
<1>5. IsFiniteSet({x, y}) /\ Cardinality({x, y}) = 2
  <2>1. IsFiniteSet({x}) /\ Cardinality({x}) = 1
    BY FS_Singleton
  <2>2. IsFiniteSet({x} \cup {y}) /\ Cardinality({x} \cup {y}) = 2
    <3>1. y \notin {x}
      BY <1>3
    <3>2. /\ IsFiniteSet({x} \cup {y})
          /\ Cardinality({x} \cup {y}) =
               IF y \in {x} THEN Cardinality({x}) ELSE Cardinality({x}) + 1
      BY ONLY <2>1, FS_AddElement, Zenon
    <3> QED
      BY ONLY <2>1, <3>1, <3>2
  <2>3. {x} \cup {y} = {x, y}
    OBVIOUS
  <2> QED
    BY <2>2, <2>3
<1>6. /\ IsFiniteSet(ServerCases(o)) /\ Cardinality(ServerCases(o)) \in Nat
      /\ Cardinality(ServerCases(o)) <= 2
  <2>1. IsFiniteSet(ServerCases(o)) /\ Cardinality(ServerCases(o)) <= Cardinality({x, y})
    BY <1>4, <1>5, FS_Subset
  <2> QED
    BY <1>5, <2>1, FS_CardinalityType
<1> QED
  BY <1>3, <1>4, <1>5, <1>6 DEF skipped

Entries(ts, b) == [i \in ReadOnlySurface(ts) |-> Entry(ts[i], b)]
Values(o) == [c \in ServerCases(o) |-> Units * c.score]

\* What the cases on the whole server are worth together.
LEMMA ValuesAre ==
  ASSUME NEW o
  PROVE  /\ SumFunction(Values(o)) \in Nat
         /\ AnySkipped(o.tools) => SumFunction(Values(o)) = 0
<1>1. PICK f : f = Values(o)
  OBVIOUS
<1>2. DOMAIN f = ServerCases(o) /\ IsFiniteSet(ServerCases(o))
  BY <1>1, CasesAre DEF Values
<1>3. \A c \in ServerCases(o) : f[c] \in {0, 1800}
  BY <1>1, CasesAre DEF Values, Units
<1>4. SumFunction(f) \in Nat
  BY <1>2, <1>3, SumNotNegative
<1>5. ASSUME AnySkipped(o.tools) PROVE SumFunction(f) = 0
  <2>1. \A c \in ServerCases(o) : Units * c.score = 0
    BY <1>5, CasesAre DEF Units
  <2>2. f = [c \in ServerCases(o) |-> 0]
    BY <1>1, <2>1 DEF Values
  <2> QED
    BY <1>2, <2>2, SumOfZeros
<1> QED
  BY <1>1, <1>4, <1>5

\* The reliability is a rounded share of its entries and cases.
LEMMA ReliabilityScore ==
  ASSUME NEW o, NEW b
  PROVE  Reliability(o, b).score =
            IF ReadOnlySurface(o.tools) = {} THEN 0
            ELSE Round(SumFunction(Entries(o.tools, b)) + SumFunction(Values(o)),
                       Units * (Cardinality(ReadOnlySurface(o.tools)) + Cardinality(ServerCases(o))))
<1>1. CASE ReadOnlySurface(o.tools) = {}
  <2>1. \E checks : Reliability(o, b) = AreaScore(0, checks)
    BY <1>1, Zenon DEF Reliability
  <2> QED
    BY <1>1, <2>1, ScoreOf
<1>2. CASE ReadOnlySurface(o.tools) # {}
  <2> DEFINE s == Round(SumFunction(Entries(o.tools, b)) + SumFunction(Values(o)),
                  Units * (Cardinality(ReadOnlySurface(o.tools)) + Cardinality(ServerCases(o))))
  <2>1. \E checks : Reliability(o, b) = AreaScore(s, checks)
    BY <1>2, Zenon DEF Reliability, Entries, Values
  <2> HIDE DEF s
  <2>2. Reliability(o, b).score = s
    BY <2>1, ScoreOf
  <2> QED
    BY <1>2, <2>2 DEF s
<1> QED
  BY <1>1, <1>2

\* The numbers reliability is a share of.
LEMMA ReliabilityParts ==
  ASSUME NEW o, Scorable(o), NEW b \in BOOLEAN
  PROVE  /\ SumFunction(Entries(o.tools, b)) \in Nat
         /\ IsFiniteSet(ReadOnlySurface(o.tools))
         /\ \A i \in ReadOnlySurface(o.tools) : Entry(o.tools[i], b) \in Nat
         /\ Cardinality(ReadOnlySurface(o.tools)) \in Nat
         /\ ReadOnlySurface(o.tools) # {} => Cardinality(ReadOnlySurface(o.tools)) > 0
<1>1. Len(o.tools) \in Nat /\ DOMAIN o.tools = 1 .. Len(o.tools)
  BY Listed DEF Scorable
<1>2. ReadOnlySurface(o.tools) \subseteq 1 .. Len(o.tools)
  BY <1>1 DEF ReadOnlySurface
<1>3. ASSUME NEW i \in ReadOnlySurface(o.tools) PROVE Entry(o.tools[i], b) \in Nat
  <2>1. o.tools[i].successes \in Nat
    BY <1>2 DEF Scorable
  <2> QED
    BY <2>1, EntryGrows
<1>4. PICK f : f = Entries(o.tools, b)
  OBVIOUS
<1>5. DOMAIN f = ReadOnlySurface(o.tools) /\ \A i \in DOMAIN f : f[i] \in Nat
  BY <1>3, <1>4 DEF Entries
<1>6. SumFunction(f) \in Nat
  BY <1>1, <1>2, <1>5, Counts, SumNotNegative
<1> QED
  BY <1>1, <1>2, <1>3, <1>4, <1>6, Counts

\* A server that is slow to answer gets less than one that is not.
LEMMA ReliabilityBanded ==
  ASSUME NEW o, Scorable(o)
  PROVE  /\ Reliability(o, TRUE).score \in Int /\ Reliability(o, FALSE).score \in Int
         /\ Reliability(o, TRUE).score <= Reliability(o, FALSE).score
<1>1. PICK f, g : f = Entries(o.tools, TRUE) /\ g = Entries(o.tools, FALSE)
  OBVIOUS
<1>2. PICK R : R = ReadOnlySurface(o.tools)
  OBVIOUS
<1>3. DOMAIN f = R /\ DOMAIN g = R /\ IsFiniteSet(R)
  BY <1>1, <1>2, ReliabilityParts DEF Entries
<1>4. \A i \in R : f[i] \in Int /\ g[i] \in Int /\ f[i] <= g[i]
  <2> SUFFICES ASSUME NEW i \in R PROVE f[i] \in Int /\ g[i] \in Int /\ f[i] <= g[i]
    OBVIOUS
  <2>1. f[i] = Entry(o.tools[i], TRUE) /\ g[i] = Entry(o.tools[i], FALSE)
    BY <1>1, <1>2 DEF Entries
  <2>2. o.tools[i].successes \in Nat
    <3>1. i \in 1 .. Len(o.tools)
      BY <1>2, Listed DEF ReadOnlySurface, Scorable
    <3> QED
      BY <3>1 DEF Scorable
  <2>3. /\ Entry(o.tools[i], TRUE) \in Nat /\ Entry(o.tools[i], FALSE) \in Nat
        /\ Entry(o.tools[i], TRUE) <= Entry(o.tools[i], FALSE)
    BY <2>2, EntryGrows, Zenon
  <2>4. f[i] \in Nat /\ g[i] \in Nat /\ f[i] <= g[i]
    BY <2>1, <2>3, Zenon
  <2> QED
    BY ONLY <2>4
<1>5. PICK a \in Nat, b \in Nat : a = SumFunction(f) /\ b = SumFunction(g)
  BY <1>1, ReliabilityParts
<1>6. a <= b
  BY <1>3, <1>4, <1>5, SumGrows
<1>7. PICK v \in Nat : v = SumFunction(Values(o))
  BY ValuesAre
<1>8. PICK n \in Nat, m \in 0 .. 2 : n = Cardinality(R) /\ m = Cardinality(ServerCases(o)) /\ (R # {} => n > 0)
  <2>1. Cardinality(R) \in Nat /\ (R # {} => Cardinality(R) > 0)
    BY <1>2, ReliabilityParts
  <2>2. Cardinality(ServerCases(o)) \in 0 .. 2
    BY CasesAre
  <2> QED
    BY <2>1, <2>2
<1> DEFINE d == Units * (n + m)
<1>9. d \in Int /\ (R # {} => d > 0)
  BY <1>8 DEF Units
<1>10. Reliability(o, TRUE).score = IF R = {} THEN 0 ELSE Round(a + v, d)
  BY <1>1, <1>2, <1>5, <1>7, <1>8, ReliabilityScore
<1>11. Reliability(o, FALSE).score = IF R = {} THEN 0 ELSE Round(b + v, d)
  BY <1>1, <1>2, <1>5, <1>7, <1>8, ReliabilityScore
<1>12. a + v \in Int /\ b + v \in Int /\ a + v <= b + v
  BY <1>6
<1> HIDE DEF d
<1>13. R # {} => Round(a + v, d) \in Int /\ Round(b + v, d) \in Int /\ Round(a + v, d) <= Round(b + v, d)
  BY <1>9, <1>12, RoundGrows
<1>14. PICK p, q : p = Reliability(o, TRUE).score /\ q = Reliability(o, FALSE).score
  OBVIOUS
<1>15. p \in Int /\ q \in Int /\ p <= q
  <2>1. CASE R = {}
    <3>1. p = 0 /\ q = 0
      BY <1>10, <1>11, <1>14, <2>1, Zenon
    <3> QED
      BY ONLY <3>1
  <2>2. CASE R # {}
    <3>1. p = Round(a + v, d) /\ q = Round(b + v, d)
      BY <1>10, <1>11, <1>14, <2>2, Zenon
    <3> QED
      BY ONLY <1>13, <2>2, <3>1
  <2> QED
    BY <2>1, <2>2, Zenon
<1> QED
  BY <1>14, <1>15, Zenon

\* Skipped tools and the cases they cost are worth no more than what was seen.
LEMMA ReliabilityLoses ==
  ASSUME NEW o, NEW u, Scorable(o), Scorable(u), Len(u.tools) = Len(o.tools),
         \A i \in 1 .. Len(o.tools) :
            /\ u.tools[i].class = o.tools[i].class
            /\ Entry(u.tools[i], TRUE) <= Entry(o.tools[i], TRUE),
         AnySkipped(u.tools)
  PROVE  /\ Reliability(u, TRUE).score \in Int
         /\ Reliability(u, TRUE).score <= Reliability(o, TRUE).score
<1>1. PICK f, g : f = Entries(u.tools, TRUE) /\ g = Entries(o.tools, TRUE)
  OBVIOUS
<1>2. PICK R : R = ReadOnlySurface(o.tools)
  OBVIOUS
<1>3. ReadOnlySurface(u.tools) = R /\ R \subseteq 1 .. Len(o.tools)
  <2>1. DOMAIN o.tools = 1 .. Len(o.tools) /\ DOMAIN u.tools = 1 .. Len(o.tools)
    BY Listed DEF Scorable
  <2> QED
    BY <1>2, <2>1 DEF ReadOnlySurface
<1>4. DOMAIN f = R /\ DOMAIN g = R /\ IsFiniteSet(R)
  BY <1>1, <1>2, <1>3, ReliabilityParts DEF Entries
<1>5. \A i \in R : f[i] \in Int /\ g[i] \in Int /\ f[i] <= g[i]
  <2> SUFFICES ASSUME NEW i \in R PROVE f[i] \in Int /\ g[i] \in Int /\ f[i] <= g[i]
    OBVIOUS
  <2>1. f[i] = Entry(u.tools[i], TRUE) /\ g[i] = Entry(o.tools[i], TRUE)
    BY <1>1, <1>2, <1>3 DEF Entries
  <2>2. Entry(u.tools[i], TRUE) \in Nat /\ Entry(o.tools[i], TRUE) \in Nat
    BY <1>2, <1>3, ReliabilityParts, Zenon
  <2>3. i \in 1 .. Len(o.tools)
    BY <1>3, Zenon
  <2>4. Entry(u.tools[i], TRUE) <= Entry(o.tools[i], TRUE)
    BY <2>3, Zenon
  <2>5. f[i] \in Nat /\ g[i] \in Nat /\ f[i] <= g[i]
    BY <2>1, <2>2, <2>4, Zenon
  <2> QED
    BY ONLY <2>5
<1>6. PICK a \in Nat, b \in Nat : a = SumFunction(f) /\ b = SumFunction(g)
  BY <1>1, ReliabilityParts
<1>7. a <= b
  BY <1>4, <1>5, <1>6, SumGrows
<1>8. PICK v \in Nat : v = SumFunction(Values(o))
  BY ValuesAre
<1>9. PICK n \in Nat, m \in 0 .. 2 : n = Cardinality(R) /\ m = Cardinality(ServerCases(o)) /\ (R # {} => n > 0)
  <2>1. Cardinality(R) \in Nat /\ (R # {} => Cardinality(R) > 0)
    BY <1>2, ReliabilityParts
  <2>2. Cardinality(ServerCases(o)) \in 0 .. 2
    BY CasesAre
  <2> QED
    BY <2>1, <2>2
<1> DEFINE d == Units * (n + m)
           e == Units * (n + 2)
<1>10. d \in Int /\ e \in Int /\ d <= e /\ (R # {} => d > 0)
  BY <1>9 DEF Units
<1>11. Cardinality(ServerCases(u)) = 2 /\ SumFunction(Values(u)) = 0
  BY CasesAre, ValuesAre
<1>12. Reliability(u, TRUE).score = IF R = {} THEN 0 ELSE Round(a, e)
  <2>1. Reliability(u, TRUE).score = IF R = {} THEN 0 ELSE Round(a + 0, e)
    BY <1>1, <1>3, <1>6, <1>9, <1>11, ReliabilityScore
  <2>2. a + 0 = a
    OBVIOUS
  <2> QED
    BY <2>1, <2>2
<1>13. Reliability(o, TRUE).score = IF R = {} THEN 0 ELSE Round(b + v, d)
  BY <1>1, <1>2, <1>6, <1>8, <1>9, ReliabilityScore
<1>14. a <= b + v /\ b + v \in Int
  BY <1>7
<1> HIDE DEF d, e
<1>15. R # {} => Round(a, e) \in Int /\ Round(a, e) <= Round(a, d) /\ Round(a, d) <= Round(b + v, d)
                 /\ Round(a, d) \in Int /\ Round(b + v, d) \in Int
  <2> SUFFICES ASSUME R # {} PROVE /\ Round(a, e) \in Int /\ Round(a, e) <= Round(a, d)
                                  /\ Round(a, d) <= Round(b + v, d)
                                  /\ Round(a, d) \in Int /\ Round(b + v, d) \in Int
    OBVIOUS
  <2>1. Round(a, e) \in Int /\ Round(a, e) <= Round(a, d)
    BY <1>10, RoundShrinks
  <2>3. d \in Int /\ d > 0 /\ a \in Int
    BY <1>10
  <2>2. /\ Round(a, d) <= Round(b + v, d)
        /\ Round(a, d) \in Int /\ Round(b + v, d) \in Int
    BY ONLY <2>3, <1>14, RoundGrows
  <2> QED
    BY <2>1, <2>2
<1>16. PICK p, q : p = Reliability(u, TRUE).score /\ q = Reliability(o, TRUE).score
  OBVIOUS
<1>17. p \in Int /\ p <= q
  <2>1. CASE R = {}
    <3>1. p = 0 /\ q = 0
      BY <1>12, <1>13, <1>16, <2>1, Zenon
    <3> QED
      BY ONLY <3>1
  <2>2. CASE R # {}
    <3>1. p = Round(a, e) /\ q = Round(b + v, d)
      BY <1>12, <1>13, <1>16, <2>2, Zenon
    <3> QED
      BY ONLY <1>15, <2>2, <3>1
  <2> QED
    BY <2>1, <2>2, Zenon
<1> QED
  BY <1>16, <1>17, Zenon

-----------------------------------------------------------------------------
(* The weighted score.                                                     *)

\* What each area scores, and what they weigh together.
Scores(o, b) == [area \in Areas |-> AreaOf(o, area, b).score]
Total(f) == Round(SumFunction([area \in Areas |-> Weight(area) * f[area]]), 100)

\* The weighted score depends on the scores of the areas only.
LEMMA TotalIs ==
  ASSUME NEW o, NEW b
  PROVE  WeightedScore(o, b) = Total(Scores(o, b))
<1>1. [area \in Areas |-> Weight(area) * AreaOf(o, area, b).score]
        = [area \in Areas |-> Weight(area) * Scores(o, b)[area]]
  BY DEF Scores
<1> QED
  BY <1>1, Zenon DEF WeightedScore, Total

\* There are finitely many areas.
LEMMA AreasAreFinite == IsFiniteSet(Areas)
<1>1. /\ IsFiniteSet({"protocol", "catalog", "context"})
      /\ IsFiniteSet({"error-honesty", "reliability", "coverage"})
  BY ThreeAreFinite
<1>2. Areas = {"protocol", "catalog", "context"} \cup {"error-honesty", "reliability", "coverage"}
  BY DEF Areas
<1> QED
  BY <1>1, <1>2, FS_Union

\* The better the areas, the better the weighted score.
LEMMA TotalGrows ==
  ASSUME NEW f, NEW g,
         \A area \in Areas : f[area] \in Int /\ g[area] \in Int /\ f[area] <= g[area]
  PROVE  Total(f) \in Int /\ Total(g) \in Int /\ Total(f) <= Total(g)
<1>1. PICK x : x = [area \in Areas |-> Weight(area) * f[area]]
  OBVIOUS
<1>2. PICK y : y = [area \in Areas |-> Weight(area) * g[area]]
  OBVIOUS
<1>3. \A area \in Areas : x[area] \in Int /\ y[area] \in Int /\ x[area] <= y[area]
  <2> SUFFICES ASSUME NEW area \in Areas
               PROVE  x[area] \in Int /\ y[area] \in Int /\ x[area] <= y[area]
    OBVIOUS
  <2>1. PICK a \in Int, b \in Int : a = f[area] /\ b = g[area] /\ a <= b
    OBVIOUS
  <2>2. Weight(area) = 20 \/ Weight(area) = 15
    BY DEF Weight
  <2>3. x[area] = Weight(area) * a /\ y[area] = Weight(area) * b
    BY <1>1, <1>2, <2>1
  <2> QED
    BY <2>1, <2>2, <2>3
<1>4. DOMAIN x = Areas /\ DOMAIN y = Areas
  BY <1>1, <1>2
<1>5. PICK a \in Int, b \in Int : a = SumFunction(x) /\ b = SumFunction(y) /\ a <= b
  BY <1>3, <1>4, AreasAreFinite, SumGrows
<1>6. 100 \in Int /\ 100 > 0
  OBVIOUS
<1>7. Round(a, 100) \in Int /\ Round(b, 100) \in Int /\ Round(a, 100) <= Round(b, 100)
  BY <1>5, <1>6, RoundGrows
<1> QED
  BY <1>1, <1>2, <1>5, <1>7 DEF Total

\* Which area scores what.
LEMMA ScoresAre ==
  ASSUME NEW o, NEW b
  PROVE  /\ Scores(o, b)["protocol"] = Protocol(o.protocol).score
         /\ Scores(o, b)["catalog"] = Catalog(o.tools).score
         /\ Scores(o, b)["context"] = Context(o.tools).score
         /\ Scores(o, b)["error-honesty"] = ErrorHonesty(o.tools).score
         /\ Scores(o, b)["reliability"] = Reliability(o, b).score
         /\ Scores(o, b)["coverage"] = Coverage(o.tools).score
  BY DEF Scores, Areas, AreaOf

\* Every area but reliability, which latency is a part of, is a number.
LEMMA ScoresAreNumbers ==
  ASSUME NEW o, Scorable(o), CurveIsPercent
  PROVE  /\ Protocol(o.protocol).score \in Int /\ Catalog(o.tools).score \in Int
         /\ Context(o.tools).score \in Int /\ ErrorHonesty(o.tools).score \in Int
         /\ Coverage(o.tools).score \in Int
<1>1. PICK n \in Nat : DOMAIN o.tools = 1 .. n
  BY Listed DEF Scorable
<1>2. ErrorHonesty(o.tools).score \in Int
  BY <1>1, HonestyLoses
<1>3. Coverage(o.tools).score \in Int
  BY <1>1, CoverageLoses
<1> QED
  BY <1>2, <1>3, ProtocolScore, CatalogIsNumber, ContextIsNumber

\* The score is at most the score without latency.
LEMMA BandedIsLess ==
  ASSUME NEW o, Scorable(o), CurveIsPercent
  PROVE  /\ WeightedScore(o, TRUE) \in Int /\ WeightedScore(o, FALSE) \in Int
         /\ WeightedScore(o, TRUE) <= WeightedScore(o, FALSE)
<1>1. PICK f, g : f = Scores(o, TRUE) /\ g = Scores(o, FALSE)
  OBVIOUS
<1>2. PICK r \in Int, s \in Int :
         r = Reliability(o, TRUE).score /\ s = Reliability(o, FALSE).score /\ r <= s
  BY ReliabilityBanded, Zenon
<1>3. PICK p \in Int, c \in Int, x \in Int, h \in Int, v \in Int :
         /\ p = Protocol(o.protocol).score /\ c = Catalog(o.tools).score
         /\ x = Context(o.tools).score /\ h = ErrorHonesty(o.tools).score
         /\ v = Coverage(o.tools).score
  BY ScoresAreNumbers
<1>4. /\ f["protocol"] = p /\ f["catalog"] = c /\ f["context"] = x
      /\ f["error-honesty"] = h /\ f["reliability"] = r /\ f["coverage"] = v
  BY <1>1, <1>2, <1>3, ScoresAre, Zenon
<1>5. /\ g["protocol"] = p /\ g["catalog"] = c /\ g["context"] = x
      /\ g["error-honesty"] = h /\ g["reliability"] = s /\ g["coverage"] = v
  BY <1>1, <1>2, <1>3, ScoresAre, Zenon
<1>6. r <= s
  BY <1>2, Zenon
<1>7. \A area \in Areas : f[area] \in Int /\ g[area] \in Int /\ f[area] <= g[area]
  BY ONLY <1>4, <1>5, <1>6, r \in Int, s \in Int, p \in Int, c \in Int, x \in Int, h \in Int,
          v \in Int DEF Areas
<1>8. Total(f) \in Int /\ Total(g) \in Int /\ Total(f) <= Total(g)
  BY <1>7, TotalGrows
<1> QED
  BY <1>1, <1>8, TotalIs, Zenon

-----------------------------------------------------------------------------
(* Observations that say the same.                                         *)

\* A function on an initial segment is a list.
LEMMA ListsAre ==
  ASSUME NEW n \in Nat, NEW s, s = [i \in 1 .. n |-> s[i]]
  PROVE  IsList(s) /\ Len(s) = n /\ (s = <<>> <=> n = 0)
<1>1. s \in [1 .. n -> {s[k] : k \in DOMAIN s}]
  OBVIOUS
<1>2. s \in Seq({s[k] : k \in DOMAIN s}) /\ Len(s) = n
  BY <1>1
<1> QED
  BY <1>2 DEF IsList

\* Lists of the same tools, as the catalog presents them.
SameCatalog(ts, us, n) ==
    /\ ts = [i \in 1 .. n |-> ts[i]] /\ us = [i \in 1 .. n |-> us[i]]
    /\ \A i \in 1 .. n : /\ us[i].class = ts[i].class /\ us[i].facts = ts[i].facts
                         /\ us[i].tokens = ts[i].tokens

\* The catalog area depends on what the catalog says of the tools.
LEMMA CatalogsAgree ==
  ASSUME NEW n \in Nat, NEW ts, NEW us, SameCatalog(ts, us, n)
  PROVE  Catalog(us).score = Catalog(ts).score
<1>1. DOMAIN ts = 1 .. n /\ DOMAIN us = 1 .. n
  BY DEF SameCatalog
<1>2. Len(us) = n /\ Len(ts) = n /\ (us = <<>> <=> ts = <<>>)
  BY ListsAre DEF SameCatalog
<1>3. ASSUME NEW i \in 1 .. n
      PROVE  EntryChecks(us[i]) = EntryChecks(ts[i]) /\ EntryPassed(us[i]) = EntryPassed(ts[i])
  <2>1. us[i].class = ts[i].class /\ us[i].facts = ts[i].facts
    BY DEF SameCatalog
  <2>2. EntryChecks(us[i]) = EntryChecks(ts[i])
    BY <2>1 DEF EntryChecks
  <2>3. EntryPassed(us[i]) = EntryPassed(ts[i])
    BY <2>1, <2>2, Zenon DEF EntryPassed
  <2> QED
    BY <2>2, <2>3
<1>4. Shares(us) = Shares(ts)
  BY <1>1, <1>3 DEF Shares
<1> QED
  BY <1>2, <1>4, CatalogScore, Zenon

\* So does the context area.
LEMMA ContextsAgree ==
  ASSUME NEW n \in Nat, NEW ts, NEW us, SameCatalog(ts, us, n)
  PROVE  Context(us).score = Context(ts).score
<1>1. DOMAIN ts = 1 .. n /\ DOMAIN us = 1 .. n /\ \A i \in 1 .. n : us[i].tokens = ts[i].tokens
  BY DEF SameCatalog
<1>2. [i \in DOMAIN us |-> us[i].tokens] = [i \in DOMAIN ts |-> ts[i].tokens]
  BY <1>1
<1>3. Tokens(us) = Tokens(ts)
  BY <1>2, Zenon DEF Tokens
<1>4. {us[i].tokens : i \in DOMAIN us} = {ts[i].tokens : i \in DOMAIN ts}
  BY <1>1
<1>5. Heaviest(us) = Heaviest(ts)
  BY <1>4, Zenon DEF Heaviest
<1> QED
  BY <1>3, <1>5, ContextIs

-----------------------------------------------------------------------------
(* Machines of any latency.                                                *)

\* Observations of the same server that differ in latency only.
Slower(o, u, n) ==
    /\ o.tools = [i \in 1 .. n |-> o.tools[i]] /\ u.tools = [i \in 1 .. n |-> u.tools[i]]
    /\ u.protocol = o.protocol /\ u["contention"] = o["contention"] /\ u["payload"] = o["payload"]
    /\ \A i \in 1 .. n :
          /\ u.tools[i].class = o.tools[i].class /\ u.tools[i].facts = o.tools[i].facts
          /\ u.tools[i].tokens = o.tools[i].tokens /\ u.tools[i].honesty = o.tools[i].honesty
          /\ u.tools[i].successes = o.tools[i].successes
          /\ u.tools[i].exercise.is = o.tools[i].exercise.is
          /\ u.tools[i].exercise.reason = o.tools[i].exercise.reason
          /\ u.tools[i].exercise.consistent = o.tools[i].exercise.consistent
          /\ u.tools[i].exercise.schema = o.tools[i].exercise.schema

\* On a slower machine, the same is observed but for latency.
LEMMA SlowedIsSlower ==
  ASSUME ObservedInv, pc = "ended", NEW ms
  PROVE  \E n \in Nat : Slower(obs, SlowedTo(ms), n)
<1>1. PICK n \in Nat : n = Len(obs.tools) /\ DOMAIN obs.tools = 1 .. n
  BY Listed DEF ObservedInv
<1>2. PICK u : u = SlowedTo(ms)
  OBVIOUS
<1>3. /\ obs = [tools |-> obs.tools, contention |-> obs.contention,
                payload |-> obs.payload, protocol |-> obs.protocol]
  BY DEF ObservedInv
<1>4. u = [obs EXCEPT !.tools = [i \in DOMAIN obs.tools |->
                                   [obs.tools[i] EXCEPT !.exercise.latency = ms]]]
  BY <1>2 DEF SlowedTo
<1>5. /\ u.tools = [i \in 1 .. n |-> [obs.tools[i] EXCEPT !.exercise.latency = ms]]
      /\ u.protocol = obs.protocol
      /\ u["contention"] = obs["contention"] /\ u["payload"] = obs["payload"]
  BY <1>1, <1>3, <1>4
<1>6. obs.tools = [i \in 1 .. n |-> obs.tools[i]]
  BY <1>1 DEF ObservedInv, IsList
<1>7. ASSUME NEW i \in 1 .. n
      PROVE  /\ u.tools[i].class = obs.tools[i].class /\ u.tools[i].facts = obs.tools[i].facts
             /\ u.tools[i].tokens = obs.tools[i].tokens /\ u.tools[i].honesty = obs.tools[i].honesty
             /\ u.tools[i].successes = obs.tools[i].successes
             /\ u.tools[i].exercise.is = obs.tools[i].exercise.is
             /\ u.tools[i].exercise.reason = obs.tools[i].exercise.reason
             /\ u.tools[i].exercise.consistent = obs.tools[i].exercise.consistent
             /\ u.tools[i].exercise.schema = obs.tools[i].exercise.schema
  <2>1. PICK t : t = obs.tools[i]
    OBVIOUS
  <2>2. PICK v : v = u.tools[i]
    OBVIOUS
  <2>3. v = [t EXCEPT !.exercise.latency = ms]
    BY <1>5, <2>1, <2>2
  <2>4. Observed(i, t)
    BY <1>1, <2>1 DEF ObservedInv
  <2>5. t = Observation(Tools[i], t.exercise, t.honesty, t.successes)
    BY <2>4 DEF Observed
  <2>6. PICK e : e = t.exercise
    OBVIOUS
  <2>7. e = [is |-> e.is, reason |-> e.reason, consistent |-> e.consistent,
             latency |-> e.latency, schema |-> e.schema]
    BY <2>4, <2>6 DEF Observed, IsExercise
  <2>8. PICK name, class, tokens, facts, refusal, count :
           t = [name |-> name, class |-> class, tokens |-> tokens, facts |-> facts,
                exercise |-> e, honesty |-> refusal, successes |-> count]
    BY <2>5, <2>6, Zenon DEF Observation
  <2>9. v = [t EXCEPT !.exercise = [e EXCEPT !.latency = ms]]
    BY <2>3, <2>6, <2>8
  <2>10. /\ v.class = t.class /\ v.facts = t.facts /\ v.tokens = t.tokens
         /\ v.honesty = t.honesty /\ v.successes = t.successes
         /\ v.exercise = [e EXCEPT !.latency = ms]
    BY <2>8, <2>9
  <2> QED
    BY <2>1, <2>2, <2>6, <2>7, <2>10
<1>8. u.tools = [i \in 1 .. n |-> u.tools[i]]
  BY <1>5
<1> QED
  BY <1>1, <1>2, <1>5, <1>6, <1>7, <1>8, ZenonT(30) DEF Slower

\* At full marks for latency, only the rest of an entry counts.
LEMMA EntryUnbanded ==
  ASSUME NEW t, NEW v, v.successes = t.successes, v.exercise.is = t.exercise.is,
         v.exercise.consistent = t.exercise.consistent, v.exercise.schema = t.exercise.schema
  PROVE  Entry(v, FALSE) = Entry(t, FALSE)
<1>1. PICK d, e : d = t.exercise /\ e = v.exercise
  OBVIOUS
<1>2. PICK n \in 2 .. 3 : n = IF d.schema = "none" THEN 2 ELSE 3
  OBVIOUS
<1>3. PICK p, q : p = Parts(d, FALSE) /\ q = Parts(e, FALSE)
  OBVIOUS
<1>4. /\ DOMAIN p = 1 .. n /\ p[1].score = Percent(d.consistent) /\ p[2].score = 100
      /\ d.schema # "none" => p[3].score = Percent(d.schema = "kept")
  <2>1. Len(p) = IF d.schema = "none" THEN 2 ELSE 3
    BY <1>3, PartsAre, Zenon
  <2>2. /\ DOMAIN p = 1 .. Len(p) /\ p[1].score = Percent(d.consistent) /\ p[2].score = 100
        /\ d.schema # "none" => p[3].score = Percent(d.schema = "kept")
    BY <1>3, PartsAre, Zenon
  <2> QED
    BY <1>2, <2>1, <2>2
<1>5. /\ DOMAIN q = 1 .. n /\ q[1].score = Percent(d.consistent) /\ q[2].score = 100
      /\ d.schema # "none" => q[3].score = Percent(d.schema = "kept")
  <2>1. Len(q) = IF e.schema = "none" THEN 2 ELSE 3
    BY <1>3, PartsAre, Zenon
  <2>2. /\ DOMAIN q = 1 .. Len(q) /\ q[1].score = Percent(e.consistent) /\ q[2].score = 100
        /\ e.schema # "none" => q[3].score = Percent(e.schema = "kept")
    BY <1>3, PartsAre, Zenon
  <2>3. e.consistent = d.consistent /\ e.schema = d.schema
    BY <1>1
  <2> QED
    BY <1>2, <2>1, <2>2, <2>3
<1>6. \A k \in 1 .. n : p[k].score = q[k].score
  <2> SUFFICES ASSUME NEW k \in 1 .. n PROVE p[k].score = q[k].score
    OBVIOUS
  <2>1. k = 1 \/ k = 2 \/ (k = 3 /\ d.schema # "none")
    BY <1>2
  <2> QED
    BY <1>4, <1>5, <2>1
<1>7. [k \in DOMAIN p |-> p[k].score] = [k \in DOMAIN q |-> q[k].score]
  BY <1>4, <1>5, <1>6
<1>8. PartScores(d, FALSE) = PartScores(e, FALSE)
  BY <1>3, <1>7, Zenon DEF PartScores
<1>9. Exercised(v) <=> Exercised(t)
  BY DEF Exercised
<1>10. PICK a, b : a = Entry(t, FALSE) /\ b = Entry(v, FALSE)
  OBVIOUS
<1>11. PICK s : s = SumFunction(PartScores(d, FALSE))
  OBVIOUS
<1>12. a = IF ~Exercised(t) THEN 0
           ELSE (Units * t.successes * s) \div (3 * (IF d.schema = "none" THEN 2 ELSE 3))
  BY <1>1, <1>10, <1>11, EntryIs, Zenon
<1>13. b = IF ~Exercised(v) THEN 0
           ELSE (Units * v.successes * s) \div (3 * (IF e.schema = "none" THEN 2 ELSE 3))
  BY <1>1, <1>8, <1>10, <1>11, EntryIs, Zenon
<1>14. e.schema = d.schema
  BY <1>1
<1>15. b = IF ~Exercised(t) THEN 0
           ELSE (Units * t.successes * s) \div (3 * (IF d.schema = "none" THEN 2 ELSE 3))
  BY <1>9, <1>13, <1>14, Zenon
<1> QED
  BY <1>10, <1>12, <1>15, Zenon

\* Without the band, no area depends on latency.
LEMMA SlowerAlike ==
  ASSUME NEW o, NEW u, NEW n \in Nat, Slower(o, u, n)
  PROVE  /\ Protocol(u.protocol).score = Protocol(o.protocol).score
         /\ Catalog(u.tools).score = Catalog(o.tools).score
         /\ Context(u.tools).score = Context(o.tools).score
         /\ ErrorHonesty(u.tools).score = ErrorHonesty(o.tools).score
         /\ Coverage(u.tools).score = Coverage(o.tools).score
         /\ Reliability(u, FALSE).score = Reliability(o, FALSE).score
<1>1. DOMAIN o.tools = 1 .. n /\ DOMAIN u.tools = 1 .. n /\ u.protocol = o.protocol
  BY DEF Slower
<1>2. SameCatalog(o.tools, u.tools, n)
  BY DEF Slower, SameCatalog
<1>3. Catalog(u.tools).score = Catalog(o.tools).score /\ Context(u.tools).score = Context(o.tools).score
  BY <1>2, CatalogsAgree, ContextsAgree
<1>4. ErrorHonesty(u.tools).score = ErrorHonesty(o.tools).score
  <2>1. JudgedOf(u.tools) = JudgedOf(o.tools)
    BY <1>1 DEF Slower, JudgedOf
  <2>2. HonestOf(u.tools) = HonestOf(o.tools)
    BY <1>1, <2>1 DEF Slower, HonestOf, JudgedOf
  <2> QED
    BY <2>1, <2>2, HonestyScore
<1>5. PICK R : R = ReadOnlySurface(o.tools) /\ R \subseteq 1 .. n
  BY <1>1 DEF ReadOnlySurface
<1>6. ReadOnlySurface(u.tools) = R
  BY <1>1, <1>5 DEF Slower, ReadOnlySurface
<1>7. Coverage(u.tools).score = Coverage(o.tools).score
  <2>1. ExercisedOf(u.tools) = ExercisedOf(o.tools)
    BY <1>5, <1>6 DEF Slower, ExercisedOf
  <2> QED
    BY <1>5, <1>6, <2>1, CoverageScore
<1>8. Entries(u.tools, FALSE) = Entries(o.tools, FALSE)
  <2>1. ASSUME NEW i \in R PROVE Entry(u.tools[i], FALSE) = Entry(o.tools[i], FALSE)
    <3>1. /\ u.tools[i].successes = o.tools[i].successes
          /\ u.tools[i].exercise.is = o.tools[i].exercise.is
          /\ u.tools[i].exercise.consistent = o.tools[i].exercise.consistent
          /\ u.tools[i].exercise.schema = o.tools[i].exercise.schema
      BY <1>5 DEF Slower
    <3> QED
      BY <3>1, EntryUnbanded
  <2>2. PICK f, g : f = Entries(u.tools, FALSE) /\ g = Entries(o.tools, FALSE)
    OBVIOUS
  <2>3. f = [i \in R |-> Entry(u.tools[i], FALSE)]
    BY <1>6, <2>2, Zenon DEF Entries
  <2>4. g = [i \in R |-> Entry(o.tools[i], FALSE)]
    BY <1>5, <2>2, Zenon DEF Entries
  <2>5. f = g
    BY <2>1, <2>3, <2>4, Zenon
  <2> QED
    BY <2>2, <2>5, Zenon
<1>9. ServerCases(u) = ServerCases(o)
  <2>1. AnySkipped(u.tools) <=> AnySkipped(o.tools)
    BY <1>1, SMTT(30) DEF Slower, AnySkipped, Skipped
  <2>2. \A c \in {"contention", "payload"} : u[c] = o[c]
    BY DEF Slower
  <2> QED
    BY <2>1, <2>2 DEF ServerCases
<1>10. Values(u) = Values(o)
  BY <1>9 DEF Values
<1>11. PICK x, y : x = Reliability(u, FALSE).score /\ y = Reliability(o, FALSE).score
  OBVIOUS
<1>12. PICK s : s = SumFunction(Entries(o.tools, FALSE))
  OBVIOUS
<1>13. x = IF R = {} THEN 0
           ELSE Round(s + SumFunction(Values(o)),
                      Units * (Cardinality(R) + Cardinality(ServerCases(o))))
  BY <1>6, <1>8, <1>9, <1>10, <1>11, <1>12, ReliabilityScore, Zenon
<1>14. y = IF R = {} THEN 0
           ELSE Round(s + SumFunction(Values(o)),
                      Units * (Cardinality(R) + Cardinality(ServerCases(o))))
  BY <1>5, <1>11, <1>12, ReliabilityScore, Zenon
<1>15. Reliability(u, FALSE).score = Reliability(o, FALSE).score
  BY <1>11, <1>13, <1>14, Zenon
<1> QED
  BY <1>1, <1>3, <1>4, <1>7, <1>15, Zenon

\* What readiness is made of.
LEMMA FoldIs ==
  ASSUME NEW o
  PROVE  /\ Fold(o).score = WeightedScore(o, TRUE)
         /\ Fold(o).withoutLatency = WeightedScore(o, FALSE)
         /\ Fold(o).reliabilityWithoutLatency = Reliability(o, FALSE).score
         /\ \A area \in Areas : Fold(o).areas[area].score = Scores(o, TRUE)[area]
<1>1. PICK s, w, r, m : /\ s = WeightedScore(o, TRUE) /\ w = WeightedScore(o, FALSE)
                        /\ r = Reliability(o, FALSE).score
                        /\ m = [area \in Areas |-> AreaOf(o, area, TRUE)]
  OBVIOUS
<1>2. PICK x : x = Fold(o)
  OBVIOUS
<1>3. x = [score |-> s, withoutLatency |-> w, areas |-> m, reliabilityWithoutLatency |-> r]
  BY <1>1, <1>2, Zenon DEF Fold
<1>4. x.score = s /\ x.withoutLatency = w /\ x.reliabilityWithoutLatency = r /\ x.areas = m
  BY ONLY <1>3
<1>5. \A area \in Areas : m[area].score = Scores(o, TRUE)[area]
  BY <1>1, Zenon DEF Scores
<1> QED
  BY <1>1, <1>2, <1>4, <1>5, Zenon

\* What a battery that ended has observed can be scored.
LEMMA ObservedScorable ==
  ASSUME ObservedInv, pc = "ended"
  PROVE  Scorable(obs)
<1>1. Len(obs.tools) = Len(Tools) /\ IsList(obs.tools) /\ IsList(obs.protocol)
  BY DEF ObservedInv, AfterTools
<1>2. /\ Tools \in Seq({Tools[i] : i \in DOMAIN Tools})
      /\ \A i \in DOMAIN Tools : Tools[i].tokens \in Nat
  BY StandardAssumption DEF ObservedInv, Tools
<1>3. DOMAIN Tools = 1 .. Len(Tools)
  BY <1>2
<1>4. ASSUME NEW i \in 1 .. Len(obs.tools)
      PROVE  obs.tools[i].successes \in Nat /\ obs.tools[i].tokens \in Nat
  <2>1. PICK o : o = obs.tools[i]
    OBVIOUS
  <2>2. Observed(i, o)
    BY <2>1 DEF ObservedInv
  <2>3. o.tokens = Tools[i].tokens
    BY <2>2 DEF Observed, Observation
  <2>4. o.successes \in Nat
    BY <2>2 DEF Observed
  <2> QED
    BY <1>1, <1>2, <1>3, <2>1, <2>3, <2>4
<1> QED
  BY <1>1, <1>4 DEF Scorable

\* Without the band, what a slower server scores is what this one does.
LEMMA SlowedScoresAlike ==
  ASSUME NEW o, NEW u, NEW n \in Nat, Slower(o, u, n)
  PROVE  /\ WeightedScore(u, FALSE) = WeightedScore(o, FALSE)
         /\ Reliability(u, FALSE).score = Reliability(o, FALSE).score
         /\ \A area \in Areas \ {"reliability"} : Scores(u, TRUE)[area] = Scores(o, TRUE)[area]
<1>1. PICK p, c, x, h, v, r :
         /\ p = Protocol(o.protocol).score /\ c = Catalog(o.tools).score
         /\ x = Context(o.tools).score /\ h = ErrorHonesty(o.tools).score
         /\ v = Coverage(o.tools).score /\ r = Reliability(o, FALSE).score
  OBVIOUS
<1>2. /\ p = Protocol(u.protocol).score /\ c = Catalog(u.tools).score
      /\ x = Context(u.tools).score /\ h = ErrorHonesty(u.tools).score
      /\ v = Coverage(u.tools).score /\ r = Reliability(u, FALSE).score
  BY <1>1, SlowerAlike, Zenon
<1>3. PICK f, g : f = Scores(o, FALSE) /\ g = Scores(u, FALSE)
  OBVIOUS
<1>4. /\ f["protocol"] = p /\ f["catalog"] = c /\ f["context"] = x
      /\ f["error-honesty"] = h /\ f["reliability"] = r /\ f["coverage"] = v
  BY <1>1, <1>3, ScoresAre, Zenon
<1>5. /\ g["protocol"] = p /\ g["catalog"] = c /\ g["context"] = x
      /\ g["error-honesty"] = h /\ g["reliability"] = r /\ g["coverage"] = v
  BY <1>2, <1>3, ScoresAre, Zenon
<1>6. \A area \in Areas : f[area] = g[area]
  BY ONLY <1>4, <1>5 DEF Areas
<1>7. [area \in Areas |-> Weight(area) * f[area]] = [area \in Areas |-> Weight(area) * g[area]]
  BY <1>6, Zenon
<1>8. Total(f) = Total(g)
  BY <1>7, Zenon DEF Total
<1>9. WeightedScore(u, FALSE) = WeightedScore(o, FALSE)
  BY <1>3, <1>8, TotalIs, Zenon
<1>10. PICK k, l : k = Scores(o, TRUE) /\ l = Scores(u, TRUE)
  OBVIOUS
<1>11. /\ k["protocol"] = p /\ k["catalog"] = c /\ k["context"] = x
       /\ k["error-honesty"] = h /\ k["coverage"] = v
  BY <1>1, <1>10, ScoresAre, Zenon
<1>12. /\ l["protocol"] = p /\ l["catalog"] = c /\ l["context"] = x
       /\ l["error-honesty"] = h /\ l["coverage"] = v
  BY <1>2, <1>10, ScoresAre, Zenon
<1>13. \A area \in Areas \ {"reliability"} : l[area] = k[area]
  BY ONLY <1>11, <1>12 DEF Areas
<1> QED
  BY <1>1, <1>2, <1>9, <1>10, <1>13, Zenon

\* What a machine of any latency scores is not less.
LEMMA FloorsAreMet ==
  ASSUME ObservedInv, pc = "ended", CurveIsPercent, NEW ms
  PROVE  Shortfalls(FloorsOf(Fold(obs)), Fold(SlowedTo(ms))) = {}
<1>1. PICK n \in Nat : Slower(obs, SlowedTo(ms), n)
  BY SlowedIsSlower
<1>2. PICK o, u : o = obs /\ u = SlowedTo(ms)
  OBVIOUS
<1>3. PICK R, S : R = Fold(o) /\ S = Fold(u)
  OBVIOUS
<1>4. Scorable(o)
  BY <1>2, ObservedScorable
<1>5. PICK w \in Int : w = WeightedScore(o, FALSE)
  BY <1>4, BandedIsLess, Zenon
<1>6. PICK r \in Int : r = Reliability(o, FALSE).score
  BY <1>4, ReliabilityBanded, Zenon
<1>7. R.withoutLatency = w /\ R.reliabilityWithoutLatency = r
  BY <1>3, <1>5, <1>6, FoldIs, Zenon
<1>8. S.withoutLatency = w /\ S.reliabilityWithoutLatency = r
  BY <1>1, <1>2, <1>3, <1>5, <1>6, FoldIs, SlowedScoresAlike, ZenonT(30)
<1>9. PICK f : f = Scores(o, TRUE)
  OBVIOUS
<1>10. \A area \in Areas \ {"reliability"} : f[area] \in Int
  <2>1. PICK p \in Int, c \in Int, x \in Int, h \in Int, v \in Int :
           /\ p = Protocol(o.protocol).score /\ c = Catalog(o.tools).score
           /\ x = Context(o.tools).score /\ h = ErrorHonesty(o.tools).score
           /\ v = Coverage(o.tools).score
    BY <1>4, ScoresAreNumbers
  <2>2. /\ f["protocol"] = p /\ f["catalog"] = c /\ f["context"] = x
        /\ f["error-honesty"] = h /\ f["coverage"] = v
    BY <1>9, <2>1, ScoresAre, Zenon
  <2> QED
    BY ONLY <2>2, p \in Int, c \in Int, x \in Int, h \in Int, v \in Int DEF Areas
<1>11. \A area \in Areas \ {"reliability"} :
          R.areas[area].score = f[area] /\ S.areas[area].score = f[area]
  <2>1. \A area \in Areas : R.areas[area].score = f[area]
    BY <1>3, <1>9, FoldIs, Zenon
  <2>2. \A area \in Areas : S.areas[area].score = Scores(u, TRUE)[area]
    BY <1>3, FoldIs, Zenon
  <2>3. \A area \in Areas \ {"reliability"} : Scores(u, TRUE)[area] = f[area]
    BY <1>1, <1>2, <1>9, SlowedScoresAlike, Zenon
  <2> QED
    BY <2>1, <2>2, <2>3, Zenon
<1>12. PICK F : F = FloorsOf(R)
  OBVIOUS
<1>13. /\ F.score = {w} /\ F.excludeLatency
       /\ F.areas = [area \in Areas |-> IF area = "reliability" THEN r ELSE R.areas[area].score]
  BY <1>7, <1>12 DEF FloorsOf
<1>14. ASSUME NEW area \in Areas PROVE ~(FloorSubject(F, S, area) < F.areas[area])
  <2>1. CASE area = "reliability"
    <3>1. FloorSubject(F, S, area) = r /\ F.areas[area] = r
      BY <1>8, <1>13, <2>1 DEF FloorSubject
    <3> QED
      BY <3>1
  <2>2. CASE area # "reliability"
    <3>1. FloorSubject(F, S, area) = S.areas[area].score /\ F.areas[area] = R.areas[area].score
      BY <1>13, <2>2 DEF FloorSubject
    <3>2. PICK x \in Int : S.areas[area].score = x /\ R.areas[area].score = x
      BY <1>10, <1>11, <2>2
    <3> QED
      BY <3>1, <3>2
  <2> QED
    BY <2>1, <2>2
<1>15. DOMAIN F.areas = Areas
  BY <1>13
<1>16. {area \in DOMAIN F.areas : FloorSubject(F, S, area) < F.areas[area]} = {}
  BY <1>14, <1>15, Zenon
<1>17. {s \in F.score : (IF F.excludeLatency THEN S.withoutLatency ELSE S.score) < s} = {}
  BY <1>8, <1>13
<1>18. Shortfalls(F, S) = {}
  BY <1>16, <1>17 DEF Shortfalls
<1> QED
  BY <1>2, <1>3, <1>12, <1>18

\* The observations of a battery are enough for its score not to depend on the
\* machine.
LEMMA LatencyExcluded ==
  ASSUME ObservedInv, CurveIsPercent
  PROVE  MachineIndependent
<1> SUFFICES ASSUME pc = "ended"
             PROVE  /\ Fold(obs).score <= Fold(obs).withoutLatency
                    /\ \A ms \in Latencies :
                          Shortfalls(FloorsOf(Fold(obs)), Fold(SlowedTo(ms))) = {}
  BY DEF MachineIndependent
<1>1. Scorable(obs)
  BY ObservedScorable
<1>2. WeightedScore(obs, TRUE) <= WeightedScore(obs, FALSE)
  BY <1>1, BandedIsLess, Zenon
<1>3. Fold(obs).score <= Fold(obs).withoutLatency
  BY <1>2, FoldIs, Zenon
<1> QED
  BY <1>3, FloorsAreMet

-----------------------------------------------------------------------------
(* Skipped tools.                                                          *)

\* Observations in which some tools were skipped that were not in others.
SomeSkipped(o, u, n) ==
    /\ o.tools = [i \in 1 .. n |-> o.tools[i]] /\ u.tools = [i \in 1 .. n |-> u.tools[i]]
    /\ u.protocol = o.protocol
    /\ \A i \in 1 .. n :
          /\ u.tools[i].class = o.tools[i].class /\ u.tools[i].facts = o.tools[i].facts
          /\ u.tools[i].tokens = o.tools[i].tokens
          /\ u.tools[i].honesty # "none" <=> o.tools[i].honesty # "none"
          /\ u.tools[i].honesty = "honest" => o.tools[i].honesty = "honest"
          /\ u.tools[i].successes \in Nat
          /\ u.tools[i].successes > 0 => o.tools[i].successes > 0
          /\ u.tools[i] = o.tools[i] \/ ~Exercised(u.tools[i])

\* What would have been observed with some of the tools skipped.
LEMMA SkippingSkips ==
  ASSUME ObservedInv, pc = "ended", NEW names
  PROVE  \E n \in Nat : SomeSkipped(obs, Skipping(names), n)
<1>1. PICK n \in Nat : n = Len(obs.tools) /\ DOMAIN obs.tools = 1 .. n
  BY Listed DEF ObservedInv
<1>2. Len(Tools) = n /\ DOMAIN Tools = 1 .. n
  <2>1. Tools \in Seq({Tools[i] : i \in DOMAIN Tools})
    BY StandardAssumption DEF ObservedInv, Tools
  <2>2. Len(Tools) = n
    BY <1>1 DEF ObservedInv, AfterTools
  <2> QED
    BY <2>1, <2>2
<1>3. PICK u : u = Skipping(names)
  OBVIOUS
<1>4. /\ u.tools = [i \in 1 .. n |->
             IF Tools[i].name \in names /\ Callable(Tools[i]) /\ Tools[i].synthesizable
               THEN SkippedObservation(Tools[i]) ELSE obs.tools[i]]
      /\ u.protocol = obs.protocol
  BY <1>2, <1>3 DEF Skipping
<1>5. obs.tools = [i \in 1 .. n |-> obs.tools[i]]
  BY <1>1 DEF ObservedInv, IsList
<1>6. u.tools = [i \in 1 .. n |-> u.tools[i]]
  BY <1>4
<1>7. ASSUME NEW i \in 1 .. n
      PROVE  /\ u.tools[i].class = obs.tools[i].class /\ u.tools[i].facts = obs.tools[i].facts
             /\ u.tools[i].tokens = obs.tools[i].tokens
             /\ u.tools[i].honesty # "none" <=> obs.tools[i].honesty # "none"
             /\ u.tools[i].honesty = "honest" => obs.tools[i].honesty = "honest"
             /\ u.tools[i].successes \in Nat
             /\ u.tools[i].successes > 0 => obs.tools[i].successes > 0
             /\ u.tools[i] = obs.tools[i] \/ ~Exercised(u.tools[i])
  <2>1. PICK t, v : t = obs.tools[i] /\ v = u.tools[i]
    OBVIOUS
  <2>2. Observed(i, t)
    BY <1>1, <2>1 DEF ObservedInv
  <2>3. t.successes \in Nat /\ (t.honesty # "none" <=> Judged(i))
    BY <2>2 DEF Observed
  <2>4. CASE v = t
    BY <2>1, <2>3, <2>4
  <2>5. CASE Callable(Tools[i]) /\ v = SkippedObservation(Tools[i])
    <3>1. /\ v.class = Class(Tools[i]) /\ v.facts = Tools[i].facts /\ v.tokens = Tools[i].tokens
          /\ v.honesty = SkippedHonesty(Tools[i]) /\ v.successes = 0
          /\ v.exercise = NotExercised("coverage-skipped")
      BY <2>5 DEF SkippedObservation, Observation
    <3>2. /\ t.class = Class(Tools[i]) /\ t.facts = Tools[i].facts /\ t.tokens = Tools[i].tokens
      BY <2>2 DEF Observed, Observation
    <3>3. /\ v.honesty # "none" <=> t.honesty # "none"
          /\ v.honesty # "honest"
      BY <2>3, <2>5, <3>1 DEF SkippedHonesty, Judged
    <3>4. ~Exercised(v)
      BY <3>1 DEF Exercised, NotExercised
    <3> QED
      BY <2>1, <3>1, <3>2, <3>3, <3>4
  <2>6. v = t \/ (Callable(Tools[i]) /\ v = SkippedObservation(Tools[i]))
    BY <1>4, <2>1
  <2> QED
    BY <2>4, <2>5, <2>6
<1> QED
  BY <1>3, <1>4, <1>5, <1>6, <1>7 DEF SomeSkipped

\* That can be scored too.
LEMMA SkippedScorable ==
  ASSUME NEW o, NEW u, NEW n \in Nat, Scorable(o), SomeSkipped(o, u, n)
  PROVE  Scorable(u) /\ Len(u.tools) = n /\ Len(o.tools) = n
<1>1. IsList(u.tools) /\ Len(u.tools) = n
  BY ListsAre DEF SomeSkipped
<1>2. Len(o.tools) = n
  BY ListsAre DEF SomeSkipped
<1>3. u.protocol = o.protocol
  BY DEF SomeSkipped
<1>4. ASSUME NEW i \in 1 .. n PROVE u.tools[i].successes \in Nat /\ u.tools[i].tokens \in Nat
  BY <1>2 DEF SomeSkipped, Scorable
<1> QED
  BY <1>1, <1>2, <1>3, <1>4 DEF Scorable

\* With a tool skipped no area scores more.
LEMMA SkippingLoses ==
  ASSUME NEW o, NEW u, NEW n \in Nat, Scorable(o), SomeSkipped(o, u, n), AnySkipped(u.tools),
         CurveIsPercent
  PROVE  WeightedScore(u, TRUE) <= WeightedScore(o, TRUE)
<1>1. Scorable(u) /\ Len(u.tools) = n /\ Len(o.tools) = n
  BY SkippedScorable
<1>2. SameCatalog(o.tools, u.tools, n) /\ DOMAIN o.tools = 1 .. n /\ DOMAIN u.tools = 1 .. n
  BY DEF SomeSkipped, SameCatalog
<1>3. PICK p \in Int, c \in Int, x \in Int, h \in Int, v \in Int :
         /\ p = Protocol(o.protocol).score /\ c = Catalog(o.tools).score
         /\ x = Context(o.tools).score /\ h = ErrorHonesty(o.tools).score
         /\ v = Coverage(o.tools).score
  BY ScoresAreNumbers
<1>4. p = Protocol(u.protocol).score /\ c = Catalog(u.tools).score /\ x = Context(u.tools).score
  BY <1>2, <1>3, CatalogsAgree, ContextsAgree DEF SomeSkipped
<1>5. PICK k \in Int : k = ErrorHonesty(u.tools).score /\ k <= h
  <2>1. \A i \in 1 .. n : /\ u.tools[i].honesty # "none" <=> o.tools[i].honesty # "none"
                          /\ u.tools[i].honesty = "honest" => o.tools[i].honesty = "honest"
    BY DEF SomeSkipped
  <2>2. /\ ErrorHonesty(u.tools).score \in Int
        /\ ErrorHonesty(u.tools).score <= ErrorHonesty(o.tools).score
    BY <1>2, <2>1, HonestyLoses
  <2> QED
    BY <1>3, <2>2
<1>6. PICK w \in Int : w = Coverage(u.tools).score /\ w <= v
  <2>1. \A i \in 1 .. n : /\ u.tools[i].class = o.tools[i].class
                          /\ u.tools[i].successes > 0 => o.tools[i].successes > 0
    BY DEF SomeSkipped
  <2>2. Coverage(u.tools).score \in Int /\ Coverage(u.tools).score <= Coverage(o.tools).score
    BY <1>2, <2>1, CoverageLoses
  <2> QED
    BY <1>3, <2>2
<1>7. PICK s \in Int : s = Reliability(o, TRUE).score
  BY ReliabilityBanded, Zenon
<1>8. PICK r \in Int : r = Reliability(u, TRUE).score /\ r <= s
  <2>1. ASSUME NEW i \in 1 .. Len(o.tools)
        PROVE  /\ u.tools[i].class = o.tools[i].class
               /\ Entry(u.tools[i], TRUE) <= Entry(o.tools[i], TRUE)
    <3>1. i \in 1 .. n
      BY <1>1
    <3>2. /\ u.tools[i].class = o.tools[i].class /\ o.tools[i].successes \in Nat
          /\ u.tools[i] = o.tools[i] \/ ~Exercised(u.tools[i])
      BY <1>1, <3>1 DEF SomeSkipped, Scorable
    <3>3. PICK a \in Nat : a = Entry(o.tools[i], TRUE)
      BY <3>2, EntryGrows, Zenon
    <3>4. PICK b : b = Entry(u.tools[i], TRUE)
      OBVIOUS
    <3>5. CASE u.tools[i] = o.tools[i]
      <4>1. b = a
        BY <3>3, <3>4, <3>5, Zenon
      <4>2. b <= a
        BY ONLY <4>1, a \in Nat
      <4> QED
        BY <3>2, <3>3, <3>4, <4>2, Zenon
    <3>6. CASE ~Exercised(u.tools[i])
      <4>1. b = 0
        BY <3>4, <3>6, EntryIs, Zenon
      <4>2. b <= a
        BY ONLY <4>1, a \in Nat
      <4> QED
        BY <3>2, <3>3, <3>4, <4>2, Zenon
    <3> QED
      BY <3>2, <3>5, <3>6, Zenon
  <2>2. Len(u.tools) = Len(o.tools)
    BY <1>1
  <2>3. /\ Reliability(u, TRUE).score \in Int
        /\ Reliability(u, TRUE).score <= Reliability(o, TRUE).score
    BY <1>1, <2>1, <2>2, ReliabilityLoses, Zenon
  <2> QED
    BY <1>7, <2>3, Zenon
<1>9. PICK f, g : f = Scores(u, TRUE) /\ g = Scores(o, TRUE)
  OBVIOUS
<1>10. /\ f["protocol"] = p /\ f["catalog"] = c /\ f["context"] = x
       /\ f["error-honesty"] = k /\ f["reliability"] = r /\ f["coverage"] = w
  BY <1>4, <1>5, <1>6, <1>8, <1>9, ScoresAre, Zenon
<1>11. /\ g["protocol"] = p /\ g["catalog"] = c /\ g["context"] = x
       /\ g["error-honesty"] = h /\ g["reliability"] = s /\ g["coverage"] = v
  BY <1>3, <1>7, <1>9, ScoresAre, Zenon
<1>12. r <= s /\ k <= h /\ w <= v
  BY <1>5, <1>6, <1>8, Zenon
<1>13. \A area \in Areas : f[area] \in Int /\ g[area] \in Int /\ f[area] <= g[area]
  BY ONLY <1>10, <1>11, <1>12, p \in Int, c \in Int, x \in Int, k \in Int, h \in Int,
          r \in Int, s \in Int, w \in Int, v \in Int DEF Areas
<1>14. Total(f) <= Total(g)
  BY <1>13, TotalGrows
<1> QED
  BY <1>9, <1>14, TotalIs, Zenon

\* The observations of a battery are enough for skipping not to pay.
LEMMA SkippedNeverPays ==
  ASSUME ObservedInv, CurveIsPercent
  PROVE  SkippingNeverPays
<1> SUFFICES ASSUME pc = "ended", NEW names, AnySkipped(Skipping(names).tools)
             PROVE  Fold(Skipping(names)).score <= Fold(obs).score
  BY DEF SkippingNeverPays
<1>1. PICK n \in Nat : SomeSkipped(obs, Skipping(names), n)
  BY SkippingSkips
<1>2. Scorable(obs)
  BY ObservedScorable
<1>3. PICK o, u : o = obs /\ u = Skipping(names)
  OBVIOUS
<1>4. WeightedScore(u, TRUE) <= WeightedScore(o, TRUE)
  BY <1>1, <1>2, <1>3, SkippingLoses, Zenon
<1> QED
  BY <1>3, <1>4, FoldIs, Zenon

\* Every reachable state of the battery has observed the tools in the order of
\* the catalog, each of them as its catalog entry says.
THEOREM BatteryObserves == Spec => []ObservedInv
<1> QED
  BY InitObserved, NextObserved, PTL DEF Spec

\* For every catalog, server and course of the battery: what the score is
\* without latency does not depend on it, and is at least the score.
THEOREM ScoreIsMachineIndependent ==
  ASSUME CurveIsPercent
  PROVE  Spec => []MachineIndependent
<1>1. ObservedInv => MachineIndependent
  BY LatencyExcluded
<1> QED
  BY <1>1, BatteryObserves, PTL

\* For every catalog, server and course of the battery: with any of the tools
\* it called skipped, the score would have been no higher.
THEOREM SkippingIsNoGain ==
  ASSUME CurveIsPercent
  PROVE  Spec => []SkippingNeverPays
<1>1. ObservedInv => SkippingNeverPays
  BY SkippedNeverPays
<1> QED
  BY <1>1, BatteryObserves, PTL

\* A command that runs the battery runs it as it is.
THEOREM CommandRunsBattery == CommandSpec => Spec
<1>1. CommandInit => Init
  BY DEF CommandInit
<1>2. [CommandNext]_<<vars, commandVars>> => [Next]_vars
  BY DEF CommandNext, Declare, DeclareFails, Gate, Battery, Misused, ReportRun
<1> QED
  BY <1>1, <1>2, PTL DEF CommandSpec, Spec
=============================================================================
