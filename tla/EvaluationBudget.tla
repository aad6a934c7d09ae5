-------------------------- MODULE EvaluationBudget --------------------------
(* The request counter the connections and threads of one evaluation share   *)
(* (src/src/evaluation_budget.rs). Every access is Relaxed: a plain load may *)
(* return any value the thread has not seen superseded, and only the         *)
(* compare-exchange acts on the counter's latest value.                      *)
EXTENDS Naturals

CONSTANTS
    Threads,       \* the threads that send requests
    MaxRequests    \* requests of one evaluation
ASSUME BudgetAssumption == MaxRequests \in Nat

VARIABLES
    requests,   \* State::requests
    denied,     \* State::denied
    known,      \* known[t]: the last denied t read or wrote
    pc,         \* pc[t]: where t is in acquire
    count,      \* count[t]: the last value of requests that t has seen
    sent        \* how many requests went out
vars == <<requests, denied, known, pc, count, sent>>

Init ==
    /\ requests = 0 /\ sent = 0 /\ denied = FALSE
    /\ known = [t \in Threads |-> FALSE]
    /\ pc = [t \in Threads |-> "idle"]
    /\ count = [t \in Threads |-> 0]

\* Budget::check. The flag only ever rises, and a stale load misses it.
Check(t) ==
    /\ pc[t] = "idle"
    /\ \E seen \in {denied, known[t]} :
        /\ known' = [known EXCEPT ![t] = seen]
        /\ pc' = [pc EXCEPT ![t] = IF seen THEN "refused" ELSE "load"]
    /\ UNCHANGED <<requests, denied, count, sent>>

Load(t) ==
    /\ pc[t] = "load"
    /\ \E seen \in count[t] .. requests : count' = [count EXCEPT ![t] = seen]
    /\ pc' = [pc EXCEPT ![t] = "loop"]
    /\ UNCHANGED <<requests, denied, known, sent>>

Exceeded(t) ==
    /\ pc[t] = "loop" /\ count[t] >= MaxRequests
    /\ denied' = TRUE
    /\ known' = [known EXCEPT ![t] = TRUE]
    /\ pc' = [pc EXCEPT ![t] = "refused"]
    /\ UNCHANGED <<requests, count, sent>>

\* (Mutant of CompareExchange.) A load, and a store that trusts it.
LoadThenStore(t) ==
    /\ pc[t] = "loop" /\ count[t] < MaxRequests
    /\ requests' = count[t] + 1
    /\ count' = [count EXCEPT ![t] = requests']
    /\ pc' = [pc EXCEPT ![t] = "idle"]
    /\ sent' = sent + 1
    /\ UNCHANGED <<denied, known>>

\* Reserves the request, or (also spuriously: it is the weak form) reloads.
CompareExchange(t) ==
    /\ pc[t] = "loop" /\ count[t] < MaxRequests
    /\ \/ /\ count[t] = requests
          /\ requests' = requests + 1
          /\ count' = [count EXCEPT ![t] = requests + 1]
          /\ pc' = [pc EXCEPT ![t] = "idle"]
          /\ sent' = sent + 1
       \/ /\ count' = [count EXCEPT ![t] = requests]
          /\ UNCHANGED <<requests, pc, sent>>
    /\ UNCHANGED <<denied, known>>

\* A refused evaluation may still be asked for requests, which fail.
Again(t) ==
    /\ pc[t] = "refused"
    /\ pc' = [pc EXCEPT ![t] = "idle"]
    /\ UNCHANGED <<requests, denied, known, count, sent>>

Next == \E t \in Threads :
    \/ Check(t) \/ Load(t) \/ Exceeded(t) \/ CompareExchange(t) \/ Again(t)
Spec == Init /\ [][Next]_vars
-----------------------------------------------------------------------------
TypeOK ==
    /\ requests \in Nat /\ sent \in Nat /\ denied \in BOOLEAN
    /\ known \in [Threads -> BOOLEAN]
    /\ pc \in [Threads -> {"idle", "load", "loop", "refused"}]
    /\ count \in [Threads -> Nat]

\* However many threads acquire at once, and however stale their loads, no
\* more requests leave than the evaluation was given, and none is refused
\* while the budget lasts (acquire, evaluation_budget.rs:91-109).
BudgetKept ==
    /\ sent <= MaxRequests
    /\ (\E t \in Threads : pc[t] = "refused") => sent = MaxRequests

\* Seen from outside, the threads' reads and exchanges are single grants and
\* refusals, and none of the two follows the other wrongly.
Abstract ==
    INSTANCE RequestBudget WITH granted <- sent
ImplementsRequestBudget == Abstract!Spec
=============================================================================
