-------------------------- MODULE Services_proofs --------------------------
(***************************************************************************)
(* Proofs about the services around an evaluation, each for any number of  *)
(* actors.  Those that processes or threads share: the request budget of   *)
(* an evaluation, the evaluation lock of serve, the salt of the store and  *)
(* the envelopes of share.  The HTTP client, for any scripts of a server.  *)
(*                                                                         *)
(* And what is said of reports and catalogs.  The gates of mcpeval diff    *)
(* over a chain of comparisons, for every set of reports and gates: a      *)
(* comparison sees two neighbours, so the inductive invariant relates the  *)
(* two ends of the chain by relations that each passed comparison extends  *)
(* by one report.  And guidance, which says of whole catalogs what it says *)
(* of tools, for any number of profiles, any tools, and any server.        *)
(***************************************************************************)
EXTENDS EvaluationBudget, Serve, Salt, Share, HttpClient, Gates, Guidance,
        SequenceTheorems, FiniteSetTheorems, NaturalsInduction, TLAPS

-----------------------------------------------------------------------------
(* The budget.                                                            *)

\* Nothing leaves uncounted, and a refusal follows the last grant: a counter
\* that has reached the limit stays, so a stale load can only be refused by
\* the exchange.
BudgetInv ==
    /\ TypeOK
    /\ sent = requests
    /\ requests <= MaxRequests
    /\ denied => requests = MaxRequests
    /\ \A t \in Threads : /\ count[t] <= requests
                          /\ known[t] => denied
                          /\ pc[t] = "refused" => denied

\* The initial state satisfies the inductive invariant.
LEMMA InitBudgetInv == Init => BudgetInv
  <1> SUFFICES ASSUME Init PROVE BudgetInv
    OBVIOUS
  <1>1. known \in [Threads -> BOOLEAN] /\ \A t \in Threads : known[t] = FALSE
    BY Zenon DEF Init
  <1>2. denied \in BOOLEAN /\ denied = FALSE
    BY DEF Init
  <1>3. /\ requests \in Nat /\ sent \in Nat /\ sent = requests
        /\ requests <= MaxRequests
        /\ pc \in [Threads -> {"idle", "load", "loop", "refused"}]
        /\ count \in [Threads -> Nat]
        /\ \A t \in Threads : count[t] <= requests /\ pc[t] = "idle"
    BY BudgetAssumption DEF Init
  <1> QED
    BY <1>1, <1>2, <1>3 DEF BudgetInv, TypeOK

\* Every step of a thread keeps the inductive invariant.
LEMMA NextBudgetInv == BudgetInv /\ [Next]_vars => BudgetInv'
  <1> SUFFICES ASSUME BudgetInv, [Next]_vars PROVE BudgetInv'
    OBVIOUS
  <1> USE BudgetAssumption DEF BudgetInv, TypeOK
  <1>1. CASE UNCHANGED vars
    BY <1>1 DEF vars
  <1>2. ASSUME NEW t \in Threads, Check(t) PROVE BudgetInv'
    BY <1>2 DEF Check
  <1>3. ASSUME NEW t \in Threads, Load(t) PROVE BudgetInv'
    <2>1. PICK seen \in count[t] .. requests : count' = [count EXCEPT ![t] = seen]
      BY <1>3 DEF Load
    <2>2. seen \in Nat /\ seen <= requests
      BY <2>1
    <2> QED
      BY <1>3, <2>1, <2>2 DEF Load
  <1>4. ASSUME NEW t \in Threads, Exceeded(t) PROVE BudgetInv'
    <2>1. count[t] \in Nat /\ count[t] <= requests
      OBVIOUS
    <2>2. requests = MaxRequests
      BY <1>4, <2>1 DEF Exceeded
    <2> QED
      BY <1>4, <2>2 DEF Exceeded
  <1>5. ASSUME NEW t \in Threads, CompareExchange(t) PROVE BudgetInv'
    BY <1>5 DEF CompareExchange
  <1>6. ASSUME NEW t \in Threads, Again(t) PROVE BudgetInv'
    BY <1>6 DEF Again
  <1> QED
    BY <1>1, <1>2, <1>3, <1>4, <1>5, <1>6 DEF Next

\* Every reachable state satisfies the inductive invariant.
LEMMA BudgetInvariant == Spec => []BudgetInv
  BY InitBudgetInv, NextBudgetInv, PTL DEF Spec

\* However many threads acquire at once, no more requests leave than the
\* budget holds, and none is refused before they have all left.
THEOREM BudgetIsKept == Spec => []BudgetKept
  <1>1. BudgetInv => BudgetKept
    BY DEF BudgetInv, BudgetKept
  <1> QED
    BY <1>1, BudgetInvariant, PTL

\* Every step of a thread is a grant, a refusal or nothing to the budget.
LEMMA StepRefinesBudget ==
    BudgetInv /\ BudgetInv' /\ [Next]_vars => [Abstract!Next]_(Abstract!vars)
  <1> SUFFICES ASSUME BudgetInv, BudgetInv', [Next]_vars
               PROVE  [Abstract!Next]_(Abstract!vars)
    OBVIOUS
  <1> USE DEF Abstract!Next, Abstract!vars, Abstract!Grant, Abstract!Deny
  <1>1. CASE UNCHANGED vars
    BY <1>1 DEF vars
  <1>2. ASSUME NEW t \in Threads, Check(t) \/ Load(t) \/ Again(t)
        PROVE  UNCHANGED Abstract!vars
    BY <1>2 DEF Check, Load, Again
  <1>3. ASSUME NEW t \in Threads, Exceeded(t)
        PROVE  Abstract!Deny
    <2>1. denied' = TRUE /\ sent' = sent
      BY <1>3 DEF Exceeded
    <2>2. sent = MaxRequests
      BY <2>1 DEF BudgetInv
    <2> QED
      BY <2>1, <2>2
  <1>4. ASSUME NEW t \in Threads, CompareExchange(t)
        PROVE  [Abstract!Next]_(Abstract!vars)
    BY <1>4, BudgetAssumption DEF CompareExchange, BudgetInv, TypeOK
  <1> QED
    BY <1>1, <1>2, <1>3, <1>4 DEF Next

\* The threads' loads and exchanges implement a budget that grants and
\* refuses one request at a time.
THEOREM RefinesRequestBudget == Spec => ImplementsRequestBudget
  <1>1. Init => Abstract!Init
    BY DEF Init, Abstract!Init
  <1> QED
    BY <1>1, StepRefinesBudget, BudgetInvariant, PTL
    DEF Spec, ImplementsRequestBudget, Abstract!Spec

-----------------------------------------------------------------------------
(* The evaluation lock of serve.                                          *)

Direct == {"400", "403", "405", "415", "202", "result", "-32602", "-32600", "-32601"}
Replies == Direct \cup {"busy", None}
Conn == [request : Requests, status : {"queued", "shed", "lost", "taken", "answered"},
         reply : Replies]
Busy == {"reading", "querying", "evaluating", "replying"}

ServeTypes ==
    /\ conns \in Seq(Conn)
    /\ queue \in Seq(Nat)
    /\ workers \in [Workers -> [pc : Busy \cup {"idle", "ended", "dead"}, conn : Nat]]
    /\ evaluation \in Workers \cup {Nobody, Poisoned}

\* The lock is held by the worker that evaluates.
LockInv == \A w \in Workers : workers[w].pc = "evaluating" <=> evaluation = w

\* A connection is in the queue once, or with one worker, and its status says
\* which.
QueueInv ==
    /\ \A i \in DOMAIN queue : queue[i] \in DOMAIN conns /\ conns[queue[i]].status = "queued"
    /\ \A i, j \in DOMAIN queue : queue[i] = queue[j] => i = j
Has(w) == workers[w].pc \in Busy
HandlingInv ==
    /\ \A w \in Workers : Has(w) => workers[w].conn \in DOMAIN conns
                                    /\ conns[workers[w].conn].status = "taken"
    /\ \A v, w \in Workers : Has(v) /\ Has(w) /\ workers[v].conn = workers[w].conn => v = w

\* Who evaluates was asked to.
AskedInv == \A w \in Workers : workers[w].pc = "evaluating" => IsEvaluation(Handled(w))

ServeInv == ServeTypes /\ LockInv /\ QueueInv /\ HandlingInv /\ AskedInv

\* No worker has a connection.
LEMMA InitServeInv == ServeInit => ServeInv
  <1> SUFFICES ASSUME ServeInit PROVE ServeInv
    OBVIOUS
  <1> QED
    BY LockAssumption
    DEF ServeInit, ServeInv, ServeTypes, LockInv, QueueInv, HandlingInv, Has, AskedInv, Busy

\* A connection whose status or reply changes stays a connection.
LEMMA Rewritten ==
    ASSUME ServeTypes, NEW c \in DOMAIN conns, NEW e \in Conn, conns' = [conns EXCEPT ![c] = e]
    PROVE  /\ conns' \in Seq(Conn) /\ DOMAIN conns' = DOMAIN conns
           /\ \A d \in DOMAIN conns : conns'[d] = IF d = c THEN e ELSE conns[d]
  BY ExceptSeq DEF ServeTypes

\* A new connection leaves the others as they are.
LEMMA Added ==
    ASSUME ServeTypes, NEW e \in Conn, conns' = Append(conns, e)
    PROVE  /\ conns' \in Seq(Conn)
           /\ DOMAIN conns' = DOMAIN conns \cup {Len(conns) + 1}
           /\ \A d \in DOMAIN conns : conns'[d] = conns[d] /\ d # Len(conns) + 1
           /\ conns'[Len(conns) + 1] = e
  BY AppendProperties DEF ServeTypes

\* No request is called busy without having met the lock.
LEMMA DirectRepliesTell == \A r : DirectReply(r) \subseteq Direct
  <1> SUFFICES ASSUME NEW r PROVE DirectReply(r) \subseteq Direct
    OBVIOUS
  <1>1. \A k \in DOMAIN Screening : Screening[k].reply \in Direct
    BY DEF Screening, Direct
  <1>2. Screened(r) \subseteq DOMAIN Screening
    BY DEF Screened
  <1> QED
    BY <1>1, <1>2 DEF DirectReply, Direct

\* A worker that has a connection writes to it: neither the queue nor another
\* worker's connection is touched, and requests stay what they are.
LEMMA WorkerWrites ==
    ASSUME ServeInv, NEW w \in Workers, Has(w), NEW place \in Busy, NEW reply \in Replies,
           Decide(w, place, reply)
    PROVE  /\ evaluation' \in Workers \cup {Nobody, Poisoned} => ServeTypes'
           /\ QueueInv' /\ HandlingInv'
           /\ DOMAIN conns' = DOMAIN conns
           /\ \A v \in Workers : Has(v) => Handled(v)' = Handled(v)
  <1> USE DEF ServeInv, HandlingInv, Has
  <1>1. workers[w].conn \in DOMAIN conns
    OBVIOUS
  <1> DEFINE c == workers[w].conn
             e == [conns[c] EXCEPT !.reply = reply]
  <1>2. conns[c] \in Conn
    BY <1>1 DEF ServeTypes
  <1>3. e \in Conn /\ e.request = conns[c].request /\ e.status = conns[c].status
    BY <1>2 DEF Conn
  <1>4. conns' = [conns EXCEPT ![c] = e]
    BY DEF Decide
  <1>5. /\ conns' \in Seq(Conn) /\ DOMAIN conns' = DOMAIN conns
        /\ \A d \in DOMAIN conns : conns'[d] = IF d = c THEN e ELSE conns[d]
    BY <1>1, <1>3, <1>4, Rewritten
  <1>6. \A d \in DOMAIN conns : /\ conns'[d].request = conns[d].request
                                /\ conns'[d].status = conns[d].status
    BY <1>3, <1>5
  <1>7. workers' = [workers EXCEPT ![w].pc = place] /\ queue' = queue
    BY DEF Decide, Goto
  <1>8. /\ workers' \in [Workers -> [pc : Busy \cup {"idle", "ended", "dead"}, conn : Nat]]
        /\ \A v \in Workers : workers'[v].conn = workers[v].conn /\ (Has(v)' <=> Has(v))
    BY <1>7 DEF ServeTypes
  <1>9. QueueInv'
    BY <1>5, <1>6, <1>7 DEF QueueInv
  <1>10. HandlingInv'
    BY <1>5, <1>6, <1>8, SMTT(30)
  <1> QED
    BY <1>5, <1>6, <1>7, <1>8, <1>9, <1>10 DEF ServeTypes, Handled

\* Every step of the accept loop and of a worker keeps the inductive invariant.
LEMMA NextServeInv == ServeInv /\ [ServeNext]_serveVars => ServeInv'
  <1> SUFFICES ASSUME ServeInv, [ServeNext]_serveVars PROVE ServeInv'
    OBVIOUS
  <1>1. CASE UNCHANGED serveVars
    BY <1>1 DEF serveVars, ServeInv, ServeTypes, LockInv, QueueInv, HandlingInv, Has, AskedInv, Handled
  <1>2. CASE Accept
    <2>1. PICK r \in Requests, became \in {"lost", "queued", "shed"} :
            /\ conns' = Append(conns, [request |-> r, status |-> became, reply |-> None])
            /\ queue' = IF became = "queued" THEN Append(queue, Len(conns) + 1) ELSE queue
      BY <1>2 DEF Accept
    <2> DEFINE n == Len(conns) + 1
               e == [request |-> r, status |-> became, reply |-> None]
    <2>2. e \in Conn
      BY <2>1 DEF Conn, Replies
    <2>3. /\ conns' \in Seq(Conn) /\ DOMAIN conns' = DOMAIN conns \cup {n}
          /\ \A d \in DOMAIN conns : conns'[d] = conns[d] /\ d # n
          /\ conns'[n] = e /\ n \in Nat
      BY <2>1, <2>2, Added DEF ServeInv, ServeTypes
    <2>4. UNCHANGED <<workers, evaluation>>
      BY <1>2 DEF Accept
    <2>5. QueueInv' /\ queue' \in Seq(Nat)
      <3>1. CASE became = "queued"
        <4>1. /\ queue' \in Seq(Nat) /\ DOMAIN queue' = DOMAIN queue \cup {Len(queue) + 1}
              /\ \A i \in DOMAIN queue : queue'[i] = queue[i]
              /\ queue'[Len(queue) + 1] = n
          BY <2>1, <2>3, <3>1, AppendProperties DEF ServeInv, ServeTypes
        <4> QED
          BY <2>3, <3>1, <4>1 DEF ServeInv, QueueInv
      <3>2. CASE became # "queued"
        BY <2>1, <2>3, <3>2 DEF ServeInv, ServeTypes, QueueInv
      <3> QED
        BY <3>1, <3>2
    <2> QED
      BY <2>3, <2>4, <2>5 DEF ServeInv, ServeTypes, LockInv, HandlingInv, Has, AskedInv, Handled, Busy
  <1>3. CASE AcceptFails
    BY <1>3 DEF AcceptFails, ServeInv, ServeTypes, LockInv, QueueInv, HandlingInv, Has, AskedInv, Handled
  <1>4. ASSUME NEW w \in Workers, Take(w) PROVE ServeInv'
    <2> DEFINE c == Head(queue)
               e == [conns[c] EXCEPT !.status = "taken"]
    <2>1. /\ queue # <<>> /\ workers[w].pc = "idle" /\ UNCHANGED evaluation
          /\ workers' = [workers EXCEPT ![w] = [pc |-> "reading", conn |-> c]]
          /\ conns' = [conns EXCEPT ![c] = e] /\ queue' = Tail(queue)
      BY <1>4 DEF Take
    <2>2. /\ c \in Nat /\ queue' \in Seq(Nat) /\ c = queue[1]
          /\ DOMAIN queue' = 1 .. Len(queue) - 1 /\ DOMAIN queue = 1 .. Len(queue)
          /\ \A i \in DOMAIN queue' : queue'[i] = queue[i + 1]
          /\ Len(queue) \in Nat \ {0}
      BY <2>1, HeadTailProperties DEF ServeInv, ServeTypes
    <2>3. c \in DOMAIN conns /\ conns[c].status = "queued"
      BY <2>2 DEF ServeInv, QueueInv
    <2>12. conns[c] \in Conn
      BY <2>3 DEF ServeInv, ServeTypes
    <2>4. e \in Conn /\ e.request = conns[c].request /\ e.status = "taken"
      BY <2>12 DEF Conn
    <2>5. /\ conns' \in Seq(Conn) /\ DOMAIN conns' = DOMAIN conns
          /\ \A d \in DOMAIN conns : conns'[d] = IF d = c THEN e ELSE conns[d]
      BY <2>1, <2>3, <2>4, Rewritten DEF ServeInv
    <2>6. \A v \in Workers : /\ workers'[v].pc = IF v = w THEN "reading" ELSE workers[v].pc
                             /\ workers'[v].conn = IF v = w THEN c ELSE workers[v].conn
      BY <2>1 DEF ServeInv, ServeTypes
    <2>7. ServeTypes'
      BY <2>1, <2>2, <2>5 DEF ServeInv, ServeTypes, Busy
    <2>8. QueueInv'
      <3> HIDE DEF c
      <3>1. \A i, j \in DOMAIN queue : queue[i] = queue[j] => i = j
        BY DEF ServeInv, QueueInv
      <3>2. ASSUME NEW i \in DOMAIN queue'
            PROVE  i + 1 \in DOMAIN queue /\ queue'[i] = queue[i + 1] /\ queue'[i] # c
        <4>1. i \in Nat /\ i + 1 \in DOMAIN queue /\ 1 \in DOMAIN queue /\ i + 1 # 1
          BY <2>2, <3>2
        <4> QED
          BY <2>2, <3>1, <3>2, <4>1
      <3>3. \A i, j \in DOMAIN queue' : i + 1 = j + 1 => i = j
        BY <2>2
      <3>4. \A i, j \in DOMAIN queue' : queue'[i] = queue'[j] => i = j
        BY <3>1, <3>2, <3>3
      <3>5. \A i \in DOMAIN queue' :
               queue'[i] \in DOMAIN conns' /\ conns'[queue'[i]].status = "queued"
        BY <2>5, <3>2 DEF ServeInv, QueueInv
      <3> QED
        BY <3>4, <3>5 DEF QueueInv
    <2>9. \A v \in Workers \ {w} : Has(v) => workers[v].conn # c
      BY <2>3 DEF ServeInv, HandlingInv
    <2>13. \A v \in Workers : Has(v)' => v = w \/ Has(v)
      BY <2>6 DEF Has
    <2>10. HandlingInv'
      <3>1. \A v \in Workers : Has(v)' => workers'[v].conn \in DOMAIN conns'
                                        /\ conns'[workers'[v].conn].status = "taken"
        <4>1. \A d \in DOMAIN conns : conns[d].status = "taken" => conns'[d].status = "taken"
          BY <2>4, <2>5
        <4> SUFFICES ASSUME NEW v \in Workers, Has(v)'
                     PROVE  /\ workers'[v].conn \in DOMAIN conns'
                            /\ conns'[workers'[v].conn].status = "taken"
          OBVIOUS
        <4>2. CASE v = w
          BY <2>3, <2>4, <2>5, <2>6, <4>2
        <4>3. CASE v # w
          BY <2>5, <2>6, <2>13, <4>1, <4>3 DEF ServeInv, HandlingInv
        <4> QED
          BY <4>2, <4>3
      <3>2. \A u, v \in Workers : Has(u)' /\ Has(v)' /\ workers'[u].conn = workers'[v].conn => u = v
        BY <2>6, <2>9, <2>13 DEF ServeInv, HandlingInv
      <3> QED
        BY <3>1, <3>2 DEF HandlingInv
    <2>11. LockInv' /\ AskedInv'
      BY <2>1, <2>5, <2>6, <2>9 DEF ServeInv, LockInv, AskedInv, Handled, HandlingInv, Has, Busy
    <2> QED
      BY <2>7, <2>8, <2>10, <2>11 DEF ServeInv
  <1>5. ASSUME NEW w \in Workers, Drained(w) PROVE ServeInv'
    BY <1>5 DEF Drained, Goto, ServeInv, ServeTypes, LockInv, QueueInv, HandlingInv, Has, AskedInv,
                Handled, Busy
  <1>6. ASSUME NEW w \in Workers, NEW place \in Busy \ {"evaluating"}, NEW reply \in Replies,
               Has(w), workers[w].pc # "evaluating", Decide(w, place, reply), UNCHANGED evaluation
        PROVE  ServeInv'
    <2>1. ServeTypes' /\ QueueInv' /\ HandlingInv' /\ \A v \in Workers : Has(v) => Handled(v)' = Handled(v)
      BY <1>6, WorkerWrites DEF ServeInv, ServeTypes
    <2>2. workers' = [workers EXCEPT ![w].pc = place]
      BY <1>6 DEF Decide, Goto
    <2> QED
      BY <1>6, <2>1, <2>2 DEF ServeInv, ServeTypes, LockInv, AskedInv, Has, Busy
  <1>7. ASSUME NEW w \in Workers, RouteDirect(w) \/ RouteQuery(w) \/ Query(w) PROVE ServeInv'
    <2>1. PICK place \in Busy \ {"evaluating"}, reply \in Replies : Decide(w, place, reply)
      BY <1>7, DirectRepliesTell DEF RouteDirect, RouteQuery, Query, Busy, Replies, Direct
    <2> QED
      BY <1>6, <1>7, <2>1 DEF RouteDirect, RouteQuery, Query, Has, Busy
  <1>8. ASSUME NEW w \in Workers, RouteEvaluation(w) PROVE ServeInv'
    <2>1. Has(w) /\ workers[w].pc = "reading" /\ IsEvaluation(Handled(w))
      BY <1>8 DEF RouteEvaluation, Has, Busy
    <2>2. CASE evaluation = Nobody
      <3>1. Decide(w, "evaluating", None) /\ evaluation' = w
        BY <1>8, <2>2 DEF RouteEvaluation, TryEvaluation
      <3>2. /\ ServeTypes' /\ QueueInv' /\ HandlingInv'
            /\ \A v \in Workers : Has(v) => Handled(v)' = Handled(v)
        BY <2>1, <3>1, WorkerWrites DEF Busy, Replies
      <3>3. workers' = [workers EXCEPT ![w].pc = "evaluating"]
        BY <3>1 DEF Decide, Goto
      <3> QED
        BY <2>1, <2>2, <3>1, <3>2, <3>3, LockAssumption
        DEF ServeInv, ServeTypes, LockInv, AskedInv, Has, Busy
    <2>3. CASE evaluation # Nobody
      BY <1>6, <1>8, <2>1, <2>3 DEF RouteEvaluation, TryEvaluation, Busy, Replies
    <2> QED
      BY <2>2, <2>3
  <1>9. ASSUME NEW w \in Workers, FinishEvaluation(w) PROVE ServeInv'
    <2>1. Has(w) /\ workers[w].pc = "evaluating" /\ Decide(w, "replying", "result") /\ evaluation' = Nobody
      BY <1>9 DEF FinishEvaluation, Has, Busy
    <2>2. /\ ServeTypes' /\ QueueInv' /\ HandlingInv'
          /\ \A v \in Workers : Has(v) => Handled(v)' = Handled(v)
      BY <2>1, WorkerWrites DEF Busy, Replies, Direct
    <2>3. workers' = [workers EXCEPT ![w].pc = "replying"]
      BY <2>1 DEF Decide, Goto
    <2> QED
      BY <2>1, <2>2, <2>3, LockAssumption DEF ServeInv, ServeTypes, LockInv, AskedInv, Has, Busy
  <1>10. ASSUME NEW w \in Workers, Reply(w) \/ Panic(w) PROVE ServeInv'
    <2> DEFINE c == workers[w].conn
    <2>1. PICK became \in {"answered", "lost"} : conns' = [conns EXCEPT ![c].status = became]
      BY <1>10 DEF Reply, Panic
    <2> DEFINE e == [conns[c] EXCEPT !.status = became]
    <2>2. Has(w) /\ c \in DOMAIN conns /\ conns[c] \in Conn /\ conns[c].status = "taken"
      BY <1>10 DEF Reply, Panic, Has, Busy, ServeInv, HandlingInv, ServeTypes
    <2>3. e \in Conn /\ e.request = conns[c].request
      BY <2>2 DEF Conn
    <2>4. /\ conns' \in Seq(Conn) /\ DOMAIN conns' = DOMAIN conns
          /\ \A d \in DOMAIN conns : conns'[d] = IF d = c THEN e ELSE conns[d]
      BY <2>1, <2>2, <2>3, Rewritten DEF ServeInv
    <2>5. PICK now \in [pc : {"idle", "dead"}, conn : Nat] :
            workers' = [workers EXCEPT ![w] = now]
      BY <1>10 DEF Reply, Panic, Goto, ServeInv, ServeTypes
    <2>6. \A v \in Workers : /\ v # w => workers'[v] = workers[v]
                             /\ Has(v)' => Has(v) /\ v # w
      BY <2>5 DEF ServeInv, ServeTypes, Has, Busy
    <2>7. queue' = queue /\ evaluation' = (IF evaluation = w THEN Poisoned ELSE evaluation)
      BY <1>10 DEF Reply, Panic, ServeInv, LockInv
    <2>8. ServeTypes'
      BY <2>4, <2>5, <2>7 DEF ServeInv, ServeTypes
    <2>9. QueueInv'
      BY <2>2, <2>4, <2>7 DEF ServeInv, QueueInv
    <2>10. HandlingInv'
      BY <2>2, <2>4, <2>6 DEF ServeInv, HandlingInv
    <2>11. LockInv' /\ AskedInv'
      BY <2>2, <2>3, <2>4, <2>5, <2>6, <2>7, LockAssumption
      DEF ServeInv, ServeTypes, LockInv, AskedInv, Handled, HandlingInv, Has, Busy
    <2> QED
      BY <2>8, <2>9, <2>10, <2>11 DEF ServeInv
  <1> QED
    BY <1>1, <1>2, <1>3, <1>4, <1>5, <1>7, <1>8, <1>9, <1>10 DEF ServeNext

\* An evaluation begins alone, and a refusal has a reason its client can see.
LEMMA StepAdmits ==
    ASSUME ServeInv, ServeNext
    PROVE  /\ \A w \in Workers :
                Evaluating(w)' /\ ~Evaluating(w) => \A v \in Workers : ~Evaluating(v)
           /\ \A c \in DOMAIN conns :
                conns'[c].reply = "busy" /\ conns[c].reply # "busy" =>
                   \/ evaluation = Poisoned
                   \/ \E d \in DOMAIN conns \ {c} :
                        IsEvaluation(conns[d].request) /\ conns[d].status = "taken"
  <1> DEFINE Begins == \E w \in Workers : Evaluating(w)' /\ ~Evaluating(w)
             Refused(c) == conns'[c].reply = "busy" /\ conns[c].reply # "busy"
  <1>1. ASSUME NEW w \in Workers, Has(w), NEW place, NEW reply, Decide(w, place, reply)
        PROVE  /\ \A c \in DOMAIN conns : Refused(c) => c = workers[w].conn /\ reply = "busy"
               /\ Begins => place = "evaluating"
    <2>1. workers[w].conn \in DOMAIN conns /\ conns[workers[w].conn] \in Conn
      BY <1>1 DEF ServeInv, HandlingInv, ServeTypes
    <2>2. \A c \in DOMAIN conns :
            /\ c # workers[w].conn => conns'[c] = conns[c]
            /\ conns'[c].reply = IF c = workers[w].conn THEN reply ELSE conns[c].reply
      BY <1>1, <2>1 DEF Decide, ServeInv, ServeTypes, Conn
    <2>3. \A v \in Workers : workers'[v].pc = IF v = w THEN place ELSE workers[v].pc
      BY <1>1 DEF Decide, Goto, ServeInv, ServeTypes
    <2> QED
      BY <2>2, <2>3 DEF Evaluating
  <1>2. ASSUME NEW w \in Workers, RouteEvaluation(w)
        PROVE  /\ Begins => \A v \in Workers : ~Evaluating(v)
               /\ \A c \in DOMAIN conns : Refused(c) =>
                    \/ evaluation = Poisoned
                    \/ \E d \in DOMAIN conns \ {c} :
                         IsEvaluation(conns[d].request) /\ conns[d].status = "taken"
    <2>1. Has(w) /\ workers[w].pc = "reading"
      BY <1>2 DEF RouteEvaluation, Has, Busy
    <2>2. CASE evaluation = Nobody
      <3>1. Decide(w, "evaluating", None)
        BY <1>2, <2>2 DEF RouteEvaluation, TryEvaluation
      <3>2. \A v \in Workers : ~Evaluating(v)
        BY <2>2, LockAssumption DEF ServeInv, LockInv, Evaluating
      <3> QED
        BY <1>1, <2>1, <3>1, <3>2 DEF None
    <2>3. CASE evaluation # Nobody
      <3>1. Decide(w, "replying", "busy")
        BY <1>2, <2>3 DEF RouteEvaluation, TryEvaluation
      <3>2. ~Begins /\ \A c \in DOMAIN conns : Refused(c) => c = workers[w].conn
        BY <1>1, <2>1, <3>1
      <3>3. ASSUME NEW v \in Workers, evaluation = v
            PROVE  /\ workers[v].conn \in DOMAIN conns \ {workers[w].conn}
                   /\ IsEvaluation(conns[workers[v].conn].request)
                   /\ conns[workers[v].conn].status = "taken"
        BY <2>1, <3>3 DEF ServeInv, LockInv, HandlingInv, AskedInv, Handled, Has, Busy
      <3> QED
        BY <2>3, <3>2, <3>3 DEF ServeInv, ServeTypes
    <2> QED
      BY <2>2, <2>3
  <1>3. ASSUME NEW w \in Workers,
               RouteDirect(w) \/ RouteQuery(w) \/ Query(w) \/ FinishEvaluation(w)
        PROVE  ~Begins /\ \A c \in DOMAIN conns : ~Refused(c)
    <2>1. Has(w)
      BY <1>3 DEF RouteDirect, RouteQuery, Query, FinishEvaluation, Has, Busy
    <2>2. PICK place \in {"querying", "replying"}, reply \in Direct \cup {None} : Decide(w, place, reply)
      BY <1>3, DirectRepliesTell DEF RouteDirect, RouteQuery, Query, FinishEvaluation, Direct
    <2> QED
      BY <1>1, <2>1, <2>2 DEF Direct, None
  <1>4. ASSUME Accept \/ AcceptFails
        PROVE  ~Begins /\ \A c \in DOMAIN conns : ~Refused(c)
    <2>1. workers' = workers /\ \A c \in DOMAIN conns : conns'[c] = conns[c]
      <3>1. CASE Accept
        <4>1. PICK e \in Conn : conns' = Append(conns, e)
          <5>1. PICK r \in Requests, became \in {"lost", "queued", "shed"} :
                  conns' = Append(conns, [request |-> r, status |-> became, reply |-> None])
            BY <3>1 DEF Accept
          <5> QED
            BY <5>1 DEF Conn, Replies
        <4> QED
          BY <3>1, <4>1, Added DEF ServeInv, Accept
      <3>2. CASE AcceptFails
        BY <3>2 DEF AcceptFails
      <3> QED
        BY <1>4, <3>1, <3>2
    <2> QED
      BY <2>1 DEF Evaluating
  <1>5. ASSUME NEW w \in Workers, Take(w) \/ Drained(w) \/ Reply(w) \/ Panic(w)
        PROVE  ~Begins /\ \A c \in DOMAIN conns : ~Refused(c)
    <2>1. \A v \in Workers : workers'[v].pc = workers[v].pc \/ workers'[v].pc # "evaluating"
      <3>1. CASE Take(w) \/ Reply(w)
        <4>1. PICK now \in [pc : {"reading", "idle"}, conn : {Head(queue), 0}] :
                workers' = [workers EXCEPT ![w] = now]
          BY <3>1 DEF Take, Reply
        <4> QED
          BY <4>1 DEF ServeInv, ServeTypes
      <3>2. CASE Drained(w) \/ Panic(w)
        <4>1. PICK place \in {"ended", "dead"} : workers' = [workers EXCEPT ![w].pc = place]
          BY <3>2 DEF Drained, Panic, Goto
        <4> QED
          BY <4>1 DEF ServeInv, ServeTypes
      <3> QED
        BY <1>5, <3>1, <3>2
    <2>2. \A c \in DOMAIN conns : conns'[c].reply = conns[c].reply
      <3>1. CASE Drained(w)
        BY <3>1 DEF Drained
      <3>2. CASE Take(w) \/ Reply(w) \/ Panic(w)
        <4>1. PICK x, became : conns' = [conns EXCEPT ![x].status = became]
          BY <3>2 DEF Take, Reply, Panic
        <4>2. \A c \in DOMAIN conns : conns[c] \in Conn
          BY DEF ServeInv, ServeTypes
        <4> QED
          BY <4>1, <4>2 DEF Conn
      <3> QED
        BY <1>5, <3>1, <3>2
    <2> QED
      BY <2>1, <2>2 DEF Evaluating
  <1> QED
    BY <1>2, <1>3, <1>4, <1>5 DEF ServeNext

\* However many workers there are, whatever is asked for and whoever panics:
\* one evaluation at a time, and no refusal while none runs.
THEOREM EvaluationsAreAdmitted == ServeSpec => EvaluationsAdmitted
  <1>1. ServeInv /\ [ServeNext]_serveVars =>
          [/\ \A w \in Workers :
                Evaluating(w)' /\ ~Evaluating(w) => \A v \in Workers : ~Evaluating(v)
           /\ \A c \in DOMAIN conns :
                conns'[c].reply = "busy" /\ conns[c].reply # "busy" =>
                   \/ evaluation = Poisoned
                   \/ \E d \in DOMAIN conns \ {c} :
                        IsEvaluation(conns[d].request) /\ conns[d].status = "taken"]_serveVars
    BY StepAdmits
  <1> QED
    BY <1>1, InitServeInv, NextServeInv, PTL DEF ServeSpec, EvaluationsAdmitted

-----------------------------------------------------------------------------
(* The salt.                                                              *)

StarterPlaces == {"load", "create", "write", "link", "unlink", "done", "failed", "dead"}
Salts == Starters \cup {Absent, HalfWritten}

SaltTypes ==
    /\ salt \in Salts
    /\ tmp \in [Starters -> Salts]
    /\ starter \in [Starters -> [pc : StarterPlaces, uses : Salts]]

\* What is linked is whole, so the salt on disk is; once a process is past its
\* link, whoever won, there is one, and who won uses its own.
SaltInv ==
    /\ salt \in Starters \cup {Absent}
    /\ \A p \in Starters :
         /\ starter[p].pc = "link" => tmp[p] = p
         /\ starter[p].pc = "unlink" =>
              salt \in Starters /\ starter[p].uses \in {Absent, salt}

SaltIInv == SaltTypes /\ SaltInv /\ OneSalt

\* No salt has been made.
LEMMA InitSaltIInv == SaltInit => SaltIInv
  <1> SUFFICES ASSUME SaltInit PROVE SaltIInv
    OBVIOUS
  <1> QED
    BY DEF SaltInit, SaltIInv, SaltTypes, SaltInv, OneSalt, StarterPlaces, Salts

\* A process that finds a salt whole uses it.
LEMMA FromFileUses ==
    ASSUME SaltIInv, NEW p \in Starters, FromFile(p), salt # Absent
    PROVE  starter' = [starter EXCEPT ![p] = [pc |-> "done", uses |-> salt]] /\ salt \in Starters
  BY SaltAssumption DEF SaltIInv, SaltInv, FromFile, Move

\* Every step of a process keeps the inductive invariant.
LEMMA NextSaltIInv == SaltIInv /\ [SaltNext]_saltVars => SaltIInv'
  <1> SUFFICES ASSUME SaltIInv, [SaltNext]_saltVars PROVE SaltIInv'
    OBVIOUS
  <1> USE SaltAssumption DEF SaltIInv, SaltTypes, SaltInv, OneSalt, StarterPlaces, Salts, Move
  <1>1. CASE UNCHANGED saltVars
    BY <1>1 DEF saltVars
  <1>2. ASSUME NEW p \in Starters, LoadSalt(p) PROVE SaltIInv'
    <2>1. CASE salt = Absent
      BY <1>2, <2>1 DEF LoadSalt
    <2>2. CASE salt # Absent
      <3>1. starter' = [starter EXCEPT ![p] = [pc |-> "done", uses |-> salt]] /\ salt \in Starters
        BY <1>2, <2>2, FromFileUses DEF LoadSalt
      <3> QED
        BY <1>2, <3>1 DEF LoadSalt
    <2> QED
      BY <2>1, <2>2
  <1>3. ASSUME NEW p \in Starters, CreateTmp(p) PROVE SaltIInv'
    BY <1>3 DEF CreateTmp
  <1>4. ASSUME NEW p \in Starters, WriteTmp(p) PROVE SaltIInv'
    BY <1>4 DEF WriteTmp
  <1>5. ASSUME NEW p \in Starters, Link(p) PROVE SaltIInv'
    BY <1>5, SMTT(30) DEF Link
  <1>6. ASSUME NEW p \in Starters, Unlink(p) PROVE SaltIInv'
    <2>1. CASE starter[p].uses = Absent
      <3>1. salt # Absent
        BY <1>6 DEF Unlink
      <3>2. starter' = [starter EXCEPT ![p] = [pc |-> "done", uses |-> salt]] /\ salt \in Starters
        BY <1>6, <2>1, <3>1, FromFileUses DEF Unlink
      <3> QED
        BY <1>6, <3>2 DEF Unlink
    <2>2. CASE starter[p].uses # Absent
      BY <1>6, <2>2 DEF Unlink
    <2> QED
      BY <2>1, <2>2
  <1>7. ASSUME NEW p \in Starters, Dies(p) PROVE SaltIInv'
    BY <1>7 DEF Dies
  <1> QED
    BY <1>1, <1>2, <1>3, <1>4, <1>5, <1>6, <1>7 DEF SaltNext

\* However many processes start at once, and wherever they die, all that
\* come to a salt come to the one on disk.
THEOREM SaltIsOne == SaltSpec => []OneSalt
  <1>1. SaltIInv => OneSalt
    BY DEF SaltIInv
  <1> QED
    BY <1>1, InitSaltIInv, NextSaltIInv, PTL DEF SaltSpec

-----------------------------------------------------------------------------
(* The envelopes of share.                                                *)

SharePlaces ==
    {"begin", "staged", "validated", "preserve", "publish", "restore", "discard",
     "failed", "refused", "published", "dead"}
Things == Shares \cup {Prior} \cup NoEnvelope

ShareTypes ==
    /\ output \in Things
    /\ backup \in [Shares -> Things]
    /\ share \in [Shares -> [pc : SharePlaces, force : BOOLEAN, exists : BOOLEAN]]

\* A share that has not preserved anything has an empty backup, so that
\* preserving overwrites none.
BackupInv ==
    \A s \in Shares :
        share[s].pc \in {"begin", "staged", "validated", "preserve"} => backup[s] = Nothing

\* While a share discards what it replaced, there is an envelope that none of
\* those who discard holds: the one it published, or that one set aside.
Lasting ==
    \/ output \notin NoEnvelope
    \/ \E s \in Shares : backup[s] \notin NoEnvelope /\ share[s].pc # "discard"
DiscardInv == (\E s \in Shares : share[s].pc = "discard") => Lasting

ShareInv == ShareTypes /\ BackupInv /\ DiscardInv

\* Nothing is set aside yet.
LEMMA InitShareInv == ShareInit => ShareInv
  BY DEF ShareInit, ShareInv, ShareTypes, BackupInv, DiscardInv, SharePlaces, Things, NoEnvelope

\* Every step of a share keeps the inductive invariant.
LEMMA NextShareInv == ShareInv /\ [ShareNext]_shareVars => ShareInv'
  <1> SUFFICES ASSUME ShareInv, [ShareNext]_shareVars PROVE ShareInv'
    OBVIOUS
  <1> USE ShareAssumption DEF ShareInv, ShareTypes, BackupInv, DiscardInv, Lasting, SharePlaces, Things,
                              NoEnvelope, To
  <1>1. CASE UNCHANGED shareVars
    BY <1>1 DEF shareVars
  <1>2. ASSUME NEW s \in Shares, Stage(s) \/ Revalidate(s) \/ Look(s) PROVE ShareInv'
    BY <1>2, SMTT(30) DEF Stage, Revalidate, Look
  <1>3. ASSUME NEW s \in Shares, Preserve(s) PROVE ShareInv'
    BY <1>3, SMTT(30) DEF Preserve
  <1>4. ASSUME NEW s \in Shares, Publish(s) \/ PublishFails(s) PROVE ShareInv'
    BY <1>4 DEF Publish, PublishFails
  <1>5. ASSUME NEW s \in Shares, Restore(s) PROVE ShareInv'
    BY <1>5 DEF Restore
  <1>6. ASSUME NEW s \in Shares, Discard(s) PROVE ShareInv'
    BY <1>6 DEF Discard
  <1>7. ASSUME NEW s \in Shares, ShareDies(s) PROVE ShareInv'
    BY <1>7 DEF ShareDies
  <1> QED
    BY <1>1, <1>2, <1>3, <1>4, <1>5, <1>6, <1>7 DEF ShareNext

\* An envelope is at the output or in some backup.
LEMMA SomeEnvelope ==
    Envelopes # {} <=> output \notin NoEnvelope \/ \E s \in Shares : backup[s] \notin NoEnvelope
  BY DEF Envelopes

\* No step takes the last envelope away.
LEMMA StepKeeps == ShareInv /\ [ShareNext]_shareVars => (Envelopes # {} => Envelopes' # {})
  <1> SUFFICES ASSUME ShareInv, [ShareNext]_shareVars, Envelopes # {} PROVE Envelopes' # {}
    OBVIOUS
  <1> DEFINE Some == output \notin NoEnvelope \/ \E s \in Shares : backup[s] \notin NoEnvelope
  <1>1. Some
    BY SomeEnvelope
  <1> SUFFICES Some'
    BY DEF Envelopes
  <1> USE ShareAssumption DEF ShareInv, ShareTypes, BackupInv, DiscardInv, Lasting, Things,
                              NoEnvelope, To
  <1>2. CASE UNCHANGED shareVars
    BY <1>1, <1>2 DEF shareVars
  <1>3. ASSUME NEW s \in Shares,
               Stage(s) \/ Revalidate(s) \/ Look(s) \/ PublishFails(s) \/ ShareDies(s)
        PROVE  Some'
    BY <1>1, <1>3 DEF Stage, Revalidate, Look, PublishFails, ShareDies
  <1>4. ASSUME NEW s \in Shares, Preserve(s) PROVE Some'
    BY <1>1, <1>4 DEF Preserve
  <1>5. ASSUME NEW s \in Shares, Publish(s) PROVE Some'
    BY <1>1, <1>5 DEF Publish
  <1>6. ASSUME NEW s \in Shares, Restore(s) PROVE Some'
    BY <1>1, <1>6 DEF Restore
  <1>7. ASSUME NEW s \in Shares, Discard(s) PROVE Some'
    BY <1>7 DEF Discard
  <1> QED
    BY <1>2, <1>3, <1>4, <1>5, <1>6, <1>7 DEF ShareNext

\* However many shares overlap, and wherever they fail or die, an output that
\* once had an envelope has one there or set aside.
THEOREM EnvelopesAreKept == ShareSpec => EnvelopeKept
  <1>1. ShareInv /\ [ShareNext]_shareVars => [Envelopes # {} => Envelopes' # {}]_shareVars
    BY StepKeeps
  <1> QED
    BY <1>1, InitShareInv, NextShareInv, PTL DEF ShareSpec, EnvelopeKept

-----------------------------------------------------------------------------
(* The HTTP client.                                                       *)

\* A set of numbers has a least.
LEMMA LeastNumber ==
    ASSUME NEW T \in SUBSET Nat, T # {}
    PROVE  \E m \in T : \A i \in T : m <= i
  <1>1. IsWellFoundedOn(OpToRel(<, Nat), Nat)
    BY NatLessThanWellFounded, Zenon
  <1>2. PICK m \in T : \A i \in T : ~(<<i, m>> \in OpToRel(<, Nat))
    BY <1>1, WFMin, Zenon
  <1>3. \A i \in T : ~(i < m)
    BY <1>2 DEF OpToRel
  <1> QED
    BY <1>3

Verdicts == {"none", "failed", "honored", "ignored", "errored"}
Outcomes == Verdicts \cup {"answered", "timeout", "exhausted"}

Clients ==
    [pc : {"idle", "posting", "reading", "notifying", "joining", "joining_unnotified"},
     op : Operations \cup {"none"}, read : Nat, outcome : Outcomes, done : Nat]
Calls == [pc : {"none", "posting", "reading", "done"}, verdict : Verdicts]
Answers == [stream : BOOLEAN, coming : Seq(Frames), sent : Seq(Frames), replies : Nat,
            slow : BOOLEAN, session : {"none", "s1", "s2"}]

\* The type invariant of the client, and of the server it talks to.
HttpTypes == client \in Clients /\ call \in Calls /\ server \in Answers

\* Which of the two threads is at work; an operation has an outcome when it ends.
ThreadInv ==
    /\ client.pc \in {"posting", "reading"} => call.pc = "none"
    /\ client.pc \in {"notifying", "joining", "joining_unnotified"} => call.pc # "none"
    /\ client.pc = "idle" => call.pc \in {"none", "done"}
    /\ client.pc # "idle" => client.outcome = "none"

\* A body that is no stream is one message.
BodyInv == ~server.stream => Len(server.sent) + Len(server.coming) <= 1

\* Discovery has answered the roots requests it has read, and nothing else has
\* been answered while a body is read.
RepliesInv ==
    /\ client.pc = "posting" => client.read = 0
    /\ client.pc = "reading" =>
          /\ client.read <= Len(server.sent)
          /\ server.replies = IF ReadsEvents THEN RootsAsked ELSE 0

\* The verdict of a call that has ended is of what the server did, and the
\* outcome of its cancellation is that verdict or none.
VerdictInv ==
    /\ call.pc = "done" => Judged(call.verdict)
    /\ client.outcome \in {"honored", "ignored"} => call.pc = "done" /\ client.outcome = call.verdict

\* The inductive invariant.
HttpInv == HttpTypes /\ ThreadInv /\ BodyInv /\ RepliesInv /\ VerdictInv /\ RootsNeverStall

\* The event that is taken is the first with the id.
LEMMA OwnIsFirst ==
    ASSUME NEW frames \in Seq(Frames)
    PROVE  IF FirstOwn(frames) = 0 THEN \A i \in 1..Len(frames) : ~frames[i].own
           ELSE /\ FirstOwn(frames) \in 1..Len(frames) /\ frames[FirstOwn(frames)].own
                /\ \A j \in 1..(FirstOwn(frames) - 1) : ~frames[j].own
  <1> DEFINE I == {i \in 1..Len(frames) : frames[i].own}
  <1>1. FirstOwn(frames) = IF I # {} THEN Min(I) ELSE 0
    BY DEF FirstOwn, SelectInSeq
  <1>2. Len(frames) \in Nat
    OBVIOUS
  <1>3. CASE I = {}
    BY <1>1, <1>3
  <1>4. CASE I # {}
    <2>0. I \in SUBSET Nat
      OBVIOUS
    <2>1. \E m \in I : \A i \in I : m <= i
      <3> HIDE DEF I
      <3> QED
        BY <1>4, <2>0, LeastNumber
    <2>2. Min(I) \in I /\ \A i \in I : Min(I) <= i
      BY <2>1 DEF Min
    <2>3. PICK m : m = FirstOwn(frames)
      OBVIOUS
    <2>4. m \in 1..Len(frames) /\ frames[m].own /\ \A i \in I : m <= i
      BY <1>1, <1>4, <2>2, <2>3
    <2>5. ASSUME NEW j \in 1..(m - 1) PROVE ~frames[j].own
      <3>1. j \in 1..Len(frames) /\ ~(m <= j)
        BY <1>2, <2>4
      <3> QED
        BY <2>4, <3>1
    <2>6. m # 0
      BY <2>4
    <2> HIDE DEF I
    <2> QED
      BY <2>3, <2>4, <2>5, <2>6
  <1> QED
    BY <1>3, <1>4

\* The end of an operation.
LEMMA FinishEnds ==
    ASSUME client \in Clients, NEW outcome \in Outcomes, Finish(outcome)
    PROVE  /\ client' \in Clients /\ client'.pc = "idle" /\ client'.op = client.op
           /\ client'.read = client.read /\ client'.outcome \in {"exhausted", outcome}
  <1>1. /\ client.done \in Nat /\ client.read \in Nat /\ client.op \in Operations \cup {"none"}
        /\ "idle" \in {"idle", "posting", "reading", "notifying", "joining", "joining_unnotified"}
    BY DEF Clients
  <1>2. PICK o : o = IF spent THEN "exhausted" ELSE outcome
    OBVIOUS
  <1>3. o \in Outcomes /\ o \in {"exhausted", outcome}
    BY <1>2 DEF Verdicts, Outcomes
  <1>4. client' = [client EXCEPT !.pc = "idle", !.done = @ + 1, !.outcome = o]
    BY <1>2 DEF Finish
  <1>5. client.done + 1 \in Nat
    BY ONLY <1>1
  <1> QED
    BY ONLY <1>1, <1>3, <1>4, <1>5, client \in Clients DEF Clients

\* The bodies a server may send.
LEMMA BodyReceived ==
    ASSUME Receives
    PROVE  /\ server' \in Answers /\ BodyInv'
           /\ server'.replies = 0 /\ server'.sent = <<>>
  <1>1. PICK body \in Scripts, slow \in BOOLEAN, s \in {"none", "s1", "s2"} :
           server' = [Silent EXCEPT !.stream = body.stream, !.coming = body.frames,
                                    !.slow = slow, !.session = s]
    BY DEF Receives
  <1>2. body.stream \in BOOLEAN /\ body.frames \in Seq(Frames) /\ (~body.stream => Len(body.frames) = 1)
    BY HttpClientAssumption
  <1>3. server' = [stream |-> body.stream, coming |-> body.frames, sent |-> <<>>, replies |-> 0,
                   slow |-> slow, session |-> s]
    BY <1>1 DEF Silent
  <1>4. <<>> \in Seq(Frames) /\ Len(<<>>) = 0
    OBVIOUS
  <1>5. server' \in Answers /\ server'.replies = 0 /\ server'.sent = <<>>
    BY <1>2, <1>3, <1>4 DEF Answers
  <1>6. BodyInv'
    <2>1. /\ server'.sent = <<>> /\ server'.coming = body.frames /\ server'.stream = body.stream
          /\ Len(body.frames) \in Nat
      BY <1>2, <1>3
    <2>2. PICK m, n : m = Len(server'.sent) /\ n = Len(server'.coming)
      OBVIOUS
    <2>3. m = 0
      BY <1>4, <2>1, <2>2
    <2>4. ~server'.stream => n = 1
      BY <1>2, <2>1, <2>2
    <2>5. ~server'.stream => m + n <= 1
      BY ONLY <2>3, <2>4
    <2> QED
      BY <2>2, <2>5 DEF BodyInv
  <1> QED
    BY <1>5, <1>6

\* A silent server.
LEMMA SilentServer == Silent \in Answers /\ Silent.stream
  <1>1. <<>> \in Seq(Frames)
    OBVIOUS
  <1> QED
    BY <1>1 DEF Silent, Answers

\* A verdict is of what the server did: it is of the first message with the id,
\* and there is none if it is silence.
LEMMA VerdictSound ==
    ASSUME HttpTypes, BodyInv, Ended(server)
    PROVE  Verdict(server) \in Verdicts /\ Judged(Verdict(server))
  <1>1. PICK said : said = server.sent
    OBVIOUS
  <1>2. /\ said \in Seq(Frames) /\ DOMAIN said = 1..Len(said) /\ Len(said) \in Nat
        /\ server.stream \in BOOLEAN /\ server.coming = <<>>
    BY <1>1 DEF HttpTypes, Answers, Ended
  <1>3. IF FirstOwn(said) = 0 THEN \A i \in 1..Len(said) : ~said[i].own
        ELSE /\ FirstOwn(said) \in 1..Len(said) /\ said[FirstOwn(said)].own
             /\ \A j \in 1..(FirstOwn(said) - 1) : ~said[j].own
    BY <1>2, OwnIsFirst
  <1>4. CASE Message(server) = <<>>
    <2>1. ~server.stream => Verdict(server) = "failed"
      BY <1>2, <1>4 DEF Verdict
    <2>2. server.stream => Verdict(server) = "honored" /\ FirstOwn(said) = 0
      <3> SUFFICES ASSUME server.stream PROVE Verdict(server) = "honored" /\ FirstOwn(said) = 0
        OBVIOUS
      <3>1. Verdict(server) = "honored"
        BY <1>4 DEF Verdict
      <3>2. Message(server) = IF FirstOwn(said) = 0 THEN <<>> ELSE <<said[FirstOwn(said)]>>
        BY <1>1 DEF Message
      <3> QED
        BY <1>4, <3>1, <3>2
    <2>3. server.stream => \A i \in DOMAIN server.sent : ~server.sent[i].own
      BY <1>1, <1>2, <1>3, <2>2
    <2> QED
      BY <1>2, <2>1, <2>2, <2>3 DEF Judged, Verdicts
  <1>5. CASE Message(server) # <<>>
    <2>1. PICK k : k = IF server.stream THEN FirstOwn(said) ELSE 1
      OBVIOUS
    <2>2. /\ k \in 1..Len(said) /\ Head(Message(server)) = said[k]
          /\ ~server.stream => k = 1
          /\ server.stream => \A j \in 1..(k - 1) : ~said[j].own
      <3>1. CASE server.stream
        <4>1. Message(server) = IF FirstOwn(said) = 0 THEN <<>> ELSE <<said[FirstOwn(said)]>>
          BY <1>1, <3>1 DEF Message
        <4>2. FirstOwn(said) # 0 /\ k = FirstOwn(said)
          BY <1>5, <2>1, <3>1, <4>1
        <4>3. Head(<<said[FirstOwn(said)]>>) = said[FirstOwn(said)]
          OBVIOUS
        <4> QED
          BY <1>3, <3>1, <4>1, <4>2, <4>3
      <3>2. CASE ~server.stream
        <4>1. Message(server) = said
          BY <1>1, <3>2 DEF Message
        <4>2. k = 1 /\ said # <<>>
          BY <1>5, <2>1, <3>2, <4>1
        <4> QED
          BY <1>2, <3>2, <4>1, <4>2
      <3> QED
        BY <3>1, <3>2
    <2>3. \A j \in 1..(k - 1) : ~said[j].own
      <3>1. k = 1 => \A j \in 1..(k - 1) : FALSE
        OBVIOUS
      <3> QED
        BY <2>2, <3>1
    <2>4. PICK f : f = Head(Message(server))
      OBVIOUS
    <2>5. /\ Verdict(server) \in {"failed", "honored", "ignored", "errored"}
          /\ Verdict(server) = "honored" => f.own /\ f.kind = "cancelled"
          /\ Verdict(server) = "ignored" => f.own /\ f.kind = "result"
      BY <1>5, <2>4 DEF Verdict, ValidResponse
    <2>6. ASSUME NEW kind, f.own, f.kind = kind PROVE AnsweredBy(kind)
      BY <1>1, <1>2, <2>2, <2>3, <2>4, <2>6 DEF AnsweredBy
    <2>7. AnsweredBy("cancelled") \/ Verdict(server) # "honored"
      BY <2>5, <2>6
    <2>8. AnsweredBy("result") \/ Verdict(server) # "ignored"
      BY <2>5, <2>6
    <2> QED
      BY <2>5, <2>7, <2>8 DEF Judged, Verdicts
  <1> QED
    BY <1>4, <1>5

\* Nothing is said of a server while nothing has come out.
LEMMA NothingOut ==
    ASSUME NEW o \in Outcomes, o \notin {"honored", "ignored"}
    PROVE  Judged(o)
  BY DEF Judged

\* The initial state satisfies the inductive invariant.
LEMMA InitHttpInv == HttpInit => HttpInv
  <1> SUFFICES ASSUME HttpInit PROVE HttpInv
    OBVIOUS
  <1>1. /\ client = [pc |-> "idle", op |-> "none", read |-> 0, outcome |-> "none", done |-> 0]
        /\ call = [pc |-> "none", verdict |-> "none"] /\ server = Silent
    BY DEF HttpInit
  <1>2. client \in Clients /\ call \in Calls
    BY <1>1 DEF Clients, Calls, Verdicts, Outcomes
  <1> QED
    BY <1>1, <1>2, SilentServer
       DEF HttpInv, HttpTypes, ThreadInv, BodyInv, RepliesInv, VerdictInv, RootsNeverStall

\* An operation that is no cancellation ends: it timed out only if it was not
\* discovery, or the server kept it waiting.
LEMMA EndKeeps ==
    ASSUME HttpInv, client.pc \in {"posting", "reading"},
           NEW outcome \in Outcomes \ {"honored", "ignored"}, Finish(outcome), call' = call,
           server' \in Answers, BodyInv',
           client.op = "discover" /\ outcome = "timeout" =>
               server'.slow \/ \E i \in DOMAIN server'.sent : server'.sent[i].kind = "sampling"
    PROVE  HttpInv'
  <1>1. /\ client' \in Clients /\ client'.pc = "idle" /\ client'.op = client.op
        /\ client'.outcome \in {"exhausted", outcome}
    BY FinishEnds DEF HttpInv, HttpTypes
  <1>2. call \in Calls /\ call.pc = "none"
    BY DEF HttpInv, HttpTypes, ThreadInv
  <1>3. HttpTypes'
    BY <1>1, <1>2 DEF HttpTypes
  <1>4. ThreadInv' /\ RepliesInv' /\ VerdictInv'
    BY <1>1, <1>2 DEF ThreadInv, RepliesInv, VerdictInv
  <1>5. RootsNeverStall'
    BY <1>1 DEF RootsNeverStall
  <1> QED
    BY <1>3, <1>4, <1>5 DEF HttpInv

\* An operation starts.
LEMMA StartOpKeeps == HttpInv /\ (\E op \in Operations : Start(op)) => HttpInv'
  <1> SUFFICES ASSUME HttpInv, NEW op \in Operations, Start(op) PROVE HttpInv'
    OBVIOUS
  <1>1. client.done + 1 \in Nat /\ client \in Clients /\ client.pc = "idle"
    BY DEF HttpInv, HttpTypes, Clients, Start
  <1>2. server' = Silent /\ server' \in Answers
    BY SilentServer DEF Start
  <1>3. call' \in Calls /\ call'.pc \in {"none", "posting"}
        /\ (call'.pc = "none" <=> op # "cancel" \/ spent)
    BY DEF Start, Calls, Verdicts, Outcomes
  <1>4. CASE spent
    <2>1. client' = [client EXCEPT !.op = op, !.outcome = "exhausted", !.done = @ + 1]
      BY <1>4 DEF Start
    <2>2. client' \in Clients /\ client'.pc = "idle" /\ client'.outcome = "exhausted"
      <3>1. "exhausted" \in Outcomes /\ op \in Operations \cup {"none"}
        BY DEF Verdicts, Outcomes
      <3> QED
        BY ONLY <1>1, <2>1, <3>1 DEF Clients
    <2> QED
      BY <1>2, <1>3, <1>4, <2>2, SilentServer
         DEF HttpInv, HttpTypes, ThreadInv, BodyInv, RepliesInv, VerdictInv, RootsNeverStall
  <1>5. CASE ~spent
    <2>1. PICK next : next = IF op = "cancel" THEN "notifying" ELSE "posting"
      OBVIOUS
    <2>2. client' = [client EXCEPT !.op = op, !.read = 0, !.outcome = "none", !.pc = next]
      BY <1>5, <2>1 DEF Start
    <2>3. client' \in Clients /\ client'.pc = next /\ client'.outcome = "none" /\ client'.read = 0
      <3>1. /\ "none" \in Outcomes /\ op \in Operations \cup {"none"} /\ 0 \in Nat
            /\ next \in {"idle", "posting", "reading", "notifying", "joining", "joining_unnotified"}
        BY <2>1 DEF Verdicts, Outcomes
      <3> QED
        BY ONLY <1>1, <2>2, <3>1 DEF Clients
    <2> QED
      BY <1>2, <1>3, <1>5, <2>1, <2>3, SilentServer
         DEF HttpInv, HttpTypes, ThreadInv, BodyInv, RepliesInv, VerdictInv, RootsNeverStall
  <1> QED
    BY <1>4, <1>5

\* The POST of an operation: what comes is not read yet.
LEMMA PostKeeps == HttpInv /\ Post => HttpInv'
  <1> SUFFICES ASSUME HttpInv, Post PROVE HttpInv'
    OBVIOUS
  <1>1. /\ client \in Clients /\ client.pc = "posting" /\ client.outcome = "none"
        /\ call' = call /\ call \in Calls /\ call.pc = "none"
    BY DEF HttpInv, HttpTypes, ThreadInv, Post
  <1>2. "failed" \in Outcomes \ {"honored", "ignored"}
    BY DEF Verdicts, Outcomes
  <1>3. CASE Receives /\ client' = [client EXCEPT !.pc = "reading"]
    <2>1. server' \in Answers /\ BodyInv' /\ server'.replies = 0 /\ server'.sent = <<>>
      BY <1>3, BodyReceived
    <2>2. client' \in Clients /\ client'.pc = "reading" /\ client'.outcome = "none"
          /\ client'.read = client.read
      <3>1. "reading" \in {"idle", "posting", "reading", "notifying", "joining", "joining_unnotified"}
        OBVIOUS
      <3> QED
        BY ONLY <1>1, <1>3, <3>1 DEF Clients
    <2>3. client'.read = 0
      BY <1>1, <2>2 DEF HttpInv, RepliesInv
    <2>4. RootsAsked' = 0
      <3>1. {i \in 1..client'.read : server'.sent[i].kind = "roots"} = {}
        BY <2>3
      <3> QED
        BY <3>1, FS_EmptySet DEF RootsAsked
    <2>5. RepliesInv'
      <3>1. Len(<<>>) = 0 /\ 0 <= 0
        OBVIOUS
      <3> QED
        BY <2>1, <2>2, <2>3, <2>4, <3>1 DEF RepliesInv
    <2>6. HttpTypes' /\ ThreadInv' /\ VerdictInv' /\ RootsNeverStall'
      BY <1>1, <2>1, <2>2 DEF HttpTypes, ThreadInv, VerdictInv, RootsNeverStall
    <2> QED
      BY <2>1, <2>5, <2>6 DEF HttpInv
  <1>4. CASE Receives /\ Finish("failed")
    <2>1. server' \in Answers /\ BodyInv'
      BY <1>4, BodyReceived
    <2> QED
      BY <1>1, <1>2, <1>4, <2>1, EndKeeps
  <1>5. CASE Finish("failed") /\ server' = server
    <2>1. server' \in Answers /\ BodyInv'
      BY <1>5 DEF HttpInv, HttpTypes, BodyInv
    <2> QED
      BY <1>1, <1>2, <1>5, <2>1, EndKeeps
  <1> QED
    BY <1>3, <1>4, <1>5 DEF Post

\* A body read as a whole.
LEMMA ReadBodyKeeps == HttpInv /\ ReadBody => HttpInv'
  <1> SUFFICES ASSUME HttpInv, ReadBody PROVE HttpInv'
    OBVIOUS
  <1>1. PICK o : o = IF client.op = "observe" THEN Observed(server) ELSE Answer(server)
    OBVIOUS
  <1>2. o \in Outcomes \ {"honored", "ignored"} /\ o # "timeout"
    BY <1>1 DEF Observed, Answer, Verdicts, Outcomes
  <1>3. Finish(o) /\ client.pc = "reading" /\ call' = call
    BY <1>1 DEF ReadBody
  <1>4. PICK n : n = IF client.op = "observe" THEN Asked(server) ELSE 0
    OBVIOUS
  <1>5. n \in Nat
    <2>1. IsFiniteSet({i \in DOMAIN server.sent : Asks(server.sent[i])})
      <3>1. DOMAIN server.sent = 1..Len(server.sent) /\ Len(server.sent) \in Nat
        BY DEF HttpInv, HttpTypes, Answers
      <3>2. IsFiniteSet(1..Len(server.sent))
        BY <3>1, FS_Interval
      <3> QED
        BY <3>1, <3>2, FS_Subset
    <2>2. Asked(server) \in Nat
      BY <2>1, FS_CardinalityType DEF Asked
    <2> QED
      BY <1>4, <2>2
  <1>6. server \in Answers /\ server' = [server EXCEPT !.replies = n] /\ BodyInv
    BY <1>4 DEF ReadBody, HttpInv, HttpTypes
  <1>7. /\ server' \in Answers /\ server'.sent = server.sent /\ server'.coming = server.coming
        /\ server'.stream = server.stream
    BY ONLY <1>5, <1>6 DEF Answers
  <1>8. BodyInv'
    BY <1>6, <1>7 DEF BodyInv
  <1> QED
    BY <1>2, <1>3, <1>7, <1>8, EndKeeps

\* The roots requests read, when one more message is.
LEMMA RootsCounted ==
    ASSUME NEW frames \in Seq(Frames), NEW n \in Nat, n < Len(frames)
    PROVE  LET read(k) == {i \in 1..k : frames[i].kind = "roots"}
           IN  /\ Cardinality(read(n)) \in Nat
               /\ Cardinality(read(n + 1)) = IF frames[n + 1].kind = "roots"
                                             THEN Cardinality(read(n)) + 1 ELSE Cardinality(read(n))
  <1> DEFINE A == {i \in 1..n : frames[i].kind = "roots"}
             B == {i \in 1..n + 1 : frames[i].kind = "roots"}
  <1>1. IsFiniteSet(A)
    <2>1. IsFiniteSet(1..n)
      BY FS_Interval
    <2> QED
      BY <2>1, FS_Subset
  <1>2. n + 1 \notin A
    OBVIOUS
  <1>3. CASE frames[n + 1].kind = "roots"
    <2>1. B = A \cup {n + 1}
      BY <1>3
    <2> HIDE DEF A, B
    <2>2. Cardinality(B) = Cardinality(A) + 1 /\ Cardinality(A) \in Nat
      BY <1>1, <1>2, <2>1, FS_AddElement, FS_CardinalityType
    <2> QED
      BY <1>3, <2>2 DEF A, B
  <1>4. CASE frames[n + 1].kind # "roots"
    <2>1. B = A
      BY <1>4
    <2> HIDE DEF A, B
    <2>2. Cardinality(B) = Cardinality(A) /\ Cardinality(A) \in Nat
      BY <1>1, <2>1, FS_CardinalityType
    <2> QED
      BY <1>4, <2>2 DEF A, B
  <1> QED
    BY <1>3, <1>4

\* One event is read, and answered if it is a roots request.
LEMMA ReadEventKeeps == HttpInv /\ ReadEvent => HttpInv'
  <1> SUFFICES ASSUME HttpInv, ReadEvent PROVE HttpInv'
    OBVIOUS
  <1>1. /\ client \in Clients /\ client.pc = "reading" /\ client.outcome = "none"
        /\ call' = call /\ call \in Calls /\ call.pc = "none"
    BY DEF HttpInv, HttpTypes, ThreadInv, ReadEvent
  <1>2. PICK n, said, frame : n = client.read /\ said = server.sent /\ frame = said[n + 1]
    OBVIOUS
  <1>3. /\ n \in Nat /\ said \in Seq(Frames) /\ n < Len(said) /\ Len(said) \in Nat
        /\ server.replies = RootsAsked /\ ReadsEvents /\ server \in Answers /\ BodyInv
    BY <1>1, <1>2 DEF HttpInv, HttpTypes, RepliesInv, ReadEvent, Clients, Answers
  <1>4. "failed" \in Outcomes \ {"honored", "ignored"} /\ "answered" \in Outcomes \ {"honored", "ignored"}
    BY DEF Verdicts, Outcomes
  <1>5. CASE /\ server' = server
             /\ \E o \in {"failed", "answered"} : Finish(o)
    <2>1. server' \in Answers /\ BodyInv'
      BY <1>3, <1>5 DEF BodyInv
    <2>2. PICK o \in {"failed", "answered"} : Finish(o)
      BY <1>5
    <2>3. o \in Outcomes \ {"honored", "ignored"} /\ o # "timeout"
      BY <1>4, <2>2
    <2> QED
      BY <1>1, <2>1, <2>2, <2>3, EndKeeps
  <1>6. CASE /\ client' = [client EXCEPT !.read = @ + 1]
             /\ server' = IF frame.kind = "roots" THEN [server EXCEPT !.replies = @ + 1] ELSE server
    <2>1. /\ client' \in Clients /\ client'.pc = "reading" /\ client'.read = n + 1
          /\ client'.outcome = "none" /\ client'.op = client.op
      <3>1. client.read + 1 \in Nat
        BY <1>2, <1>3
      <3> QED
        BY ONLY <1>1, <1>2, <1>6, <3>1 DEF Clients
    <2>2. RootsAsked = Cardinality({i \in 1..n : said[i].kind = "roots"})
      BY <1>2 DEF RootsAsked
    <2>3. /\ RootsAsked \in Nat
          /\ Cardinality({i \in 1..n + 1 : said[i].kind = "roots"})
                = IF frame.kind = "roots" THEN RootsAsked + 1 ELSE RootsAsked
      BY <1>2, <1>3, <2>2, RootsCounted
    <2>4. /\ server' \in Answers /\ server'.sent = said /\ server'.coming = server.coming
          /\ server'.stream = server.stream
          /\ server'.replies = IF frame.kind = "roots" THEN RootsAsked + 1 ELSE RootsAsked
      <3>1. server.replies + 1 \in Nat /\ server.replies \in Nat
        BY <1>3, <2>3
      <3> QED
        BY <1>2, <1>3, <1>6, <3>1 DEF Answers
    <2>5. RootsAsked' = Cardinality({i \in 1..n + 1 : said[i].kind = "roots"})
      BY <2>1, <2>4 DEF RootsAsked
    <2>6. n + 1 <= Len(said)
      BY ONLY <1>3
    <2>7. ReadsEvents'
      BY <1>3, <2>1, <2>4 DEF ReadsEvents
    <2>8. RepliesInv'
      BY <2>1, <2>3, <2>4, <2>5, <2>6, <2>7 DEF RepliesInv
    <2>9. BodyInv'
      BY <1>2, <1>3, <2>4 DEF BodyInv
    <2>10. HttpTypes' /\ ThreadInv' /\ VerdictInv' /\ RootsNeverStall'
      BY <1>1, <2>1, <2>4 DEF HttpTypes, ThreadInv, VerdictInv, RootsNeverStall
    <2> QED
      BY <2>8, <2>9, <2>10 DEF HttpInv
  <1> QED
    BY <1>2, <1>5, <1>6 DEF ReadEvent

\* The stream ends.
LEMMA ReadEndKeeps == HttpInv /\ ReadEnd => HttpInv'
  <1> SUFFICES ASSUME HttpInv, ReadEnd PROVE HttpInv'
    OBVIOUS
  <1>1. "failed" \in Outcomes \ {"honored", "ignored"}
    BY DEF Verdicts, Outcomes
  <1>2. Finish("failed") /\ client.pc = "reading" /\ call' = call /\ server' = server
    BY DEF ReadEnd
  <1>3. server' \in Answers /\ BodyInv'
    BY <1>2 DEF HttpInv, HttpTypes, BodyInv
  <1> QED
    BY <1>1, <1>2, <1>3, EndKeeps

\* Nothing comes in time.  A server that is not slow waits for an answer: it has
\* asked for more than the roots discovery has answered.
LEMMA TimeoutKeeps == HttpInv /\ Timeout => HttpInv'
  <1> SUFFICES ASSUME HttpInv, Timeout PROVE HttpInv'
    OBVIOUS
  <1>1. "timeout" \in Outcomes \ {"honored", "ignored"}
    BY DEF Verdicts, Outcomes
  <1>2. Finish("timeout") /\ client.pc = "reading" /\ call' = call /\ server' = server
    BY DEF Timeout
  <1>3. server' \in Answers /\ BodyInv' /\ BodyInv /\ server \in Answers
    BY <1>2 DEF HttpInv, HttpTypes, BodyInv
  <1>4. ASSUME client.op = "discover", ~server.slow,
               \A i \in DOMAIN server.sent : server.sent[i].kind # "sampling"
        PROVE  FALSE
    <2>1. server.coming # <<>> /\ Asked(server) > server.replies
      BY <1>3, <1>4 DEF Timeout, Stalled, Waits, Answers
    <2>2. PICK said : said = server.sent
      OBVIOUS
    <2>3. said \in Seq(Frames) /\ DOMAIN said = 1..Len(said) /\ Len(said) \in Nat
      BY <1>3, <2>2 DEF Answers
    <2>4. {i \in DOMAIN said : Asks(said[i])} = {i \in 1..Len(said) : said[i].kind = "roots"}
      BY <1>4, <2>2, <2>3 DEF Asks
    <2>5. Asked(server) = Cardinality({i \in 1..Len(said) : said[i].kind = "roots"})
      BY <2>2, <2>4 DEF Asked
    <2>6. CASE server.stream
      <3>1. ReadsEvents /\ client.read = Len(said) /\ server.replies = RootsAsked
        BY <1>2, <1>4, <2>2, <2>6 DEF ReadsEvents, Timeout, HttpInv, RepliesInv
      <3>2. RootsAsked = Asked(server)
        BY <2>2, <2>5, <3>1 DEF RootsAsked
      <3>3. Asked(server) \in Nat
        BY <1>3, <3>1, <3>2 DEF Answers
      <3> QED
        BY ONLY <2>1, <3>1, <3>2, <3>3
    <2>7. CASE ~server.stream
      <3>1. PICK m, k : m = Len(said) /\ k = Len(server.coming)
        OBVIOUS
      <3>2. m + k <= 1 /\ m \in Nat /\ k \in Nat /\ k # 0
        BY <1>3, <2>1, <2>2, <2>3, <2>7, <3>1 DEF BodyInv, Answers
      <3>3. m = 0
        BY ONLY <3>2
      <3>4. {i \in 1..Len(said) : said[i].kind = "roots"} = {}
        BY <3>1, <3>3
      <3>5. Asked(server) = 0
        BY <2>5, <3>4, FS_EmptySet
      <3>6. server.replies \in Nat
        BY <1>3 DEF Answers
      <3> QED
        BY ONLY <2>1, <3>5, <3>6
    <2> QED
      BY <2>6, <2>7
  <1> QED
    BY <1>1, <1>2, <1>3, <1>4, EndKeeps

\* A message moves from what is to come to what was sent; nobody has judged the
\* server yet.
LEMMA ServerSendsKeeps == HttpInv /\ ServerSends => HttpInv'
  <1> SUFFICES ASSUME HttpInv, ServerSends PROVE HttpInv'
    OBVIOUS
  <1>1. /\ client' = client /\ call' = call /\ server \in Answers /\ server.coming # <<>>
        /\ client.pc = "reading" \/ call.pc = "reading"
        /\ server' = [server EXCEPT !.sent = Append(@, Head(server.coming)),
                                    !.coming = Tail(server.coming)]
    BY DEF ServerSends, HttpInv, HttpTypes
  <1>2. client.outcome = "none" /\ call.pc # "done" /\ client.pc # "idle"
    BY <1>1 DEF HttpInv, ThreadInv
  <1>3. PICK said, coming : said = server.sent /\ coming = server.coming
    OBVIOUS
  <1>4. said \in Seq(Frames) /\ coming \in Seq(Frames) /\ coming # <<>> /\ Len(said) \in Nat
    BY <1>1, <1>3 DEF Answers
  <1>5. PICK more, rest : more = Append(said, Head(coming)) /\ rest = Tail(coming)
    OBVIOUS
  <1>6. /\ more \in Seq(Frames) /\ rest \in Seq(Frames) /\ Len(more) = Len(said) + 1
        /\ Len(rest) = Len(coming) - 1 /\ Len(coming) \in Nat /\ Len(coming) > 0
        /\ \A i \in 1..Len(said) : more[i] = said[i]
    BY ONLY <1>4, <1>5
  <1>7. server' = [server EXCEPT !.sent = more, !.coming = rest]
    BY <1>1, <1>3, <1>5
  <1>8. /\ server' \in Answers /\ server'.sent = more /\ server'.coming = rest
        /\ server'.stream = server.stream /\ server'.replies = server.replies
    BY ONLY <1>1, <1>6, <1>7 DEF Answers
  <1>9. BodyInv'
    <2>1. Len(more) + Len(rest) = Len(said) + Len(coming)
      BY ONLY <1>4, <1>6
    <2> QED
      BY <1>3, <1>8, <2>1 DEF HttpInv, BodyInv
  <1>10. RepliesInv'
    <2>1. CASE client.pc = "reading"
      <3>1. client.read <= Len(said) /\ client.read \in Nat
        BY <1>3, <2>1 DEF HttpInv, RepliesInv, HttpTypes, Clients
      <3>2. client.read <= Len(more)
        BY ONLY <1>4, <1>6, <3>1
      <3>3. \A i \in 1..client.read : i \in 1..Len(said)
        BY ONLY <1>4, <3>1
      <3>4. {i \in 1..client.read : more[i].kind = "roots"} = {i \in 1..client.read : said[i].kind = "roots"}
        BY <1>6, <3>3
      <3>5. RootsAsked' = RootsAsked
        BY <1>1, <1>3, <1>8, <3>4 DEF RootsAsked
      <3>6. ReadsEvents' <=> ReadsEvents
        BY <1>1, <1>8 DEF ReadsEvents
      <3> QED
        BY <1>1, <1>8, <2>1, <3>2, <3>5, <3>6 DEF HttpInv, RepliesInv
    <2>2. CASE client.pc # "reading"
      BY <1>1, <2>2 DEF HttpInv, RepliesInv
    <2> QED
      BY <2>1, <2>2
  <1>11. HttpTypes' /\ ThreadInv' /\ VerdictInv' /\ RootsNeverStall'
    BY <1>1, <1>2, <1>8 DEF HttpInv, HttpTypes, ThreadInv, VerdictInv, RootsNeverStall
  <1> QED
    BY <1>9, <1>10, <1>11 DEF HttpInv

\* The POST of the cancelled call.
LEMMA CallPostsKeeps == HttpInv /\ CallPosts => HttpInv'
  <1> SUFFICES ASSUME HttpInv, CallPosts PROVE HttpInv'
    OBVIOUS
  <1>1. /\ client' = client /\ call \in Calls /\ call.pc = "posting" /\ client \in Clients
        /\ client.pc \in {"notifying", "joining", "joining_unnotified"} /\ client.outcome = "none"
    BY DEF HttpInv, HttpTypes, ThreadInv, CallPosts, Clients
  <1>2. CASE Receives /\ call' = [call EXCEPT !.pc = "reading"]
    <2>1. server' \in Answers /\ BodyInv'
      BY <1>2, BodyReceived
    <2>2. call' \in Calls /\ call'.pc = "reading"
      BY ONLY <1>1, <1>2 DEF Calls
    <2> QED
      BY <1>1, <2>1, <2>2
         DEF HttpInv, HttpTypes, ThreadInv, RepliesInv, VerdictInv, RootsNeverStall
  <1>3. CASE call' = [pc |-> "done", verdict |-> "failed"] /\ server' = server
    <2>1. call' \in Calls /\ call'.pc = "done" /\ call'.verdict = "failed"
      BY <1>3 DEF Calls, Verdicts, Outcomes
    <2> QED
      BY <1>1, <1>3, <2>1
         DEF HttpInv, HttpTypes, ThreadInv, BodyInv, RepliesInv, VerdictInv, Judged, RootsNeverStall
  <1> QED
    BY <1>2, <1>3 DEF CallPosts

\* The thread of the call ends with a verdict on a server that does no more.
LEMMA CallEndKeeps == HttpInv /\ (CallReads \/ CallTimesOut) => HttpInv'
  <1> SUFFICES ASSUME HttpInv, CallReads \/ CallTimesOut PROVE HttpInv'
    OBVIOUS
  <1>1. /\ client' = client /\ server' = server /\ call \in Calls /\ call.pc = "reading"
        /\ client \in Clients /\ server \in Answers
    BY DEF HttpInv, HttpTypes, CallReads, CallTimesOut
  <1>2. client.pc \in {"notifying", "joining", "joining_unnotified"} /\ client.outcome = "none"
    BY <1>1 DEF HttpInv, ThreadInv, Clients
  <1>3. PICK v \in Verdicts : call' = [pc |-> "done", verdict |-> v] /\ Judged(v)
    <2>1. CASE CallReads
      BY <2>1, VerdictSound DEF CallReads, HttpInv
    <2>2. CASE CallTimesOut
      <3>1. "honored" \in Verdicts
        BY DEF Verdicts
      <3>2. Judged("honored")
        BY <2>2 DEF CallTimesOut, Judged
      <3> QED
        BY <2>2, <3>1, <3>2 DEF CallTimesOut
    <2> QED
      BY <2>1, <2>2
  <1>4. call' \in Calls /\ call'.pc = "done" /\ call'.verdict = v
    BY <1>3 DEF Calls
  <1>5. Judged(v)'
    BY <1>1, <1>3 DEF Judged, AnsweredBy, Stalled, Waits, Asked
  <1>6. VerdictInv'
    BY <1>1, <1>2, <1>4, <1>5 DEF VerdictInv, Judged, AnsweredBy, Stalled, Waits, Asked
  <1>7. HttpTypes' /\ ThreadInv' /\ BodyInv' /\ RootsNeverStall'
    BY <1>1, <1>2, <1>4 DEF HttpInv, HttpTypes, ThreadInv, BodyInv, RootsNeverStall
  <1>8. RepliesInv'
    BY <1>1, <1>2 DEF RepliesInv
  <1> QED
    BY <1>6, <1>7, <1>8 DEF HttpInv

\* The cancellation is sent, or is not.
LEMMA NotifyKeeps == HttpInv /\ Notify => HttpInv'
  <1> SUFFICES ASSUME HttpInv, Notify PROVE HttpInv'
    OBVIOUS
  <1>1. PICK next \in {"joining", "joining_unnotified"} : client' = [client EXCEPT !.pc = next]
    BY DEF Notify
  <1>2. /\ client \in Clients /\ client.pc = "notifying" /\ call' = call /\ server' = server
        /\ client.outcome = "none" /\ call.pc # "none"
    BY DEF HttpInv, HttpTypes, ThreadInv, Notify
  <1>3. client' \in Clients /\ client'.pc = next /\ client'.outcome = "none"
    BY ONLY <1>1, <1>2 DEF Clients
  <1>4. HttpTypes' /\ ThreadInv' /\ BodyInv' /\ RootsNeverStall' /\ RepliesInv'
    BY <1>1, <1>2, <1>3
       DEF HttpInv, HttpTypes, ThreadInv, BodyInv, RootsNeverStall, RepliesInv
  <1>5. VerdictInv'
    BY <1>2, <1>3 DEF HttpInv, VerdictInv, Judged, AnsweredBy, Stalled, Waits, Asked
  <1> QED
    BY <1>4, <1>5 DEF HttpInv

\* The client takes the verdict of the thread it has joined.
LEMMA JoinCallKeeps == HttpInv /\ Join => HttpInv'
  <1> SUFFICES ASSUME HttpInv, Join PROVE HttpInv'
    OBVIOUS
  <1>1. PICK o : o = IF client.pc = "joining" THEN call.verdict ELSE "failed"
    OBVIOUS
  <1>2. o \in Outcomes /\ client \in Clients /\ call \in Calls
    BY <1>1 DEF HttpInv, HttpTypes, Calls, Verdicts, Outcomes
  <1>3. Finish(o) /\ call' = call /\ server' = server /\ call.pc = "done"
        /\ client.pc \in {"joining", "joining_unnotified"}
    BY <1>1 DEF Join
  <1>4. /\ client' \in Clients /\ client'.pc = "idle" /\ client'.op = client.op
        /\ client'.outcome \in {"exhausted", o}
    BY <1>2, <1>3, FinishEnds
  <1>5. VerdictInv'
    <2>1. client'.outcome \in {"honored", "ignored"} => client'.outcome = call.verdict
      BY <1>1, <1>4
    <2> QED
      BY <1>3, <2>1 DEF HttpInv, VerdictInv, Judged, AnsweredBy, Stalled, Waits, Asked
  <1>6. o # "timeout"
    BY <1>1 DEF HttpInv, HttpTypes, Calls, Verdicts
  <1>7. RootsNeverStall'
    BY <1>4, <1>6 DEF RootsNeverStall
  <1>8. HttpTypes' /\ ThreadInv' /\ BodyInv' /\ RepliesInv'
    BY <1>2, <1>3, <1>4 DEF HttpInv, HttpTypes, ThreadInv, BodyInv, RepliesInv
  <1> QED
    BY <1>5, <1>7, <1>8 DEF HttpInv

\* Every step keeps the inductive invariant.
LEMMA NextHttpInv == HttpInv /\ [HttpNext]_httpVars => HttpInv'
  <1> SUFFICES ASSUME HttpInv, [HttpNext]_httpVars PROVE HttpInv'
    OBVIOUS
  <1>1. CASE Exhaust
    BY <1>1 DEF Exhaust, HttpInv, HttpTypes, ThreadInv, BodyInv, RepliesInv, ReadsEvents, RootsAsked,
                VerdictInv, Judged, AnsweredBy, Stalled, Waits, Asked, RootsNeverStall
  <1>2. CASE UNCHANGED httpVars
    BY <1>2 DEF httpVars, HttpInv, HttpTypes, ThreadInv, BodyInv, RepliesInv, ReadsEvents, RootsAsked,
                VerdictInv, Judged, AnsweredBy, Stalled, Waits, Asked, RootsNeverStall
  <1>3. CASE CallReads \/ CallTimesOut
    BY <1>3, CallEndKeeps
  <1>4. CASE Notify \/ Join \/ CallPosts
    BY <1>4, NotifyKeeps, JoinCallKeeps, CallPostsKeeps
  <1>5. CASE ReadBody \/ ReadEvent \/ ReadEnd \/ ServerSends \/ Timeout
    BY <1>5, ReadBodyKeeps, ReadEventKeeps, ReadEndKeeps, ServerSendsKeeps, TimeoutKeeps
  <1>6. CASE Post \/ \E op \in Operations : Start(op)
    BY <1>6, PostKeeps, StartOpKeeps
  <1> QED
    BY <1>1, <1>2, <1>3, <1>4, <1>5, <1>6 DEF HttpNext

\* For any scripts of any server: a discovery that timed out met a server that
\* was slow or asked for what nobody had declared.
THEOREM RootsAreAnswered == HttpSpec => []RootsNeverStall
  <1>1. HttpInv => RootsNeverStall
    BY DEF HttpInv
  <1> QED
    BY InitHttpInv, NextHttpInv, <1>1, PTL DEF HttpSpec

\* For any scripts of any server: a cancellation returns when its call has
\* ended, with the verdict that server deserves.
THEOREM CancellationsAreJudged == HttpSpec => []CancellationJudged
  <1>1. HttpInv => CancellationJudged
    <2> SUFFICES ASSUME HttpInv PROVE CancellationJudged
      OBVIOUS
    <2>1. CallJoined
      BY DEF HttpInv, ThreadInv, CallJoined
    <2>2. Judged(client.outcome)
      BY DEF HttpInv, VerdictInv, Judged
    <2> QED
      BY <2>1, <2>2 DEF CancellationJudged
  <1> QED
    BY InitHttpInv, NextHttpInv, <1>1, PTL DEF HttpSpec

-----------------------------------------------------------------------------
(* The gates.                                                             *)

\* Nothing of the one contract is missing in the other, and the digests agree.
Unbroken(b, a) ==
    /\ Danger(a.class) <= Danger(b.class)
    /\ b.output # NoOutput => a.output # NoOutput /\ Digest(a.output) = Digest(b.output)
    /\ a.required \subseteq b.required
    /\ DOMAIN b.parameters \subseteq DOMAIN a.parameters
    /\ \A p \in DOMAIN b.parameters : Digest(a.parameters[p]) = Digest(b.parameters[p])

Kept(before, after) ==
    \A t \in DOMAIN before : t \in DOMAIN after /\ Unbroken(before[t], after[t])

ChainTypes ==
    /\ options \in Options /\ origin \in Reports /\ baseline \in Reports
    /\ accepted \in Nat
    /\ accepted = 0 => baseline = origin

ContractsKept ==
    options.breaking /\ accepted > 0 =>
        /\ origin.catalog # NoCatalog /\ baseline.catalog # NoCatalog
        /\ ~reviewed => Kept(origin.catalog, baseline.catalog)

CasesKept ==
    options.regression =>
        \A k \in DOMAIN origin.cases \ missing :
            k \in DOMAIN baseline.cases
            /\ (origin.cases[k] = "none" => baseline.cases[k] = "none")

ScoreKept ==
    options.dropped /\ accepted > 0 =>
        /\ Comparable(origin, baseline)
        /\ Measured(origin) \in Nat /\ Measured(baseline) \in Nat
        /\ Measured(origin) - Measured(baseline) <= accepted * options.maxDrop

GatesInv == ChainTypes /\ ContractsKept /\ CasesKept /\ ScoreKept
-----------------------------------------------------------------------------
\* What one transparent schema says, another one with its digest says too.
LEMMA DigestKeeps ==
    ASSUME NEW s, NEW z, IsSchema(s), Transparent(s), Transparent(z), Digest(s) = Digest(z)
    PROVE  Meaning(s) \subseteq Meaning(z)
<1> SUFFICES ASSUME NEW p \in DOMAIN s, ~IsEmpty(Statement(s, p))
             PROVE  Statement(s, p) \in Meaning(z)
    BY DEF Meaning
<1>1. Reached(s, p) /\ s[p].hidden = "nothing"
    BY DEF Transparent
<1>2. ~Followed(s, p) /\ s[p].ref = "none"
    <2>1. CASE s[p].ref # "none"
        <3>1. Followed(s, p) /\ s[p].says = "nothing" BY <2>1 DEF Transparent
        <3>2. Leads(s, p) BY <3>1 DEF Followed
        <3> QED BY <1>1, <3>1, <3>2 DEF IsEmpty, Statement
    <2>2. CASE s[p].ref = "none"
        BY <2>2 DEF IsSchema, Followed
    <2> QED BY <2>1, <2>2
<1>3. [at |-> Place(p), says |-> s[p].says, ref |-> "none"] \in Digest(z)
    BY <1>1, <1>2 DEF Digest
<1>4. PICK q \in DOMAIN z : /\ Place(q) = Place(p) /\ z[q].says = s[p].says
                            /\ z[q].ref = "none"
    BY <1>3 DEF Digest
<1>5. z[q].hidden = "nothing"
    BY DEF Transparent
<1>6. Statement(z, q) = Statement(s, p)
    BY <1>1, <1>2, <1>4, <1>5 DEF Statement
<1> QED BY <1>6 DEF Meaning

\* A digest tells transparent schemas apart by all they say: those that share
\* one say the same.
LEMMA DigestDecides ==
    ASSUME NEW s, NEW z, IsSchema(s), IsSchema(z), Transparent(s), Transparent(z),
           Digest(s) = Digest(z)
    PROVE  Meaning(s) = Meaning(z)
<1>1. Meaning(s) \subseteq Meaning(z) BY DigestKeeps
<1>2. Meaning(z) \subseteq Meaning(s) BY DigestKeeps
<1> QED BY <1>1, <1>2

\* The danger of a class is a number, so classes are ordered by it.
LEMMA DangerIsNat == \A c : Danger(c) \in Nat
BY DEF Danger

\* A tool without a breaking change and without one to review is unbroken.
LEMMA NoChangeBreaks ==
    ASSUME NEW b, NEW a, IsContract(b), IsContract(a),
           \A k \in ToolChanges(b, a) : Severity(k, b.class, a.class) = "compatible"
    PROVE  Unbroken(b, a)
<1>1. Danger(a.class) <= Danger(b.class)
    <2>1. CASE a.class = b.class
        BY <2>1, DangerIsNat
    <2>2. CASE a.class # b.class
        <3>1. "class-changed" \in ToolChanges(b, a)
            BY <2>2 DEF ToolChanges, Kinds
        <3>2. a.class # "writer" /\ ~(b.class = "read-only" /\ a.class = "unannotated")
            BY <3>1 DEF Severity
        <3> QED BY <3>2, <2>2 DEF IsContract, Classes, Danger
    <2> QED BY <2>1, <2>2
<1>2. b.output # NoOutput => a.output # NoOutput /\ Digest(a.output) = Digest(b.output)
    <2>1. "output-schema-removed" \notin ToolChanges(b, a) BY DEF Severity
    <2>2. "output-schema-changed" \notin ToolChanges(b, a) BY DEF Severity
    <2> QED BY <2>1, <2>2 DEF ToolChanges, Kinds
<1>3. a.required \subseteq b.required
    <2>1. "parameter-required" \notin ToolChanges(b, a) BY DEF Severity
    <2>2. a.required \ b.required = {} BY <2>1 DEF ToolChanges, Kinds
    <2> QED BY <2>2
<1>4. DOMAIN b.parameters \subseteq DOMAIN a.parameters
    <2>1. "parameter-removed" \notin ToolChanges(b, a) BY DEF Severity
    <2>2. ParametersRemoved(b, a) = {} BY <2>1 DEF ToolChanges, Kinds
    <2> QED BY <2>2 DEF ParametersRemoved
<1>5. \A p \in DOMAIN b.parameters : Digest(a.parameters[p]) = Digest(b.parameters[p])
    <2>1. "parameter-changed" \notin ToolChanges(b, a) BY DEF Severity
    <2>2. ParametersChanged(b, a) = {} BY <2>1 DEF ToolChanges, Kinds
    <2> QED BY <2>2, <1>4 DEF ParametersChanged
<1> QED BY <1>1, <1>2, <1>3, <1>4, <1>5 DEF Unbroken

\* A severity is one of three.
LEMMA Severities ==
    ASSUME NEW k, NEW from, NEW to
    PROVE  Severity(k, from, to) \in {"breaking", "review", "compatible"}
BY DEF Severity

\* Catalogs without a breaking change and without one to review.
LEMMA NoChangeKeeps ==
    ASSUME NEW before, NEW after,
           \A t \in DOMAIN before : IsContract(before[t]),
           \A t \in DOMAIN after : IsContract(after[t]),
           ~HasChange(before, after, "breaking"), ~HasChange(before, after, "review")
    PROVE  Kept(before, after)
<1> SUFFICES ASSUME NEW t \in DOMAIN before
             PROVE  t \in DOMAIN after /\ Unbroken(before[t], after[t])
    BY DEF Kept
<1>1. t \in DOMAIN after
    <2>1. Severity("tool-removed", "none", "none") = "breaking" BY DEF Severity
    <2> QED BY <2>1 DEF HasChange
<1>2. ASSUME NEW k \in ToolChanges(before[t], after[t])
      PROVE  Severity(k, before[t].class, after[t].class) = "compatible"
    BY <1>1, <1>2, Severities DEF HasChange
<1> QED BY <1>1, <1>2, NoChangeBreaks

\* Unbroken is transitive, and so is Kept.
LEMMA KeptTransitive ==
    ASSUME NEW x, NEW y, NEW z, Kept(x, y), Kept(y, z)
    PROVE  Kept(x, z)
<1> SUFFICES ASSUME NEW t \in DOMAIN x
             PROVE  t \in DOMAIN z /\ Unbroken(x[t], z[t])
    BY DEF Kept
<1>1. t \in DOMAIN y /\ Unbroken(x[t], y[t]) BY DEF Kept
<1>2. t \in DOMAIN z /\ Unbroken(y[t], z[t]) BY <1>1 DEF Kept
<1>3. Danger(z[t].class) <= Danger(x[t].class)
    BY <1>1, <1>2, DangerIsNat DEF Unbroken
<1> QED BY <1>1, <1>2, <1>3 DEF Unbroken

\* An unbroken contract serves its former callers.
LEMMA UnbrokenServes ==
    ASSUME NEW b, NEW a, IsContract(b), IsContract(a), Unbroken(b, a)
    PROVE  Serves(a, b)
<1>1. ASSUME b.output # NoOutput
      PROVE  /\ a.output # NoOutput
             /\ Transparent(b.output) /\ Transparent(a.output) =>
                  Accepts(Meaning(a.output)) \subseteq Accepts(Meaning(b.output))
    <2>1. a.output # NoOutput /\ Digest(a.output) = Digest(b.output)
        BY <1>1 DEF Unbroken
    <2>2. IsSchema(a.output) /\ IsSchema(b.output)
        BY <1>1, <2>1 DEF IsContract
    <2>3. ASSUME Transparent(b.output), Transparent(a.output)
          PROVE  Accepts(Meaning(a.output)) = Accepts(Meaning(b.output))
        <3>1. Meaning(a.output) = Meaning(b.output)
            BY <2>1, <2>2, <2>3, DigestDecides
        <3> QED BY <3>1
    <2> QED BY <2>1, <2>3
<1>2. ASSUME NEW args \in Arguments, Knows(b, args)
      PROVE  Knows(a, args)
    BY <1>2 DEF Unbroken, Knows
<1>3. ASSUME NEW args \in Arguments, Knows(b, args),
             NEW p \in Rejected(a, args), p \notin Opaque(b), p \notin Opaque(a)
      PROVE  p \in Rejected(b, args)
    <2>1. p \in DOMAIN args /\ p \in DOMAIN b.parameters /\ p \in DOMAIN a.parameters
        BY <1>3 DEF Rejected, Knows, Unbroken
    <2>2. Transparent(b.parameters[p]) /\ Transparent(a.parameters[p])
        BY <1>3, <2>1 DEF Opaque
    <2>3. /\ IsSchema(b.parameters[p]) /\ IsSchema(a.parameters[p])
          /\ Digest(a.parameters[p]) = Digest(b.parameters[p])
        BY <2>1 DEF IsContract, Unbroken
    <2>4. Meaning(a.parameters[p]) = Meaning(b.parameters[p])
        BY <2>2, <2>3, DigestDecides
    <2> QED BY <1>3, <2>1, <2>4 DEF Rejected
<1> QED BY <1>1, <1>2, <1>3 DEF Serves, Unbroken
-----------------------------------------------------------------------------
LEMMA InitGatesInv == GatesInit => GatesInv
BY GatesAssumption DEF GatesInit, GatesInv, ChainTypes, ContractsKept, CasesKept, ScoreKept

\* The steps that leave the chain as it is.
LEMMA ChainUnchanged ==
    ASSUME GatesInv, UNCHANGED <<options, origin, baseline, accepted, missing, reviewed>>
    PROVE  GatesInv'
BY DEF GatesInv, ChainTypes, ContractsKept, CasesKept, ScoreKept, Measured

\* A comparison that passes extends the chain by the new report.
LEMMA DiffKeepsGatesInv ==
    ASSUME GatesInv, NEW r \in Reports, DiffReport(r), exit' = "ok"
    PROVE  GatesInv'
<1>1. /\ baseline' = r /\ accepted' = accepted + 1
      /\ missing' = missing \cup (DOMAIN baseline.cases \ DOMAIN r.cases)
      /\ reviewed' = (reviewed \/ (options.breaking
                                    /\ HasChange(baseline.catalog, r.catalog, "review")))
      /\ UNCHANGED <<options, origin>>
    BY DEF DiffReport
<1>2. ~Unusable(baseline, r) /\ ~Gated(baseline, r)
    BY DEF DiffReport, DiffExit
<1>3. ChainTypes'
    BY <1>1 DEF GatesInv, ChainTypes
<1>4. ContractsKept'
    <2> SUFFICES ASSUME options.breaking
                 PROVE  /\ origin.catalog # NoCatalog /\ r.catalog # NoCatalog
                        /\ ~reviewed' => Kept(origin.catalog, r.catalog)
        BY <1>1 DEF ContractsKept
    <2>1. baseline.catalog # NoCatalog /\ r.catalog # NoCatalog
        BY <1>2 DEF Unusable
    <2>2. origin.catalog # NoCatalog
        BY <2>1 DEF GatesInv, ChainTypes, ContractsKept
    <2>3. ASSUME ~reviewed' PROVE Kept(origin.catalog, r.catalog)
        <3>1. ~reviewed /\ ~HasChange(baseline.catalog, r.catalog, "review")
            BY <1>1, <2>3
        <3>2. ~HasChange(baseline.catalog, r.catalog, "breaking")
            BY <1>2 DEF Gated
        <3>3. Kept(baseline.catalog, r.catalog)
            <4>1. IsReport(baseline) /\ IsReport(r)
                BY GatesAssumption DEF GatesInv, ChainTypes
            <4> QED BY <2>1, <3>1, <3>2, <4>1, NoChangeKeeps DEF IsReport
        <3>4. CASE accepted = 0
            BY <3>3, <3>4 DEF GatesInv, ChainTypes
        <3>5. CASE accepted > 0
            <4>1. Kept(origin.catalog, baseline.catalog)
                BY <3>1, <3>5 DEF GatesInv, ContractsKept
            <4> QED BY <4>1, <3>3, KeptTransitive
        <3> QED BY <3>4, <3>5 DEF GatesInv, ChainTypes
    <2> QED BY <2>1, <2>2, <2>3
<1>5. CasesKept'
    <2> SUFFICES ASSUME options.regression, NEW k \in DOMAIN origin.cases \ missing'
                 PROVE  k \in DOMAIN r.cases
                        /\ (origin.cases[k] = "none" => r.cases[k] = "none")
        BY <1>1 DEF CasesKept
    <2>1. k \in DOMAIN baseline.cases /\ (origin.cases[k] = "none" => baseline.cases[k] = "none")
        BY <1>1 DEF GatesInv, CasesKept
    <2>2. k \in DOMAIN r.cases
        BY <1>1, <2>1
    <2>3. Regressed(baseline, r) = {}
        BY <1>2 DEF Gated
    <2> QED BY <2>1, <2>2, <2>3 DEF Regressed, Matched
<1>6. ScoreKept'
    <2> SUFFICES ASSUME options.dropped
                 PROVE  /\ Comparable(origin, r)
                        /\ Measured(origin) \in Nat /\ Measured(r) \in Nat
                        /\ Measured(origin) - Measured(r) <= (accepted + 1) * options.maxDrop
        BY <1>1 DEF ScoreKept, Measured
    <2>1. /\ Comparable(baseline, r)
          /\ Measured(baseline) # NoScore /\ Measured(r) # NoScore
        BY <1>2 DEF Unusable
    <2>2. options.maxDrop \in Nat /\ accepted \in Nat
        BY GatesAssumption DEF GatesInv, ChainTypes
    <2>3. Measured(baseline) \in Nat /\ Measured(r) \in Nat
        BY <2>1, GatesAssumption DEF GatesInv, ChainTypes, IsReport, Measured
    <2>4. Measured(baseline) - Measured(r) <= options.maxDrop
        BY <1>2, <2>2, <2>3 DEF Gated, Drop
    <2>5. (accepted + 1) * options.maxDrop = accepted * options.maxDrop + options.maxDrop
        BY <2>2
    <2>6. accepted * options.maxDrop \in Nat
        BY <2>2
    <2>7. CASE accepted = 0
        BY <2>1, <2>2, <2>3, <2>4, <2>5, <2>7 DEF GatesInv, ChainTypes
    <2>8. CASE accepted > 0
        <3>1. /\ Comparable(origin, baseline) /\ Measured(origin) \in Nat
              /\ Measured(origin) - Measured(baseline) <= accepted * options.maxDrop
            BY <2>8 DEF GatesInv, ScoreKept
        <3>2. Comparable(origin, r) BY <3>1, <2>1 DEF Comparable
        <3>3. Measured(origin) - Measured(r) <= accepted * options.maxDrop + options.maxDrop
            BY <3>1, <2>2, <2>3, <2>4, <2>6
        <3> QED BY <3>1, <3>2, <3>3, <2>3, <2>5
    <2> QED BY <2>2, <2>7, <2>8
<1> QED BY <1>3, <1>4, <1>5, <1>6 DEF GatesInv

LEMMA NextGatesInv == GatesInv /\ [GatesNext]_gateVars => GatesInv'
<1> SUFFICES ASSUME GatesInv, [GatesNext]_gateVars PROVE GatesInv'
    OBVIOUS
<1>1. CASE UNCHANGED gateVars
    BY <1>1, ChainUnchanged DEF gateVars
<1>2. ASSUME NEW r \in Reports, DiffReport(r) PROVE GatesInv'
    <2>1. CASE exit' = "ok" BY <1>2, <2>1, DiffKeepsGatesInv
    <2>2. CASE exit' # "ok" BY <1>2, <2>2, ChainUnchanged DEF DiffReport
    <2> QED BY <2>1, <2>2
<1>3. ASSUME NEW r \in Reports, Regenerate(r) PROVE GatesInv'
    BY <1>3 DEF Regenerate, GatesInv, ChainTypes, ContractsKept, CasesKept, ScoreKept
<1> QED BY <1>1, <1>2, <1>3 DEF GatesNext

LEMMA GatesInvariant == GatesSpec => []GatesInv
<1>1. GatesInit => GatesInv BY InitGatesInv
<1>2. GatesInv /\ [GatesNext]_gateVars => GatesInv' BY NextGatesInv
<1> QED BY <1>1, <1>2, PTL DEF GatesSpec

\* While --fail-on-breaking passes and nothing is listed for review, the newest
\* catalog serves every caller of the first, however long the chain: breaking
\* changes cannot be brought in by steps that each look compatible.  Only of
\* the schemas at the two ends need a digest show all they say.
THEOREM CallersAreServed == GatesSpec => []CallersServed
<1>1. GatesInv => CallersServed
    <2> SUFFICES ASSUME GatesInv, options.breaking, accepted > 0, ~reviewed,
                        NEW t \in DOMAIN origin.catalog
                 PROVE  t \in DOMAIN baseline.catalog /\ Serves(baseline.catalog[t], origin.catalog[t])
        BY DEF CallersServed
    <2>1. /\ origin.catalog # NoCatalog /\ baseline.catalog # NoCatalog
          /\ t \in DOMAIN baseline.catalog /\ Unbroken(origin.catalog[t], baseline.catalog[t])
        BY DEF GatesInv, ContractsKept, Kept
    <2>2. IsReport(origin) /\ IsReport(baseline)
        BY GatesAssumption DEF GatesInv, ChainTypes
    <2>3. IsContract(origin.catalog[t]) /\ IsContract(baseline.catalog[t])
        BY <2>1, <2>2 DEF IsReport
    <2> QED BY <2>1, <2>3, UnbrokenServes
<1> QED BY <1>1, GatesInvariant, PTL

\* With --fail-on-regression, only a case that a report lacked can go from
\* passed to failed along the chain.
THEOREM RegressionsAreSeen == GatesSpec => []NoRegressionSlipsBy
<1>1. GatesInv => NoRegressionSlipsBy
    BY DEF GatesInv, CasesKept, NoRegressionSlipsBy
<1> QED BY <1>1, GatesInvariant, PTL

\* With --max-readiness-drop, readiness falls by at most the allowance of each
\* comparison along the chain, and is measured the same way all along.
THEOREM DriftIsBounded == GatesSpec => []DriftBounded
<1>1. GatesInv => DriftBounded
    BY DEF GatesInv, ScoreKept, DriftBounded
<1> QED BY <1>1, GatesInvariant, PTL

-----------------------------------------------------------------------------
(* Guidance.                                                              *)

NoTools == [tools |-> <<>>, next |-> NoCursor]
Page == Pages \cup {NoTools}
ToolsOf(page) == {page.tools[i] : i \in DOMAIN page.tools}

GuidanceTypes ==
    /\ stage \in {"connect", "initialize", "settle", "list", "judge", "report", "done"}
    /\ at \in Nat /\ (stage \in {"connect", "initialize", "settle", "list"} => at \in Positions)
    /\ mentioned \in [Positions -> SUBSET ToolNames]
    /\ listed \in [Positions -> SUBSET ToolNames]
    /\ served \in [Positions -> Seq(Page)]
    /\ guide.complete \in BOOLEAN
    /\ guide = [complete |-> guide.complete, passed |-> guide.passed,
                defects |-> guide.defects, candidates |-> guide.candidates]

\* While the discovery counts as complete, the profiles before this one were
\* listed whole, this one as far as its session answered, the others not yet.
Before(p) == stage \in {"judge", "report", "done"} \/ p < at
DiscoveryInv ==
    guide.complete =>
        /\ \A p \in Positions : listed[p] = Offered(p)
        /\ \A p \in Positions : Before(p) => WholeCatalog(p)
        /\ \A p \in Positions : ~Before(p) /\ (p = at => stage # "list") => served[p] = <<>>

\* A reference to review is one to a tool that other profiles listed.
Reviewable(c) ==
    c.tool \notin listed[c.profile] /\ c.in = {q \in Positions : c.tool \in listed[q]} /\ c.in # {}

\* What was judged, and what the process said of it.
JudgedInv ==
    /\ guide.complete /\ stage \in {"report", "done"} =>
         (guide.passed = {FALSE} <=> \E p \in Positions : ~(RequiredTools \subseteq listed[p]))
    /\ \A c \in guide.candidates : guide.complete /\ stage \in {"report", "done"} /\ Reviewable(c)
                                   /\ c.profile \in Positions
    /\ status # "none" => stage = "done"
    /\ status \in {"success", "verdict"} =>
         guide.complete /\ (status = "verdict" <=> guide.passed = {FALSE})

GuidanceInv == GuidanceTypes /\ DiscoveryInv /\ JudgedInv

\* Nothing has been listed.
LEMMA InitGuidanceInv == GuidanceInit => GuidanceInv
  <1> SUFFICES ASSUME GuidanceInit PROVE GuidanceInv
    OBVIOUS
  <1>1. GuidanceTypes
    BY GuidanceAssumption DEF GuidanceInit, GuidanceTypes, Positions
  <1>2. DiscoveryInv
    BY GuidanceAssumption DEF GuidanceInit, DiscoveryInv, Before, Offered, Positions
  <1>3. JudgedInv
    BY DEF GuidanceInit, JudgedInv
  <1> QED
    BY <1>1, <1>2, <1>3 DEF GuidanceInv

\* A tool is offered when some page has it.
LEMMA OfferedOnPages ==
    \A p, t : t \in Offered(p) <=> \E k \in DOMAIN served[p] : t \in ToolsOf(served[p][k])
  BY DEF Offered, ToolsOf

\* A page more is its tools more, and the last page decides.
LEMMA PageServed ==
    ASSUME GuidanceTypes, NEW p \in Positions, NEW page \in Page,
           served' = [served EXCEPT ![p] = Append(@, page)]
    PROVE  /\ served' \in [Positions -> Seq(Page)]
           /\ Offered(p)' = Offered(p) \cup ToolsOf(page)
           /\ WholeCatalog(p)' <=> page.next = NoCursor
           /\ \A q \in Positions \ {p} : served'[q] = served[q] 
  <1>1. /\ served'[p] = Append(served[p], page) /\ served[p] \in Seq(Page)
        /\ \A q \in Positions \ {p} : served'[q] = served[q]
    BY DEF GuidanceTypes
  <1>2. /\ served'[p] \in Seq(Page) /\ served'[p] # <<>>
        /\ DOMAIN served'[p] = DOMAIN served[p] \cup {Len(served[p]) + 1}
        /\ Len(served'[p]) = Len(served[p]) + 1 
        /\ \A k \in DOMAIN served[p] : served'[p][k] = served[p][k]
        /\ served'[p][Len(served[p]) + 1] = page
    BY <1>1, AppendProperties
  <1>3. \A t : t \in Offered(p)' <=> \E k \in DOMAIN served'[p] : t \in ToolsOf(served'[p][k])
    BY DEF Offered, ToolsOf
  <1>4. Offered(p)' = Offered(p) \cup ToolsOf(page)
    <2>1. \A t : t \in Offered(p)' <=> t \in Offered(p) \/ t \in ToolsOf(page)
      BY <1>2, <1>3, OfferedOnPages
    <2> QED
      BY <2>1
  <1> QED
    BY <1>1, <1>2, <1>4 DEF WholeCatalog, GuidanceTypes

\* Giving the discovery up leaves nothing to be judged.
LEMMA AbandonKeeps ==
    ASSUME GuidanceInv, stage \in {"connect", "initialize", "settle", "list"}, Abandon,
           served' \in [Positions -> Seq(Page)]
    PROVE  GuidanceInv'
  <1>1. /\ guide' = [complete |-> FALSE, passed |-> {}, defects |-> guide.defects,
                     candidates |-> guide.candidates]
        /\ stage' \in {"connect", "judge"} /\ UNCHANGED <<listed, mentioned, status>>
        /\ at' = at + 1 /\ (stage' = "connect" => at # Profiles)
    BY DEF Abandon, NextProfile, GuidanceInv, GuidanceTypes
  <1>2. GuidanceTypes'
    BY <1>1, GuidanceAssumption DEF GuidanceInv, GuidanceTypes, Positions
  <1>3. DiscoveryInv' /\ JudgedInv'
    BY <1>1 DEF GuidanceInv, DiscoveryInv, JudgedInv
  <1> QED
    BY <1>2, <1>3 DEF GuidanceInv

\* A session that was not at work offers what it did.
LEMMA SameOffer ==
    ASSUME NEW q, served'[q] = served[q]
    PROVE  Offered(q)' = Offered(q) /\ (WholeCatalog(q)' <=> WholeCatalog(q))
  BY DEF Offered, WholeCatalog

\* A profile that was listed to its end is a profile more.
LEMMA ListedKeeps ==
    ASSUME GuidanceInv, NEW p \in Positions, p = at, stage \in {"settle", "list"}, NextProfile, UNCHANGED guide,
           served' \in [Positions -> Seq(Page)], listed' \in [Positions -> SUBSET ToolNames],
           \A q \in Positions \ {p} : served'[q] = served[q] /\ listed'[q] = listed[q],
           WholeCatalog(p)', guide.complete => listed'[p] = Offered(p)'
    PROVE  GuidanceInv'
  <1>1. /\ stage' = (IF at = Profiles THEN "judge" ELSE "connect") /\ at' = at + 1
        /\ UNCHANGED <<mentioned, status>> /\ at \in Positions
    BY DEF NextProfile, GuidanceInv, GuidanceTypes
  <1>2. GuidanceTypes'
    BY <1>1, GuidanceAssumption DEF GuidanceInv, GuidanceTypes, Positions
  <1>3. \A q \in Positions \ {p} : Offered(q)' = Offered(q) /\ (WholeCatalog(q)' <=> WholeCatalog(q))
    BY SameOffer
  <1>4. \A q \in Positions : Before(q)' => q = p \/ Before(q)
    BY <1>1, GuidanceAssumption DEF Before, Positions, GuidanceInv, GuidanceTypes
  <1>5. \A q \in Positions : ~Before(q)' => ~Before(q) /\ q # p
    BY <1>1, GuidanceAssumption DEF Before, Positions, GuidanceInv, GuidanceTypes
  <1>6. DiscoveryInv'
    <2> SUFFICES ASSUME guide.complete PROVE DiscoveryInv'
      BY DEF DiscoveryInv
    <2>1. \A q \in Positions : listed'[q] = Offered(q)'
      BY <1>3 DEF GuidanceInv, DiscoveryInv
    <2>2. \A q \in Positions : Before(q)' => WholeCatalog(q)'
      BY <1>3, <1>4 DEF GuidanceInv, DiscoveryInv
    <2>3. \A q \in Positions : ~Before(q)' => served'[q] = <<>>
      BY <1>5 DEF GuidanceInv, DiscoveryInv
    <2> QED
      BY <2>1, <2>2, <2>3 DEF DiscoveryInv
  <1>7. JudgedInv'
    BY <1>1 DEF GuidanceInv, JudgedInv
  <1> QED
    BY <1>2, <1>6, <1>7 DEF GuidanceInv

\* Every step keeps the inductive invariant.
LEMMA NextGuidanceInv == GuidanceInv /\ [GuidanceNext]_guidanceVars => GuidanceInv'
  <1> SUFFICES ASSUME GuidanceInv, [GuidanceNext]_guidanceVars PROVE GuidanceInv'
    OBVIOUS
  <1>1. CASE UNCHANGED guidanceVars
    <2>1. UNCHANGED <<stage, at, mentioned, listed, guide, status, served>>
      BY <1>1 DEF guidanceVars
    <2>2. GuidanceTypes'
      BY <2>1 DEF GuidanceInv, GuidanceTypes
    <2>3. DiscoveryInv'
      BY <2>1 DEF GuidanceInv, DiscoveryInv, Before, Offered, WholeCatalog
    <2>4. JudgedInv'
      BY <2>1 DEF GuidanceInv, JudgedInv, Reviewable
    <2> QED
      BY <2>2, <2>3, <2>4 DEF GuidanceInv
  <1>2. CASE ConnectProfile \/ Initialize \/ Settle
    <2>1. /\ UNCHANGED <<at, listed, guide, status, served>>
          /\ stage \in {"connect", "initialize", "settle"} /\ stage' \in {"initialize", "settle", "list"}
          /\ mentioned' \in [Positions -> SUBSET ToolNames]
      BY <1>2 DEF ConnectProfile, Initialize, Settle, GuidanceInv, GuidanceTypes
    <2>2. GuidanceTypes'
      BY <2>1 DEF GuidanceInv, GuidanceTypes
    <2>3. \A p \in Positions : /\ Offered(p)' = Offered(p) /\ (WholeCatalog(p)' <=> WholeCatalog(p))
                               /\ Before(p)' <=> Before(p)
      BY <2>1 DEF Offered, WholeCatalog, Before
    <2>4. DiscoveryInv'
      BY <2>1, <2>3 DEF GuidanceInv, DiscoveryInv
    <2>5. JudgedInv'
      BY <2>1 DEF GuidanceInv, JudgedInv
    <2> QED
      BY <2>2, <2>4, <2>5 DEF GuidanceInv
  <1>3. CASE InspectionFails
    BY <1>3, AbandonKeeps DEF InspectionFails, GuidanceInv, GuidanceTypes
  <1>4. CASE NoToolsCapability
    <2>1. stage = "settle" /\ NextProfile /\ UNCHANGED <<listed, guide>> /\ at \in Positions
          /\ served' = [served EXCEPT ![at] = <<NoTools>>]
      BY <1>4 DEF NoToolsCapability, NoTools, GuidanceInv, GuidanceTypes
    <2>5. PICK p \in Positions : p = at
      BY <2>1
    <2>2. /\ served' \in [Positions -> Seq(Page)] /\ served'[p] = <<NoTools>>
          /\ \A q \in Positions \ {p} : served'[q] = served[q]
      BY <2>1, <2>5 DEF GuidanceInv, GuidanceTypes, Page
    <2>3. WholeCatalog(p)' /\ Offered(p)' = {}
      <3>1. Len(served'[p]) = 1 /\ served'[p][1] = NoTools /\ served'[p] # <<>> /\ DOMAIN served'[p] = {1}
        BY <2>2
      <3>2. \A t : t \notin Offered(p)'
        BY <3>1 DEF Offered, NoTools
      <3> QED
        BY <3>1, <3>2 DEF WholeCatalog, NoTools
    <2>4. guide.complete => listed[p] = {}
      <3> SUFFICES ASSUME guide.complete PROVE listed[p] = {}
        OBVIOUS
      <3>1. served[p] = <<>> /\ listed[p] = Offered(p)
        BY <2>1, <2>5 DEF GuidanceInv, GuidanceTypes, DiscoveryInv, Before, Positions
      <3>2. \A t : t \notin Offered(p)
        BY <3>1, OfferedOnPages
      <3> QED
        BY <3>1, <3>2
    <2> QED
      BY <2>1, <2>2, <2>3, <2>4, <2>5, ListedKeeps DEF GuidanceInv, GuidanceTypes
  <1>5. CASE ListPage
    <2>1. PICK page \in Pages :
            /\ served' = [served EXCEPT ![at] = Append(@, page)]
            /\ \/ /\ page.next = NoCursor /\ NextProfile /\ UNCHANGED guide
                  /\ listed' = [listed EXCEPT ![at] = @ \cup ToolsOf(page)]
               \/ /\ page.next # NoCursor
                  /\ listed' = [listed EXCEPT ![at] = @ \cup ToolsOf(page)]
                  /\ UNCHANGED <<stage, at, mentioned, guide, status>>
               \/ Abandon
      BY <1>5 DEF ListPage, IsLast, ToolsOf
    <2>8. PICK p \in Positions : p = at
      BY <1>5 DEF ListPage, GuidanceInv, GuidanceTypes
    <2>2. stage = "list" /\ p = at /\ page \in Page
      BY <1>5, <2>8 DEF ListPage, Page
    <2>3. /\ served' \in [Positions -> Seq(Page)]
          /\ Offered(p)' = Offered(p) \cup ToolsOf(page)
          /\ WholeCatalog(p)' <=> page.next = NoCursor
          /\ \A q \in Positions \ {p} : served'[q] = served[q]
      BY <2>1, <2>2, PageServed DEF GuidanceInv
    <2>4. ToolsOf(page) \subseteq ToolNames
      BY GuidanceAssumption DEF ToolsOf
    <2>5. CASE page.next = NoCursor /\ NextProfile /\ UNCHANGED guide
               /\ listed' = [listed EXCEPT ![at] = @ \cup ToolsOf(page)]
      <3>1. /\ listed' \in [Positions -> SUBSET ToolNames]
            /\ listed'[p] = listed[p] \cup ToolsOf(page)
            /\ \A q \in Positions \ {p} : listed'[q] = listed[q]
        BY <2>2, <2>4, <2>5 DEF GuidanceInv, GuidanceTypes
      <3>2. guide.complete => listed'[p] = Offered(p)'
        BY <2>2, <2>3, <3>1 DEF GuidanceInv, DiscoveryInv
      <3> QED
        BY <2>2, <2>3, <2>5, <3>1, <3>2, ListedKeeps
    <2>6. CASE page.next # NoCursor /\ listed' = [listed EXCEPT ![at] = @ \cup ToolsOf(page)]
               /\ UNCHANGED <<stage, at, mentioned, guide, status>>
      <3>1. /\ listed' \in [Positions -> SUBSET ToolNames]
            /\ listed'[p] = listed[p] \cup ToolsOf(page)
            /\ \A q \in Positions \ {p} : listed'[q] = listed[q]
        BY <2>2, <2>4, <2>6 DEF GuidanceInv, GuidanceTypes
      <3>2. \A q \in Positions \ {p} : Offered(q)' = Offered(q) /\ (WholeCatalog(q)' <=> WholeCatalog(q))
        BY <2>3 DEF Offered, WholeCatalog
      <3>3. \A q \in Positions : (Before(q)' <=> Before(q)) /\ (Before(q) => q # p)
        BY <2>2, <2>6 DEF Before, GuidanceInv, GuidanceTypes, Positions
      <3>4. GuidanceTypes'
        BY <2>3, <2>6, <3>1 DEF GuidanceInv, GuidanceTypes
      <3>5. DiscoveryInv'
        BY <2>2, <2>3, <2>6, <3>1, <3>2, <3>3 DEF GuidanceInv, DiscoveryInv
      <3>6. JudgedInv'
        BY <2>2, <2>6 DEF GuidanceInv, JudgedInv
      <3> QED
        BY <3>4, <3>5, <3>6 DEF GuidanceInv
    <2>7. CASE Abandon
      BY <2>2, <2>3, <2>7, AbandonKeeps
    <2> QED
      BY <2>1, <2>5, <2>6, <2>7
  <1>6. CASE JudgeGuidance
    <2>1. /\ stage = "judge" /\ stage' = "report"
          /\ UNCHANGED <<at, mentioned, listed, status, served>>
      BY <1>6 DEF JudgeGuidance
    <2>2. /\ guide'.complete = guide.complete
          /\ guide' = [complete |-> guide'.complete, passed |-> guide'.passed,
                       defects |-> guide'.defects, candidates |-> guide'.candidates]
          /\ ~guide.complete => guide' = guide
          /\ guide.complete => guide'.passed = {guide'.defects = {}}
      BY <1>6 DEF JudgeGuidance, GuidanceInv, GuidanceTypes
    <2>3. guide.complete =>
            (guide'.defects = {} <=> \A p \in Positions : RequiredTools \subseteq listed[p])
      <3> SUFFICES ASSUME guide.complete
                   PROVE  guide'.defects = {} <=>
                            \A p \in Positions : RequiredTools \subseteq listed[p]
        OBVIOUS
      <3>1. guide'.defects = Findings([p \in Positions |-> RequiredTools])
        BY <1>6 DEF JudgeGuidance, GuidanceInv, GuidanceTypes
      <3>2. \A f : f \in guide'.defects <=>
              \E p \in Positions : \E t \in RequiredTools \ listed[p] :
                f = [profile |-> p, tool |-> t, in |-> {q \in Positions : t \in listed[q]}]
        BY <3>1 DEF Findings
      <3> QED
        BY <3>2
    <2>4. guide.complete => \A c \in guide'.candidates : Reviewable(c) /\ c.profile \in Positions
      <3> SUFFICES ASSUME guide.complete, NEW c \in guide'.candidates
                   PROVE  Reviewable(c) /\ c.profile \in Positions
        OBVIOUS
      <3>1. guide'.candidates = Findings([p \in Positions |-> mentioned[p] \cap Known])
        BY <1>6 DEF JudgeGuidance, GuidanceInv, GuidanceTypes
      <3>2. PICK p \in Positions : \E t \in (mentioned[p] \cap Known) \ listed[p] :
              c = [profile |-> p, tool |-> t, in |-> {q \in Positions : t \in listed[q]}]
        BY <3>1 DEF Findings
      <3>4. PICK t \in (mentioned[p] \cap Known) \ listed[p] :
              c = [profile |-> p, tool |-> t, in |-> {q \in Positions : t \in listed[q]}]
        BY <3>2
      <3>3. \E q \in Positions : t \in listed[q]
        BY <3>4 DEF Known
      <3> QED
        BY <3>2, <3>3, <3>4 DEF Reviewable
    <2>5. GuidanceTypes'
      BY <2>1, <2>2 DEF GuidanceInv, GuidanceTypes
    <2>6. DiscoveryInv'
      BY <2>1, <2>2, SameOffer DEF GuidanceInv, DiscoveryInv, Before
    <2>7. JudgedInv'
      <3>1. guide.complete => (guide'.passed = {FALSE} <=> guide'.defects # {})
        <4>1. CASE guide'.defects = {}
          BY <2>2, <4>1
        <4>2. CASE guide'.defects # {}
          BY <2>2, <4>2
        <4> QED
          BY <4>1, <4>2
      <3>2. guide.complete => (guide'.passed = {FALSE} <=>
              \E p \in Positions : ~(RequiredTools \subseteq listed'[p]))
        BY <2>1, <2>3, <3>1
      <3>3. \A c \in guide'.candidates : guide.complete /\ Reviewable(c)' /\ c.profile \in Positions
        BY <2>1, <2>2, <2>4 DEF GuidanceInv, JudgedInv, Reviewable
      <3> QED
        BY <2>1, <2>2, <3>2, <3>3 DEF GuidanceInv, JudgedInv
    <2> QED
      BY <2>5, <2>6, <2>7 DEF GuidanceInv
  <1>7. CASE ReportGuidance
    <2>1. /\ stage = "report" /\ stage' = "done"
          /\ UNCHANGED <<at, mentioned, listed, guide, served>>
          /\ status' = IF ~guide.complete THEN "infrastructure"
                       ELSE IF guide.passed = {FALSE} THEN "verdict" ELSE "success"
      BY <1>7 DEF ReportGuidance
    <2>2. GuidanceTypes'
      BY <2>1 DEF GuidanceInv, GuidanceTypes
    <2>3. DiscoveryInv'
      BY <2>1, SameOffer DEF GuidanceInv, DiscoveryInv, Before
    <2>4. JudgedInv'
      BY <2>1 DEF GuidanceInv, GuidanceTypes, JudgedInv, Reviewable
    <2> QED
      BY <2>2, <2>3, <2>4 DEF GuidanceInv
  <1> QED
    BY <1>1, <1>2, <1>3, <1>4, <1>5, <1>6, <1>7 DEF GuidanceNext
\* The report is about whole catalogs.
LEMMA InvariantSuffices == GuidanceInv => GuidanceOnWholeCatalogs
  <1> SUFFICES ASSUME GuidanceInv PROVE GuidanceOnWholeCatalogs
    OBVIOUS
  <1>1. guide.complete => \A p \in Positions : listed[p] = Offered(p)
    BY DEF GuidanceInv, DiscoveryInv
  <1>2. ASSUME status \in {"success", "verdict"}
        PROVE  /\ \A p \in Positions : WholeCatalog(p)
               /\ status = "verdict" <=> \E p \in Positions : ~(RequiredTools \subseteq Offered(p))
    <2>1. guide.complete /\ stage = "done" /\ (status = "verdict" <=> guide.passed = {FALSE})
      BY <1>2 DEF GuidanceInv, JudgedInv
    <2>2. \A p \in Positions : WholeCatalog(p)
      BY <2>1 DEF GuidanceInv, DiscoveryInv, Before
    <2>3. guide.passed = {FALSE} <=> \E p \in Positions : ~(RequiredTools \subseteq listed[p])
      BY <2>1 DEF GuidanceInv, JudgedInv
    <2> QED
      BY <1>1, <2>1, <2>2, <2>3
  <1>3. ASSUME NEW c \in guide.candidates
        PROVE  /\ c.tool \notin Offered(c.profile) /\ c.in # {}
               /\ \A q \in c.in : c.tool \in Offered(q)
    <2>1. guide.complete /\ Reviewable(c) /\ c.profile \in Positions
      BY <1>3 DEF GuidanceInv, JudgedInv
    <2> QED
      BY <1>1, <2>1 DEF Reviewable
  <1> QED
    BY <1>2, <1>3 DEF GuidanceOnWholeCatalogs

\* Whatever a server lists, in whatever pages, and whichever session fails:
\* a missing tool, a pass and a reference to review rest on whole catalogs.
THEOREM GuidanceIsFounded == GuidanceSpec => []GuidanceOnWholeCatalogs
  BY InitGuidanceInv, NextGuidanceInv, InvariantSuffices, PTL DEF GuidanceSpec
=============================================================================
