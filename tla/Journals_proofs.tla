-------------------------- MODULE Journals_proofs --------------------------
(***************************************************************************)
(* Proofs about the two journals many hands append to and others read: the *)
(* HTTP recorder's, whose records are shown to be the exchanges as they    *)
(* happened, whatever the order in which they end; and the readiness       *)
(* history, of which a reader is shown what a plain scan would show,       *)
(* through the cache or past it.  The cache's query is shown equal to the  *)
(* scan for every history and not only for those of an instance.           *)
(***************************************************************************)
EXTENDS HttpProxy, TrendCache, SequenceTheorems, NaturalsInduction, FiniteSetTheorems, TLAPS

\* A set of numbers has a least.
LEMMA LeastNumber ==
    ASSUME NEW T \in SUBSET Nat, T # {}
    PROVE  \E m \in T : \A i \in T : m <= i
  <1>1. IsWellFoundedOn(OpToRel(<, Nat), Nat)
    BY NatLessThanWellFounded, Zenon
  <1>2. PICK m \in T : \A i \in T : ~(<<i, m>> \in OpToRel(<, Nat))
    BY <1>1, WFMin, Zenon
  <1>3. \A i \in T : ~(i < m)
    BY <1>2 DEF OpToRel
  <1> QED
    BY <1>3

-----------------------------------------------------------------------------
(* The HTTP recorder.                                                     *)

\* Where an exchange is with a worker, and what the states hold.
Working == {"outbound", "upstream", "inbound", "append", "respond"}
Messages == [kind : {"request", "response", "notification"}, id : Ids]
Records == [seq : Nat, method : {"call", "notification", "unparsed"}, call : Nat, answer : Nat]

States == [pc : Working \cup {"away", "queued", "done"},
           body : Bodies \cup {<<>>},
           answer : Seq(Messages),
           record : Seq(Records),
           onward : {"upstream", "respond", "done"},
           client : {"waiting", "503", "502", "refused", "closed", "answered"}]

\* The type invariant.
ProxyTypes ==
    /\ exchanges \in [Exchanges -> States]
    /\ capture \in [seq : Nat, pending : [Exchanges \X Ids -> Nat]]
    /\ journal \in Seq(Records)
    /\ locked \in Exchanges \cup {0}

\* A worker knows the body of its exchange, and nobody is answered before the
\* exchange ends.
Placed(x) ==
    /\ x.pc \in Working => x.body \in Bodies
    /\ x.pc \in {"away", "queued", "outbound", "upstream"} => x.answer = <<>>
    /\ x.pc = "append" /\ x.onward = "upstream" => x.answer = <<>>
    /\ x.pc # "done" => x.client = "waiting"
    /\ \A i \in 1..Len(x.answer) : x.answer[i].kind = "response" => x.answer[i].id = x.body.id
PlaceInv == \A e \in Exchanges : Placed(exchanges[e])

\* What is pending under an exchange is its own request, and an exchange that
\* waits for the answer to a request is pending.
PendingInv ==
    \A e \in Exchanges :
        /\ \A id \in Ids : capture.pending[<<e, id>>] \in {0, e}
        /\ (/\ \/ exchanges[e].pc \in {"upstream", "inbound"}
               \/ exchanges[e].pc = "append" /\ exchanges[e].onward = "upstream"
            /\ exchanges[e].body.kind = "request")
           => capture.pending[<<e, exchanges[e].body.id>>] = e

\* The lock is held exactly by the exchange that has a record to append, which
\* is the last that was numbered.
LockInv ==
    \A e \in Exchanges :
        exchanges[e].pc = "append" =>
            /\ locked = e
            /\ Len(exchanges[e].record) = 1
            /\ exchanges[e].record[1].seq = capture.seq
            /\ \A i \in 1..Len(journal) : journal[i].seq < capture.seq
            /\ exchanges[e].record[1].method = "call" =>
                  exchanges[e].record[1].call = exchanges[e].record[1].answer
            /\ exchanges[e].onward \in {"upstream", "respond"}

\* Records are numbered in the order of the journal, and a call is with its answer.
NumberInv ==
    /\ \A i \in 1..Len(journal) : journal[i].seq <= capture.seq
    /\ \A i \in 2..Len(journal) : journal[i - 1].seq < journal[i].seq
    /\ \A i \in 1..Len(journal) : journal[i].method = "call" => journal[i].call = journal[i].answer

\* The recorder sees the answer of an exchange to its request.
Heard(e) ==
    /\ exchanges[e].body.kind = "request"
    /\ ResponseValue(e) # <<>>
    /\ Head(ResponseValue(e)).kind = "response"
InJournal(e) == \E i \in 1..Len(journal) : journal[i].method = "call" /\ journal[i].call = e

\* What it has seen is about to be appended, and then in the journal.
HeardInv ==
    \A e \in Exchanges :
        /\ (exchanges[e].pc = "append" /\ exchanges[e].onward = "respond" /\ Heard(e)) =>
              exchanges[e].record[1].method = "call" /\ exchanges[e].record[1].call = e
        /\ ((exchanges[e].pc = "respond" \/ exchanges[e].client = "answered") /\ Heard(e)) => InJournal(e)

\* The inductive invariant.
ProxyIInv == ProxyTypes /\ PlaceInv /\ PendingInv /\ LockInv /\ NumberInv /\ HeardInv

\* The first message of an answer that is no notification.
Picked(answer) ==
    LET at == SelectInSeq(answer, LAMBDA m : m.kind # "notification")
    IN  IF at = 0 THEN <<>> ELSE <<answer[at]>>

\* What is picked is a message of the answer.
LEMMA PickedIsThere ==
    ASSUME NEW answer \in Seq(Messages), Picked(answer) # <<>>
    PROVE  \E i \in 1..Len(answer) :
              Picked(answer) = <<answer[i]>> /\ answer[i].kind # "notification"
  <1> DEFINE I == {i \in 1..Len(answer) : answer[i].kind # "notification"}
  <1>1. SelectInSeq(answer, LAMBDA m : m.kind # "notification") = IF I # {} THEN Min(I) ELSE 0
    BY DEF SelectInSeq
  <1>2. I # {}
    BY <1>1 DEF Picked
  <1>3. \E m \in I : \A i \in I : m <= i
    <2>1. I \subseteq Nat
      OBVIOUS
    <2> HIDE DEF I
    <2> QED
      BY <1>2, <2>1, LeastNumber
  <1>4. Min(I) \in I
    <2> HIDE DEF I
    <2> QED
      BY <1>3 DEF Min
  <1> QED
    BY <1>1, <1>2, <1>4 DEF Picked

\* What the recorder takes for the answer is the picked message.
LEMMA ValueIsPicked == \A e : ResponseValue(e) = Picked(exchanges[e].answer)
  BY DEF ResponseValue, Picked

\* Heard, where an exchange is as it was.
LEMMA HeardStays ==
    ASSUME NEW e, exchanges'[e].body = exchanges[e].body, exchanges'[e].answer = exchanges[e].answer
    PROVE  Heard(e)' <=> Heard(e)
  <1>1. ResponseValue(e)' = Picked(exchanges'[e].answer)
    BY DEF ResponseValue, Picked, SelectInSeq
  <1>2. ResponseValue(e) = Picked(exchanges[e].answer)
    BY ValueIsPicked
  <1> QED
    BY <1>1, <1>2 DEF Heard

\* Nothing has been recorded yet.
LEMMA InitProxyIInv == ProxyInit => ProxyIInv
  <1> SUFFICES ASSUME ProxyInit PROVE ProxyIInv
    OBVIOUS
  <1> USE ProxyAssumption
  <1>1. <<>> \in Seq(Messages) /\ <<>> \in Seq(Records) /\ Len(<<>>) = 0
    OBVIOUS
  <1>2. ProxyTypes
    BY <1>1 DEF ProxyInit, ProxyTypes, States, C!NoPending
  <1>3. PlaceInv /\ LockInv /\ NumberInv /\ HeardInv
    BY <1>1 DEF ProxyInit, PlaceInv, Placed, LockInv, NumberInv, HeardInv, Working
  <1>4. PendingInv
    BY DEF ProxyInit, PendingInv, C!NoPending
  <1> QED
    BY <1>2, <1>3, <1>4 DEF ProxyIInv

\* One exchange moves to x, and neither correlator nor journal change.
Moves(e, x) ==
    /\ exchanges' = [exchanges EXCEPT ![e] = x]
    /\ UNCHANGED <<capture, journal, locked>>
    /\ x \in States
    /\ exchanges[e].pc # "append" /\ x.pc \notin {"append", "upstream"}
    /\ x.pc \in Working => x.body \in Bodies
    /\ x.pc \in {"away", "queued", "outbound"} => x.answer = <<>>
    /\ x.pc # "done" => x.client = "waiting"
    /\ \A i \in 1..Len(x.answer) : x.answer[i].kind = "response" => x.answer[i].id = x.body.id
    /\ x.pc = "inbound" => exchanges[e].pc = "upstream" /\ x.body = exchanges[e].body
    /\ x.pc = "respond" \/ x.client = "answered" =>
          exchanges[e].pc = "respond" /\ x.body = exchanges[e].body /\ x.answer = exchanges[e].answer

\* A move that writes nothing keeps the invariant when the exchange stays in
\* place, its request stays pending and what it has heard is still accounted for.
LEMMA MoveKeeps ==
    ASSUME ProxyIInv, NEW e \in Exchanges, NEW x, Moves(e, x)
    PROVE  ProxyIInv'
  <1> USE DEF ProxyIInv, Moves
  <1>0. exchanges'[e] = x /\ \A d \in Exchanges : d # e => exchanges'[d] = exchanges[d]
    BY DEF ProxyTypes
  <1>1. ProxyTypes'
    BY DEF ProxyTypes
  <1>2. PlaceInv'
    <2>1. \A d \in Exchanges : d # e => Placed(exchanges'[d])
      BY <1>0 DEF PlaceInv
    <2> QED
      BY <1>0, <2>1 DEF PlaceInv, Placed
  <1>3. PendingInv'
    <2>1. \A id \in Ids : \A d \in Exchanges : capture'.pending[<<d, id>>] \in {0, d}
      BY DEF PendingInv
    <2>2. ASSUME NEW d \in Exchanges, d # e, PendingInv
          PROVE  (/\ \/ exchanges'[d].pc \in {"upstream", "inbound"}
                     \/ exchanges'[d].pc = "append" /\ exchanges'[d].onward = "upstream"
                  /\ exchanges'[d].body.kind = "request")
                 => capture'.pending[<<d, exchanges'[d].body.id>>] = d
      BY ONLY <1>0, <2>2, capture' = capture DEF PendingInv
    <2>3. x.pc # "append"
      BY DEF Working
    <2>4. (x.pc = "inbound" /\ x.body.kind = "request") => capture'.pending[<<e, x.body.id>>] = e
      BY DEF PendingInv
    <2> QED
      BY <1>0, <2>1, <2>2, <2>3, <2>4 DEF PendingInv
  <1>4. LockInv'
    BY <1>0 DEF LockInv
  <1>5. NumberInv'
    BY DEF NumberInv
  <1>6. \A d : InJournal(d)' <=> InJournal(d)
    BY DEF InJournal
  <1>7. HeardInv'
    <2> SUFFICES ASSUME NEW d \in Exchanges PROVE
            /\ (exchanges'[d].pc = "append" /\ exchanges'[d].onward = "respond" /\ Heard(d)') =>
                  exchanges'[d].record[1].method = "call" /\ exchanges'[d].record[1].call = d
            /\ ((exchanges'[d].pc = "respond" \/ exchanges'[d].client = "answered") /\ Heard(d)')
                  => InJournal(d)'
      BY DEF HeardInv
    <2>1. CASE d # e
      BY <1>0, <1>6, <2>1, HeardStays DEF HeardInv
    <2>2. CASE d = e
      <3>1. CASE x.pc = "respond" \/ x.client = "answered"
        <4>1. Heard(e)' <=> Heard(e)
          BY <1>0, <3>1, HeardStays
        <4> QED
          BY <1>0, <1>6, <2>2, <3>1, <4>1 DEF HeardInv
      <3>2. CASE ~(x.pc = "respond" \/ x.client = "answered")
        BY <1>0, <2>2, <3>2
      <3> QED
        BY <3>1, <3>2
    <2> QED
      BY <2>1, <2>2
  <1> QED
    BY <1>1, <1>2, <1>3, <1>4, <1>5, <1>7

\* An exchange that ends without a record to append.
LEMMA EndKeeps ==
    ASSUME ProxyIInv, NEW e \in Exchanges, exchanges[e].pc # "append",
           NEW got \in {"503", "502", "refused", "closed", "answered"}, End(e, got),
           got = "answered" => exchanges[e].pc = "respond",
           UNCHANGED <<capture, journal, locked>>
    PROVE  ProxyIInv'
  <1> DEFINE x == [exchanges[e] EXCEPT !.pc = "done", !.client = got]
  <1>1. exchanges' = [exchanges EXCEPT ![e] = x]
    BY DEF End
  <1>2. ProxyTypes
    BY DEF ProxyIInv
  <1>3. x \in States /\ x.pc = "done" /\ x.body = exchanges[e].body /\ x.answer = exchanges[e].answer /\ x.client = got
    BY <1>2 DEF ProxyTypes, States, Working
  <1>4. \A i \in 1..Len(x.answer) : x.answer[i].kind = "response" => x.answer[i].id = x.body.id
    BY <1>3 DEF ProxyIInv, PlaceInv, Placed
  <1> HIDE DEF x
  <1>5. x \in States
    BY <1>3
  <1>6. x.pc \notin Working
    BY <1>3 DEF Working
  <1>7. Moves(e, x)
    BY <1>1, <1>3, <1>4, <1>5, <1>6 DEF Moves
  <1> QED
    BY <1>7, MoveKeeps

\* Connecting queues an exchange.
LEMMA ConnectKeeps == ASSUME ProxyIInv, NEW e \in Exchanges, Connect(e) PROVE ProxyIInv'
  <1>1. exchanges[e].pc = "away" /\ exchanges[e].answer = <<>> /\ exchanges[e].client = "waiting"
    BY DEF Connect, At, ProxyIInv, PlaceInv, Placed
  <1>2. CASE End(e, "503")
    BY <1>1, <1>2, EndKeeps DEF Connect
  <1>3. CASE exchanges' = [exchanges EXCEPT ![e].pc = "queued"]
    <2> DEFINE x == [exchanges[e] EXCEPT !.pc = "queued"]
    <2>1. ProxyTypes /\ exchanges' = [exchanges EXCEPT ![e] = x]
      BY <1>3 DEF ProxyIInv
    <2>2. x \in States /\ x.pc = "queued" /\ x.body = exchanges[e].body /\ x.answer = <<>> /\ x.client = "waiting"
      BY <1>1, <2>1 DEF ProxyTypes, States, Working
    <2> HIDE DEF x
    <2>3. /\ x \in States
          /\ x.pc \notin Working /\ Len(x.answer) = 0
      BY <2>1, <2>2 DEF Working
    <2>5. Moves(e, x)
      BY <1>1, <2>1, <2>2, <2>3 DEF Moves, Connect, Working
    <2> QED
      BY <2>5, MoveKeeps
  <1> QED
    BY <1>2, <1>3 DEF Connect

\* A worker reads a request and lets it in or refuses it.
LEMMA BeginKeeps == ASSUME ProxyIInv, NEW e \in Exchanges, BeginExchange(e) PROVE ProxyIInv'
  <1>1. exchanges[e].pc = "queued" /\ exchanges[e].answer = <<>> /\ exchanges[e].client = "waiting"
    BY DEF BeginExchange, At, ProxyIInv, PlaceInv, Placed
  <1>2. CASE End(e, "refused")
    BY <1>1, <1>2, EndKeeps DEF BeginExchange
  <1>3. ASSUME NEW body \in Bodies, exchanges' = [exchanges EXCEPT ![e].pc = "outbound", ![e].body = body]
        PROVE  ProxyIInv'
    <2> DEFINE x == [exchanges[e] EXCEPT !.pc = "outbound", !.body = body]
    <2>1. ProxyTypes /\ exchanges' = [exchanges EXCEPT ![e] = x]
      BY <1>3 DEF ProxyIInv
    <2>2. x \in States /\ x.pc = "outbound" /\ x.body = body /\ x.answer = <<>> /\ x.client = "waiting"
      BY <1>1, <2>1 DEF ProxyTypes, States, Working
    <2> HIDE DEF x
    <2>3. /\ x \in States
          /\ Len(x.answer) = 0
      BY <2>1, <2>2 DEF Working
    <2>5. Moves(e, x)
      BY <1>1, <2>1, <2>2, <2>3 DEF Moves, BeginExchange, Working
    <2> QED
      BY <2>5, MoveKeeps
  <1> QED
    BY <1>2, <1>3 DEF BeginExchange

\* What the server answers are messages, its responses under the id of the request.
LEMMA ResponsesType ==
    ASSUME NEW e \in Exchanges, exchanges[e].body \in Bodies, NEW answer \in Responses(e)
    PROVE  /\ answer \in Seq(Messages)
           /\ \A i \in 1..Len(answer) : answer[i].kind = "response" => answer[i].id = exchanges[e].body.id
  <1> DEFINE r == Response(e)
  <1>1. r \in Messages /\ r.kind = "response" /\ r.id = exchanges[e].body.id
    BY ProxyAssumption DEF Response, Messages
  <1>2. \A k \in {"request", "notification"} : \A id \in Ids :
           [kind |-> k, id |-> id] \in Messages /\ [kind |-> k, id |-> id].kind = k
    BY DEF Messages
  <1>3. r.id \in Ids
    BY <1>1, ProxyAssumption
  <1>4. /\ <<>> \in Seq(Messages) /\ <<r>> \in Seq(Messages)
        /\ \A m \in Messages : <<m, r>> \in Seq(Messages)
    BY <1>1
  <1> HIDE DEF r
  <1>5. \/ answer = <<>> \/ answer = <<r>>
        \/ \E m \in Messages : m.kind # "response" /\ answer = <<m, r>>
    <2>1. \/ answer = <<>> \/ answer = <<r>>
          \/ answer = <<[kind |-> "notification", id |-> r.id], r>>
          \/ \E id \in Ids : answer = <<[kind |-> "request", id |-> id], r>>
      BY Zenon DEF Responses, r
    <2>2. CASE answer = <<[kind |-> "notification", id |-> r.id], r>>
      BY <1>2, <1>3, <2>2
    <2>3. ASSUME NEW id \in Ids, answer = <<[kind |-> "request", id |-> id], r>>
          PROVE  \E m \in Messages : m.kind # "response" /\ answer = <<m, r>>
      BY <1>2, <2>3
    <2> QED
      BY <2>1, <2>2, <2>3
  <1>6. CASE answer = <<>> \/ answer = <<r>>
    <2>1. Len(<<>>) = 0 /\ Len(<<r>>) = 1 /\ <<r>>[1] = r
      OBVIOUS
    <2>2. answer \in Seq(Messages)
      BY <1>4, <1>6
    <2> QED
      BY <1>1, <1>6, <2>1, <2>2
  <1>7. ASSUME NEW m \in Messages, m.kind # "response", answer = <<m, r>> PROVE
            /\ answer \in Seq(Messages)
            /\ \A i \in 1..Len(answer) : answer[i].kind = "response" => answer[i].id = exchanges[e].body.id
    <2>1. Len(answer) = 2 /\ answer[1] = m /\ answer[2] = r
      BY <1>7
    <2> QED
      BY <1>1, <1>4, <1>7, <2>1
  <1> QED
    BY <1>5, <1>6, <1>7

\* The upstream's answer, or none.
LEMMA UpstreamKeeps == ASSUME ProxyIInv, NEW e \in Exchanges, Upstream(e) PROVE ProxyIInv'
  <1>1. exchanges[e].pc = "upstream" /\ exchanges[e].body \in Bodies /\ exchanges[e].client = "waiting"
    BY DEF Upstream, At, ProxyIInv, PlaceInv, Placed, Working
  <1>2. CASE End(e, "502") \/ End(e, "closed")
    BY <1>1, <1>2, EndKeeps DEF Upstream
  <1>3. ASSUME NEW answer \in Responses(e),
               exchanges' = [exchanges EXCEPT ![e].pc = "inbound", ![e].answer = answer]
        PROVE  ProxyIInv'
    <2> DEFINE x == [exchanges[e] EXCEPT !.pc = "inbound", !.answer = answer]
    <2>1. ProxyTypes /\ exchanges' = [exchanges EXCEPT ![e] = x]
      BY <1>3 DEF ProxyIInv
    <2>3. /\ answer \in Seq(Messages)
          /\ \A i \in 1..Len(answer) : answer[i].kind = "response" => answer[i].id = exchanges[e].body.id
      BY <1>1, ResponsesType
    <2>2. x \in States /\ x.pc = "inbound" /\ x.body = exchanges[e].body /\ x.answer = answer /\ x.client = "waiting"
      BY <1>1, <2>1, <2>3 DEF ProxyTypes, States, Working
    <2> HIDE DEF x
    <2>4. /\ x \in States
          /\ \A i \in 1..Len(x.answer) : x.answer[i].kind = "response" => x.answer[i].id = x.body.id
      BY <2>1, <2>2, <2>3 DEF Working
    <2>5. Moves(e, x)
      BY <1>1, <2>1, <2>2, <2>4 DEF Moves, Upstream, Working
    <2> QED
      BY <2>5, MoveKeeps
  <1> QED
    BY <1>2, <1>3 DEF Upstream

\* The response is written and the exchange ends.
LEMMA WriteKeeps == ASSUME ProxyIInv, NEW e \in Exchanges, WriteResponse(e) PROVE ProxyIInv'
  BY EndKeeps DEF WriteResponse, At

\* The records of the journal have numbers.
LEMMA JournalTypes ==
    ASSUME ProxyTypes
    PROVE  /\ Len(journal) \in Nat
           /\ \A i \in 1..Len(journal) : journal[i] \in Records /\ journal[i].seq \in Nat
  <1>1. journal \in Seq(Records)
    BY DEF ProxyTypes
  <1>2. \A rec \in Records : rec.seq \in Nat
    BY DEF Records
  <1> QED
    BY <1>1, <1>2

\* One exchange passes the correlator, at the end of which it has a record to
\* append or goes on.
Captures(e, record, onward) ==
    /\ locked = 0
    /\ \/ exchanges[e].pc = "outbound" /\ onward = "upstream"
       \/ exchanges[e].pc = "inbound" /\ onward = "respond"
    /\ Correlated(e, record, onward) /\ locked' = Holding(e, record)
    /\ record \in Seq(Records)
    /\ \/ record = <<>>
       \/ /\ Len(record) = 1 /\ record[1].seq = capture.seq + 1
          /\ record[1].method = "call" => record[1].call = record[1].answer
    /\ capture' \in [seq : Nat, pending : [Exchanges \X Ids -> Nat]]
    /\ capture'.seq = capture.seq + Len(record)
    /\ \A id \in Ids : capture'.pending[<<e, id>>] \in {0, e}
    /\ \A d \in Exchanges : d # e =>
          \A id \in Ids : capture'.pending[<<d, id>>] = capture.pending[<<d, id>>]
    /\ onward = "upstream" /\ exchanges[e].body.kind = "request" =>
          capture'.pending[<<e, exchanges[e].body.id>>] = e
    /\ onward = "respond" /\ Heard(e) =>
          record # <<>> /\ record[1].method = "call" /\ record[1].call = e

\* Observing a message keeps the invariant: what it captures is numbered next
\* and is appended by the exchange that holds the lock.
LEMMA CapturesKeep ==
    ASSUME ProxyIInv, NEW e \in Exchanges, NEW record, NEW onward, Captures(e, record, onward)
    PROVE  ProxyIInv'
  <1> USE DEF ProxyIInv
  <1> DEFINE pc == IF record # <<>> THEN "append" ELSE onward
             x == [exchanges[e] EXCEPT !.record = record, !.onward = onward, !.pc = pc]
  <1>1. exchanges' = [exchanges EXCEPT ![e] = x] /\ journal' = journal
    BY DEF Captures, Correlated
  <1>2. onward \in {"upstream", "respond"}
    BY DEF Captures
  <1>3. /\ x \in States /\ x.pc = pc /\ x.body = exchanges[e].body /\ x.answer = exchanges[e].answer
        /\ x.record = record /\ x.onward = onward /\ x.client = exchanges[e].client
    <2>1. exchanges[e] \in States /\ record \in Seq(Records)
      BY DEF Captures, ProxyTypes
    <2> QED
      BY ONLY <1>2, <2>1 DEF States, Working
  <1>4. exchanges'[e] = x /\ \A d \in Exchanges : d # e => exchanges'[d] = exchanges[d]
    BY <1>1 DEF ProxyTypes
  <1>5. exchanges[e].body \in Bodies /\ exchanges[e].client = "waiting"
    BY DEF Captures, PlaceInv, Placed, Working
  <1>6. \A d \in Exchanges : exchanges[d].pc # "append" /\ d \in Nat /\ d # 0
    BY ProxyAssumption DEF Captures, LockInv, Exchanges
  <1>7. record = <<>> => Len(record) = 0
    OBVIOUS
  <1> HIDE DEF x
  <1>8. ProxyTypes'
    <2>1. locked' \in Exchanges \cup {0} /\ capture' \in [seq : Nat, pending : [Exchanges \X Ids -> Nat]]
      BY DEF Captures, Holding
    <2> QED
      BY <1>1, <1>3, <2>1 DEF ProxyTypes
  <1>9. PlaceInv'
    <2>1. \A d \in Exchanges : d # e => Placed(exchanges'[d])
      BY <1>4 DEF PlaceInv
    <2>2. x.pc \in {"away", "queued", "outbound", "upstream"} => exchanges[e].answer = <<>>
      BY <1>3 DEF Captures, PlaceInv, Placed
    <2>4. x.pc = "append" /\ x.onward = "upstream" => exchanges[e].answer = <<>>
      BY <1>3 DEF Captures, PlaceInv, Placed
    <2>3. \A i \in 1..Len(x.answer) : x.answer[i].kind = "response" => x.answer[i].id = x.body.id
      BY <1>3 DEF PlaceInv, Placed
    <2>5. Placed(x)
      BY <1>3, <1>5, <2>2, <2>3, <2>4 DEF Placed
    <2> QED
      BY <1>4, <2>1, <2>5 DEF PlaceInv
  <1>10. PendingInv'
    <2>1. ASSUME NEW d \in Exchanges, d # e
          PROVE  PendingInv => 
                 /\ \A id \in Ids : capture'.pending[<<d, id>>] \in {0, d}
                 /\ (/\ \/ exchanges'[d].pc \in {"upstream", "inbound"}
                        \/ exchanges'[d].pc = "append" /\ exchanges'[d].onward = "upstream"
                     /\ exchanges'[d].body.kind = "request")
                    => capture'.pending[<<d, exchanges'[d].body.id>>] = d
      <3>1. exchanges[d].body.kind = "request" /\ exchanges[d].pc \in Working => exchanges[d].body.id \in Ids
        BY ProxyAssumption DEF PlaceInv, Placed
      <3>2. exchanges'[d] = exchanges[d]
        BY <1>4, <2>1
      <3>3. \A id \in Ids : capture'.pending[<<d, id>>] = capture.pending[<<d, id>>]
        BY <2>1 DEF Captures
      <3> QED
        BY <3>1, <3>2, <3>3 DEF PendingInv, Working
    <2>2. /\ \A id \in Ids : capture'.pending[<<e, id>>] \in {0, e}
          /\ onward = "upstream" /\ exchanges[e].body.kind = "request" =>
                 capture'.pending[<<e, exchanges[e].body.id>>] = e
      BY DEF Captures
    <2>3. x.pc # "inbound" /\ (x.pc = "upstream" => onward = "upstream")
      BY <1>2, <1>3
    <2> QED
      BY <1>3, <1>4, <2>1, <2>2, <2>3 DEF PendingInv
  <1>11. LockInv'
    <2> SUFFICES ASSUME record # <<>> PROVE LockInv'
      BY <1>2, <1>3, <1>4, <1>6 DEF LockInv
    <2>1. /\ locked' = e /\ Len(record) = 1 /\ record[1].seq = capture.seq + 1
          /\ capture'.seq = capture.seq + 1
          /\ record[1].method = "call" => record[1].call = record[1].answer
      BY DEF Captures, Holding
    <2>2. \A i \in 1..Len(journal) : journal[i].seq < capture'.seq
      <3>1. capture.seq \in Nat
        BY DEF ProxyTypes
      <3>2. \A i \in 1..Len(journal) : journal[i].seq \in Nat
        BY JournalTypes
      <3> QED
        BY <2>1, <3>1, <3>2 DEF NumberInv
    <2> QED
      BY <1>1, <1>2, <1>3, <1>4, <1>6, <2>1, <2>2 DEF LockInv
  <1>12. NumberInv'
    <2>1. capture.seq \in Nat /\ capture'.seq \in Nat /\ capture'.seq >= capture.seq
      BY <1>7 DEF ProxyTypes, Captures
    <2>2. \A i \in 1..Len(journal) : journal[i].seq \in Nat
      BY JournalTypes
    <2> QED
      BY <1>1, <2>1, <2>2 DEF NumberInv
  <1>13. HeardInv'
    <2>1. \A d : InJournal(d)' <=> InJournal(d)
      BY <1>1 DEF InJournal
    <2>2. \A d \in Exchanges : Heard(d)' <=> Heard(d)
      BY <1>3, <1>4, HeardStays
    <2>3. onward = "respond" /\ Heard(e) => record # <<>> /\ record[1].method = "call" /\ record[1].call = e
      BY DEF Captures
    <2> QED
      BY <1>3, <1>4, <1>5, <1>6, <2>1, <2>2, <2>3 DEF HeardInv
  <1> QED
    BY <1>8, <1>9, <1>10, <1>11, <1>12, <1>13

\* What the correlator makes of a frame is a record of the next number.
LEMMA RecordedType ==
    ASSUME ProxyTypes, NEW m \in {"call", "notification", "unparsed"}, NEW call \in Nat, NEW answer \in Nat
    PROVE  LET made == <<C!CallRecord(capture, m, call, answer)>>
           IN  /\ made \in Seq(Records) /\ Len(made) = 1 /\ made # <<>>
               /\ made[1].seq = capture.seq + 1 /\ made[1].method = m
               /\ made[1].call = call /\ made[1].answer = answer
  <1> DEFINE made == C!CallRecord(capture, m, call, answer)
  <1>1. capture.seq + 1 \in Nat
    BY DEF ProxyTypes
  <1>2. made \in Records /\ made.seq = capture.seq + 1 /\ made.method = m
        /\ made.call = call /\ made.answer = answer
    BY <1>1 DEF C!CallRecord, Records
  <1> HIDE DEF made
  <1>3. <<made>> \in Seq(Records) /\ Len(<<made>>) = 1 /\ <<made>> # <<>> /\ <<made>>[1] = made
    BY <1>2
  <1> QED
    BY <1>2, <1>3 DEF made

\* The request of an exchange is observed.
LEMMA RequestCaptures ==
    ASSUME ProxyIInv, NEW e \in Exchanges, CaptureRequest(e)
    PROVE  \E record : Captures(e, record, "upstream")
  <1> USE DEF ProxyIInv
  <1> DEFINE frame == Frame(e, exchanges[e].body)
             record == IF frame.kind = "unparsed" THEN C!Recorded(capture, frame) ELSE <<>>
  <1>1. exchanges[e].pc = "outbound" /\ exchanges[e].body \in Bodies /\ locked = 0
    BY DEF CaptureRequest, At, PlaceInv, Placed, Working
  <1>2. /\ frame.kind = exchanges[e].body.kind /\ frame.key = <<e, exchanges[e].body.id>> /\ frame.call = e
        /\ exchanges[e].body.id \in Ids /\ e \in Nat
    BY <1>1, ProxyAssumption DEF Frame, ScopedKey, Exchanges
  <1>3. /\ capture' = [C!OnOutbound(capture, frame) EXCEPT !.seq = @ + Len(record)]
        /\ locked' = Holding(e, record)
        /\ Correlated(e, record, "upstream")
    BY DEF CaptureRequest
  <1> HIDE DEF frame
  <1>4. /\ record \in Seq(Records)
        /\ \/ record = <<>>
           \/ /\ Len(record) = 1 /\ record[1].seq = capture.seq + 1
              /\ record[1].method # "call"
    <2>1. CASE frame.kind = "unparsed"
      <3>1. record = <<C!CallRecord(capture, "unparsed", 0, 0)>>
        BY <2>1 DEF C!Recorded, C!Answers
      <3>2. ProxyTypes
        OBVIOUS
      <3> HIDE DEF record
      <3> QED
        BY ONLY <3>1, <3>2, RecordedType
    <2>2. CASE frame.kind # "unparsed"
      BY <2>2
    <2> QED
      BY <2>1, <2>2
  <1> HIDE DEF record
  <1>5. capture \in [seq : Nat, pending : [Exchanges \X Ids -> Nat]] /\ Len(record) \in Nat
    BY <1>4 DEF ProxyTypes
  <1>6. CASE frame.kind = "request"
    <2> DEFINE p == [capture.pending EXCEPT ![<<e, exchanges[e].body.id>>] = e]
    <2>1. capture' = [seq |-> capture.seq + Len(record), pending |-> p]
      BY <1>2, <1>3, <1>5, <1>6 DEF C!OnOutbound
    <2>2. p \in [Exchanges \X Ids -> Nat] /\ p[<<e, exchanges[e].body.id>>] = e
      BY <1>2, <1>5
    <2>3. \A d \in Exchanges : d # e => \A id \in Ids : p[<<d, id>>] = capture.pending[<<d, id>>]
      BY <1>5
    <2>4. \A id \in Ids : p[<<e, id>>] \in {0, e}
      BY <1>2, <1>5 DEF PendingInv
    <2> HIDE DEF p
    <2>5. /\ capture' \in [seq : Nat, pending : [Exchanges \X Ids -> Nat]]
          /\ capture'.seq = capture.seq + Len(record) /\ capture'.pending = p
      BY <1>5, <2>1, <2>2
    <2>6. Captures(e, record, "upstream")
      BY <1>1, <1>3, <1>4, <2>2, <2>3, <2>4, <2>5 DEF Captures
    <2> QED
      BY <2>6
  <1>7. CASE frame.kind # "request"
    <2>1. capture' = [seq |-> capture.seq + Len(record), pending |-> capture.pending]
      BY <1>3, <1>5, <1>7 DEF C!OnOutbound
    <2>2. \A id \in Ids : capture.pending[<<e, id>>] \in {0, e}
      BY DEF PendingInv
    <2>3. /\ capture' \in [seq : Nat, pending : [Exchanges \X Ids -> Nat]]
          /\ capture'.seq = capture.seq + Len(record) /\ capture'.pending = capture.pending
      BY <1>5, <2>1
    <2>4. Captures(e, record, "upstream")
      BY <1>1, <1>2, <1>3, <1>4, <1>7, <2>2, <2>3 DEF Captures
    <2> QED
      BY <2>4
  <1> QED
    BY <1>6, <1>7

\* The answer of an exchange is observed.
LEMMA AnswerCaptures ==
    ASSUME ProxyIInv, NEW e \in Exchanges, CaptureAnswer(e)
    PROVE  \E record : Captures(e, record, "respond")
  <1> USE DEF ProxyIInv
  <1> DEFINE frame == IF ResponseValue(e) = <<>>
                      THEN Frame(e, [kind |-> "unparsed", id |-> exchanges[e].body.id])
                      ELSE Frame(e, Head(ResponseValue(e)))
             record == C!Recorded(capture, frame)
             body == exchanges[e].body
  <1>1. exchanges[e].pc = "inbound" /\ body \in Bodies /\ locked = 0
    BY DEF CaptureAnswer, At, PlaceInv, Placed, Working
  <1>2. body.id \in Ids /\ e \in Nat /\ e # 0 /\ exchanges[e].answer \in Seq(Messages)
    BY <1>1, ProxyAssumption DEF Exchanges, ProxyTypes, States
  <1>3. /\ capture' = C!OnInbound(capture, frame)
        /\ locked' = Holding(e, record)
        /\ Correlated(e, record, "respond")
    BY DEF CaptureAnswer
  <1>4. /\ frame.call = e
        /\ \E id \in Ids : frame.key = <<e, id>>
        /\ Heard(e) => frame.kind = "response" /\ frame.key = <<e, body.id>>
    <2>1. CASE ResponseValue(e) = <<>>
      BY <1>2, <2>1 DEF Frame, ScopedKey, Heard
    <2>2. CASE ResponseValue(e) # <<>>
      <3>1. PICK i \in 1..Len(exchanges[e].answer) :
               ResponseValue(e) = <<exchanges[e].answer[i]>> /\ exchanges[e].answer[i].kind # "notification"
        BY <1>2, <2>2, ValueIsPicked, PickedIsThere
      <3> DEFINE m == exchanges[e].answer[i]
      <3>2. m \in Messages /\ m.id \in Ids /\ (m.kind = "response" => m.id = body.id)
        <4>1. m \in Messages
          BY <1>2
        <4>2. m.kind = "response" => m.id = body.id
          BY DEF PlaceInv, Placed
        <4> QED
          BY <4>1, <4>2 DEF Messages
      <3>3. Head(ResponseValue(e)) = m
        BY <3>1
      <3> HIDE DEF m
      <3> QED
        BY <2>2, <3>2, <3>3 DEF Frame, ScopedKey, Heard
    <2> QED
      BY <2>1, <2>2
  <1> HIDE DEF frame
  <1>5. PICK id \in Ids : frame.key = <<e, id>>
    BY <1>4
  <1>6. capture \in [seq : Nat, pending : [Exchanges \X Ids -> Nat]]
        /\ capture.pending[<<e, id>>] \in {0, e}
    BY <1>5 DEF ProxyTypes, PendingInv
  <1>7. /\ record \in Seq(Records)
        /\ \/ record = <<>> /\ ~(frame.kind = "response" /\ capture.pending[<<e, id>>] # 0)
           \/ /\ Len(record) = 1 /\ record # <<>> /\ record[1].seq = capture.seq + 1
              /\ record[1].method = "call" => record[1].call = record[1].answer /\ record[1].call = e
              /\ frame.kind = "response" => record[1].method = "call"
    <2>1. CASE C!Answers(capture, frame)
      <3>1. capture.pending[<<e, id>>] = e /\ frame.kind = "response"
        BY <1>5, <1>6, <2>1 DEF C!Answers
      <3>2. record = <<C!CallRecord(capture, "call", e, e)>>
        BY <1>4, <1>5, <2>1, <3>1 DEF C!Recorded
      <3> QED
        BY <1>2, <3>1, <3>2, RecordedType
    <2>2. CASE ~C!Answers(capture, frame)
      <3>1. CASE frame.kind = "notification"
        <4>1. record = <<C!CallRecord(capture, "notification", 0, 0)>>
          BY <2>2, <3>1 DEF C!Recorded
        <4> QED
          BY <3>1, <4>1, RecordedType
      <3>2. CASE frame.kind = "unparsed"
        <4>1. record = <<C!CallRecord(capture, "unparsed", 0, 0)>>
          BY <2>2, <3>2 DEF C!Recorded
        <4> QED
          BY <3>2, <4>1, RecordedType
      <3>3. CASE frame.kind \notin {"notification", "unparsed"}
        <4>1. record = <<>>
          BY <2>2, <3>3 DEF C!Recorded
        <4> QED
          BY <1>5, <2>2, <4>1 DEF C!Answers
      <3> QED
        BY <3>1, <3>2, <3>3
    <2> QED
      BY <2>1, <2>2
  <1> DEFINE p == IF C!Answers(capture, frame) THEN [capture.pending EXCEPT ![<<e, id>>] = 0]
                                               ELSE capture.pending
  <1>8. capture' = [seq |-> capture.seq + Len(record), pending |-> p]
    BY <1>3, <1>5 DEF C!OnInbound
  <1> HIDE DEF record
  <1>9. /\ p \in [Exchanges \X Ids -> Nat]
        /\ \A d \in Exchanges : d # e => \A k \in Ids : p[<<d, k>>] = capture.pending[<<d, k>>]
        /\ \A k \in Ids : p[<<e, k>>] \in {0, e}
    <2>1. \A k \in Ids : capture.pending[<<e, k>>] \in {0, e}
      BY DEF PendingInv
    <2> QED
      BY <1>6, <2>1
  <1> HIDE DEF p
  <1>10. Heard(e) => record # <<>> /\ record[1].method = "call" /\ record[1].call = e
    <2> SUFFICES ASSUME Heard(e) PROVE record # <<>> /\ record[1].method = "call" /\ record[1].call = e
      OBVIOUS
    <2>1. capture.pending[<<e, body.id>>] = e /\ frame.kind = "response" /\ id = body.id
      BY <1>1, <1>4, <1>5 DEF PendingInv, Heard
    <2> QED
      BY <1>2, <1>7, <2>1
  <1>11. capture.seq \in Nat /\ Len(record) \in Nat
    BY <1>6, <1>7
  <1> QED
    BY <1>1, <1>3, <1>7, <1>8, <1>9, <1>10, <1>11 DEF Captures

\* The record is appended and the lock released; or the append fails, and with
\* it the exchange.
LEMMA AppendKeeps == ASSUME ProxyIInv, NEW e \in Exchanges, AppendRecord(e) PROVE ProxyIInv'
  <1> USE DEF ProxyIInv
  <1>1. /\ exchanges[e].pc = "append" /\ locked = e /\ locked' = 0 /\ capture' = capture
        /\ Len(exchanges[e].record) = 1 /\ exchanges[e].onward \in {"upstream", "respond"}
        /\ exchanges[e].body \in Bodies /\ exchanges[e].client = "waiting"
        /\ exchanges[e].record \in Seq(Records)
    BY DEF AppendRecord, At, LockInv, PlaceInv, Placed, ProxyTypes, States, Working
  <1>2. \A d \in Exchanges : d # e => exchanges[d].pc # "append"
    BY <1>1 DEF LockInv
  <1> DEFINE rec == exchanges[e].record[1]
             n == Len(journal)
  <1>3. /\ rec \in Records /\ rec.seq = capture.seq /\ capture.seq \in Nat
        /\ rec.method = "call" => rec.call = rec.answer
        /\ \A i \in 1..n : journal[i].seq < rec.seq
    BY <1>1 DEF LockInv, ProxyTypes
  <1>4. journal \in Seq(Records) /\ n \in Nat
    BY DEF ProxyTypes
  <1>5. PICK x : /\ exchanges' = [exchanges EXCEPT ![e] = x]
                 /\ x \in States /\ x.body = exchanges[e].body /\ x.answer = exchanges[e].answer
                 /\ \/ /\ journal' = journal \o exchanges[e].record
                       /\ x.pc = exchanges[e].onward /\ x.client = "waiting"
                    \/ journal' = journal /\ x.pc = "done" /\ x.client = "closed"
    <2>0. exchanges[e] \in States /\ exchanges \in [Exchanges -> States]
      BY DEF ProxyTypes
    <2>1. CASE /\ journal' = journal \o exchanges[e].record
               /\ exchanges' = [exchanges EXCEPT ![e].pc = exchanges[e].onward]
      <3> DEFINE x == [exchanges[e] EXCEPT !.pc = exchanges[e].onward]
      <3>1. /\ x \in States /\ x.body = exchanges[e].body /\ x.answer = exchanges[e].answer
            /\ x.pc = exchanges[e].onward /\ x.client = exchanges[e].client
        BY <1>1, <2>0 DEF States, Working
      <3>2. exchanges' = [exchanges EXCEPT ![e] = x]
        BY <2>1
      <3> HIDE DEF x
      <3> QED
        BY <1>1, <2>1, <3>1, <3>2
    <2>2. CASE AppendFails(e)
      <3> DEFINE x == [exchanges[e] EXCEPT !.pc = "done", !.client = "closed"]
      <3>1. /\ x \in States /\ x.body = exchanges[e].body /\ x.answer = exchanges[e].answer
            /\ x.pc = "done" /\ x.client = "closed"
        BY <2>0 DEF States, Working
      <3>2. exchanges' = [exchanges EXCEPT ![e] = x] /\ journal' = journal
        BY <2>2 DEF AppendFails, End
      <3> HIDE DEF x
      <3> QED
        BY <3>1, <3>2
    <2> QED
      BY <2>1, <2>2 DEF AppendRecord
  <1>6. exchanges'[e] = x /\ \A d \in Exchanges : d # e => exchanges'[d] = exchanges[d]
    BY <1>5 DEF ProxyTypes
  <1>7. /\ journal' \in Seq(Records) /\ Len(journal') \in Nat /\ Len(journal') >= n
        /\ \A i \in 1..n : journal'[i] = journal[i]
        /\ \A i \in 1..Len(journal') : i \notin 1..n => i = n + 1 /\ journal'[i] = rec
        /\ x.client = "waiting" => Len(journal') = n + 1
    <2>1. CASE journal' = journal /\ x.client = "closed"
      BY <1>4, <2>1
    <2>2. CASE journal' = journal \o exchanges[e].record
      <3> DEFINE record == exchanges[e].record
      <3>1. /\ journal \o record \in Seq(Records)
            /\ Len(journal \o record) = n + 1
            /\ \A i \in 1..(n + 1) : (journal \o record)[i] = IF i <= n THEN journal[i] ELSE record[i - n]
        <4>1. record \in Seq(Records) /\ Len(record) = 1
          BY <1>1
        <4> HIDE DEF record
        <4>2. /\ journal \o record \in Seq(Records)
              /\ Len(journal \o record) = Len(journal) + Len(record)
              /\ \A i \in 1..Len(journal) + Len(record) : (journal \o record)[i] =
                    IF i <= Len(journal) THEN journal[i] ELSE record[i - Len(journal)]
          BY <1>4, <4>1, ConcatProperties, Zenon
        <4> QED
          BY <4>1, <4>2
      <3>2. /\ Len(journal') = n + 1 /\ journal' \in Seq(Records)
            /\ \A i \in 1..(n + 1) : journal'[i] = IF i <= n THEN journal[i] ELSE record[i - n]
        BY <2>2, <3>1
      <3>3. (n + 1) - n = 1 /\ record[1] = rec
        BY <1>4
      <3> HIDE DEF record, n, rec
      <3> QED
        BY <1>4, <3>2, <3>3
    <2> QED
      BY <1>5, <2>1, <2>2
  <1> HIDE DEF rec, n
  <1>8. ProxyTypes'
    BY <1>1, <1>5, <1>7 DEF ProxyTypes
  <1>9. PlaceInv'
    <2>1. \A d \in Exchanges : d # e => Placed(exchanges'[d])
      BY <1>6 DEF PlaceInv
    <2>2. Placed(x)
      BY <1>1, <1>5 DEF PlaceInv, Placed
    <2> QED
      BY <1>6, <2>1, <2>2 DEF PlaceInv

  <1>10. PendingInv'
    <2>1. ASSUME NEW d \in Exchanges, d # e
          PROVE  (/\ \/ exchanges'[d].pc \in {"upstream", "inbound"}
                     \/ exchanges'[d].pc = "append" /\ exchanges'[d].onward = "upstream"
                  /\ exchanges'[d].body.kind = "request")
                 => capture'.pending[<<d, exchanges'[d].body.id>>] = d
      <3>1. exchanges'[d] = exchanges[d] /\ capture' = capture
        BY <1>1, <1>6, <2>1
      <3> QED
        BY <3>1 DEF PendingInv
    <2>2. (x.pc \in {"upstream", "inbound", "append"} /\ x.body.kind = "request")
             => capture.pending[<<e, x.body.id>>] = e
      BY <1>1, <1>5 DEF PendingInv
    <2>3. \A d \in Exchanges : \A id \in Ids : capture'.pending[<<d, id>>] \in {0, d}
      BY <1>1 DEF PendingInv
    <2> QED
      BY <1>1, <1>6, <2>1, <2>2, <2>3 DEF PendingInv
  <1>11. LockInv'
    <2>1. x.pc # "append"
      BY <1>1, <1>5
    <2> QED
      BY <1>2, <1>6, <2>1 DEF LockInv
  <1>12. NumberInv'
    <2>0. \A i \in 1..n : journal[i].seq \in Nat /\ journal[i].seq < rec.seq
      BY <1>3, JournalTypes DEF n
    <2>1. \A i \in 1..Len(journal') : journal'[i].seq <= capture'.seq
      BY <1>1, <1>3, <1>7, <2>0
    <2>2. \A i \in 1..Len(journal') : journal'[i].method = "call" => journal'[i].call = journal'[i].answer
      BY <1>3, <1>7 DEF NumberInv, n
    <2>3. ASSUME NEW i \in 2..Len(journal') PROVE journal'[i - 1].seq < journal'[i].seq
      <3>1. i \in 1..Len(journal') /\ i - 1 \in 1..Len(journal') /\ n \in Nat
        BY <1>4, <1>7, <2>3
      <3>2. CASE i \in 1..n
        <4>1. i \in 2..n /\ i - 1 \in 1..n
          BY <1>4, <3>1, <3>2
        <4> QED
          BY <1>7, <3>2, <4>1 DEF NumberInv, n
      <3>3. CASE i \notin 1..n
        <4>1. i = n + 1 /\ journal'[i] = rec
          BY <1>7, <3>1, <3>3
        <4>2. i - 1 \in 1..n
          BY <3>1, <4>1
        <4> QED
          BY <1>7, <2>0, <4>1, <4>2
      <3> QED
        BY <3>2, <3>3
    <2> QED
      BY <2>1, <2>2, <2>3 DEF NumberInv
  <1>13. HeardInv'
    <2>1. \A d : InJournal(d) => InJournal(d)'
      <3> SUFFICES ASSUME NEW d, InJournal(d) PROVE InJournal(d)'
        OBVIOUS
      <3>1. PICK i \in 1..n : journal[i].method = "call" /\ journal[i].call = d
        BY DEF InJournal, n
      <3>2. i \in 1..Len(journal') /\ journal'[i] = journal[i]
        BY <1>4, <1>7, <3>1
      <3> QED
        BY <3>1, <3>2 DEF InJournal
    <2>2. \A d \in Exchanges : Heard(d)' <=> Heard(d)
      BY <1>5, <1>6, HeardStays
    <2>3. x.pc = "respond" /\ Heard(e) => InJournal(e)'
      <3> SUFFICES ASSUME x.pc = "respond", Heard(e) PROVE InJournal(e)'
        OBVIOUS
      <3>1. rec.method = "call" /\ rec.call = e
        BY <1>1, <1>5 DEF HeardInv, rec
      <3>2. n + 1 \in 1..Len(journal') /\ n + 1 \notin 1..n
        BY <1>4, <1>5, <1>7
      <3> QED
        BY <1>7, <3>1, <3>2 DEF InJournal
    <2>4. x.pc # "append" /\ x.client # "answered"
      BY <1>1, <1>5
    <2> QED
      BY <1>2, <1>6, <2>1, <2>2, <2>3, <2>4 DEF HeardInv
  <1> QED
    BY <1>8, <1>9, <1>10, <1>11, <1>12, <1>13

\* Every step keeps the inductive invariant.
LEMMA NextProxyIInv == ProxyIInv /\ [ProxyNext]_proxyVars => ProxyIInv'
  <1> SUFFICES ASSUME ProxyIInv, [ProxyNext]_proxyVars PROVE ProxyIInv'
    OBVIOUS
  <1>1. CASE UNCHANGED proxyVars
    <2>1. UNCHANGED <<exchanges, capture, journal, locked>>
      BY <1>1 DEF proxyVars
    <2>2. \A e \in Exchanges : Heard(e)' <=> Heard(e)
      BY <2>1, HeardStays
    <2> QED
      BY <2>1, <2>2 DEF ProxyIInv, ProxyTypes, PlaceInv, PendingInv, LockInv, NumberInv, HeardInv, InJournal
  <1>2. ASSUME NEW e \in Exchanges,
               \/ Connect(e) \/ BeginExchange(e) \/ CaptureRequest(e) \/ Upstream(e)
               \/ CaptureAnswer(e) \/ AppendRecord(e) \/ WriteResponse(e)
        PROVE  ProxyIInv'
    BY <1>2, ConnectKeeps, BeginKeeps, UpstreamKeeps, WriteKeeps, AppendKeeps,
       RequestCaptures, AnswerCaptures, CapturesKeep
  <1> QED
    BY <1>1, <1>2 DEF ProxyNext

\* The journal is what the invariant says of it.
LEMMA FaithfulFromInv == ProxyIInv => JournalFaithful
  <1> SUFFICES ASSUME ProxyIInv PROVE JournalFaithful
    OBVIOUS
  <1>1. \A r \in ToSet(journal) : \E i \in 1..Len(journal) : r = journal[i]
    BY DEF ToSet, ProxyIInv, ProxyTypes
  <1>2. \A i \in 1..Len(journal) : journal[i] \in ToSet(journal)
    BY DEF ToSet, ProxyIInv, ProxyTypes
  <1>3. ExchangesPaired
    BY <1>1 DEF ExchangesPaired, Calls, ProxyIInv, NumberInv
  <1>4. JournalInOrder
    BY DEF JournalInOrder, ProxyIInv, NumberInv
  <1>5. AnsweredCallsRecorded
    <2> SUFFICES ASSUME NEW e \in Exchanges, Heard(e), exchanges[e].client = "answered"
                 PROVE  \E r \in Calls : r.call = e
      BY DEF AnsweredCallsRecorded, Heard
    <2>1. InJournal(e)
      BY DEF ProxyIInv, HeardInv
    <2> QED
      BY <1>2, <2>1 DEF InJournal, Calls
  <1> QED
    BY <1>3, <1>4, <1>5 DEF JournalFaithful

\* However the exchanges of any number of clients interleave, and whatever
\* appends fail, the journal of the proxy tells what its clients saw.
THEOREM ProxyIsFaithful == ProxySpec => []JournalFaithful
  BY InitProxyIInv, NextProxyIInv, FaithfulFromInv, PTL DEF ProxySpec

-----------------------------------------------------------------------------
(* The query of the cache and the scan.                                    *)

-----------------------------------------------------------------------------
(* The scan and the query show the same.                                  *)

\* Line i comes before line j in what is shown.
Before(rows, i, j) == rows[i].ts < rows[j].ts \/ (rows[i].ts = rows[j].ts /\ i < j)

\* The points kept for a server after n lines are those of the lines L, in
\* order, and every other line of the server comes before all of a full list.
Tracks(rows, s, n, recent, L) ==
    /\ recent \in Seq(Points) /\ Len(recent) <= Newest
    /\ L \in [1..Len(recent) -> 1..n]
    /\ \A k \in 1..Len(recent) : rows[L[k]].server = s /\ recent[k] = rows[L[k]]
    /\ \A j, k \in 1..Len(recent) : j < k => Before(rows, L[j], L[k])
    /\ \A i \in 1..n : rows[i].server = s =>
          \/ \E k \in 1..Len(recent) : L[k] = i
          \/ Len(recent) = Newest /\ \A k \in 1..Len(recent) : Before(rows, i, L[k])

\* A line comes after those of its time.
LEMMA Position ==
    ASSUME NEW m \in Nat, NEW recent, \A i \in 1..m : recent[i].ts \in Nat,
           \A i, j \in 1..m : i < j => recent[i].ts <= recent[j].ts, NEW ts \in Nat
    PROVE  \E q \in 0..m : /\ Cardinality({i \in 1..m : recent[i].ts <= ts}) = q
                           /\ \A i \in 1..m : recent[i].ts <= ts <=> i <= q
  <1> DEFINE Late == {i \in 1..m : recent[i].ts > ts}
  <1>1. \E q \in 0..m : \A i \in 1..m : recent[i].ts <= ts <=> i <= q
    <2>1. CASE Late = {}
      <3>1. \A i \in 1..m : recent[i].ts <= ts /\ i <= m
        BY <2>1
      <3> QED
        BY <3>1
    <2>2. CASE Late # {}
      <3>1. Late \in SUBSET Nat
        OBVIOUS
      <3>2. PICK first \in Late : \A i \in Late : first <= i
        <4> HIDE DEF Late
        <4> QED
          BY <2>2, <3>1, LeastNumber
      <3>3. first \in 1..m /\ first - 1 \in 0..m
        BY <3>2
      <3>4. \A i \in 1..m : recent[i].ts <= ts <=> i <= first - 1
        <4> SUFFICES ASSUME NEW i \in 1..m PROVE recent[i].ts <= ts <=> i <= first - 1
          OBVIOUS
        <4>1. i < first => recent[i].ts <= ts
          BY <3>2, <3>3
        <4>2. i = first => recent[i].ts > ts
          BY <3>2
        <4>3. i > first => recent[i].ts > ts
          BY <3>2, <3>3
        <4> QED
          BY <3>3, <4>1, <4>2, <4>3
      <3> QED
        BY <3>3, <3>4
    <2> QED
      BY <2>1, <2>2
  <1>2. PICK q \in 0..m : \A i \in 1..m : recent[i].ts <= ts <=> i <= q
    BY <1>1
  <1>3. {i \in 1..m : recent[i].ts <= ts} = 1..q
    BY <1>2
  <1>4. Cardinality(1..q) = q
    BY FS_Interval
  <1> QED
    BY <1>2, <1>3, <1>4

\* A sequence with one element more at a position.
Splice(a, q, p) == SubSeq(a, 1, q) \o <<p>> \o SubSeq(a, q + 1, Len(a))
\* A splice is the sequence with the element at its position.
LEMMA Spliced ==
    ASSUME NEW a \in Seq(Points), NEW p \in Points, NEW q \in 0..Len(a)
    PROVE  /\ Splice(a, q, p) \in Seq(Points) /\ Len(Splice(a, q, p)) = Len(a) + 1
           /\ \A i \in 1..Len(a) + 1 :
                 Splice(a, q, p)[i] = IF i <= q THEN a[i] ELSE IF i = q + 1 THEN p ELSE a[i - 1]
  <1> DEFINE n == Len(a)
             left == SubSeq(a, 1, q)
             right == SubSeq(a, q + 1, n)
  <1>0. n \in Nat /\ q \in Int /\ q <= n /\ q >= 0 /\ \A i \in 1..n : a[i] \in Points
    OBVIOUS
  <1>1. left \in Seq(Points) /\ Len(left) = q /\ \A i \in 1..q : left[i] = a[i]
    BY <1>0, SubSeqProperties
  <1>2. right \in Seq(Points) /\ Len(right) = n - q /\ \A i \in 1..n - q : right[i] = a[q + i]
    <2>1. \A i \in q + 1..n : a[i] \in Points
      BY <1>0
    <2>2. /\ right \in Seq(Points) /\ Len(right) = IF q + 1 <= n THEN n - (q + 1) + 1 ELSE 0
          /\ \A i \in 1..n - (q + 1) + 1 : right[i] = a[(q + 1) + i - 1]
      BY <1>0, <2>1, SubSeqProperties
    <2> HIDE DEF right, n
    <2>3. /\ n - (q + 1) + 1 = n - q /\ (~(q + 1 <= n) => n - q = 0)
          /\ \A i \in Int : (q + 1) + i - 1 = q + i
      BY <1>0
    <2> QED
      BY <1>0, <2>2, <2>3
  <1> HIDE DEF left, right, n
  <1>3. <<p>> \in Seq(Points) /\ Len(<<p>>) = 1 /\ <<p>>[1] = p
    OBVIOUS
  <1>4. /\ left \o <<p>> \in Seq(Points) /\ Len(left \o <<p>>) = q + 1
        /\ \A i \in 1..q + 1 : (left \o <<p>>)[i] = IF i <= q THEN a[i] ELSE p
    <2>1. /\ left \o <<p>> \in Seq(Points) /\ Len(left \o <<p>>) = Len(left) + Len(<<p>>)
          /\ \A i \in 1..Len(left) + Len(<<p>>) :
                (left \o <<p>>)[i] = IF i <= Len(left) THEN left[i] ELSE <<p>>[i - Len(left)]
      BY <1>1, <1>3, ConcatProperties, Zenon
    <2> QED
      BY <1>0, <1>1, <1>3, <2>1
  <1> DEFINE head == left \o <<p>>
  <1> HIDE DEF head
  <1>5. /\ head \o right \in Seq(Points) /\ Len(head \o right) = Len(head) + Len(right)
        /\ \A i \in 1..Len(head) + Len(right) :
              (head \o right)[i] = IF i <= Len(head) THEN head[i] ELSE right[i - Len(head)]
    BY <1>2, <1>4, ConcatProperties, Zenon DEF head
  <1>6. Len(head) = q + 1 /\ \A i \in 1..q + 1 : head[i] = IF i <= q THEN a[i] ELSE p
    BY <1>4 DEF head
  <1>7. /\ Len(head \o right) = n + 1
        /\ \A i \in 1..n + 1 :
              (head \o right)[i] = IF i <= q THEN a[i] ELSE IF i = q + 1 THEN p ELSE a[i - 1]
    <2>1. Len(head) + Len(right) = n + 1
      BY <1>0, <1>2, <1>6
    <2>2. ASSUME NEW i \in 1..n + 1, i > q + 1 PROVE right[i - Len(head)] = a[i - 1]
      <3>1. i - (q + 1) \in 1..n - q /\ q + (i - (q + 1)) = i - 1
        BY <1>0, <2>2
      <3> QED
        BY <1>2, <1>6, <3>1
    <2>3. ASSUME NEW i \in 1..n + 1
          PROVE  (head \o right)[i] = IF i <= q THEN a[i] ELSE IF i = q + 1 THEN p ELSE a[i - 1]
      <3>1. (head \o right)[i] = IF i <= q + 1 THEN head[i] ELSE right[i - Len(head)]
        BY <1>5, <1>6, <2>1
      <3>2. i <= q + 1 => i \in 1..q + 1
        BY <1>0
      <3>3. i <= q + 1 => head[i] = IF i <= q THEN a[i] ELSE p
        BY <1>6, <3>2
      <3> QED
        BY <1>0, <2>2, <3>1, <3>3
    <2> QED
      BY <1>5, <2>1, <2>3
  <1> QED
    BY <1>5, <1>7 DEF Splice, head, left, right, n

\* Accepting the next line keeps the track.
LEMMA InsertTracks ==
    ASSUME NEW rows \in Seq(Points), NEW s, NEW n \in Nat, n < Len(rows), NEW recent, NEW L,
           Tracks(rows, s, n, recent, L), rows[n + 1].server = s
    PROVE  \E K : Tracks(rows, s, n + 1, Insert(recent, rows[n + 1]), K)
  <1> DEFINE m == Len(recent)
             p == rows[n + 1]
             index == Cardinality({i \in DOMAIN recent : recent[i].ts <= p.ts})
             longer == SubSeq(recent, 1, index) \o <<p>> \o SubSeq(recent, index + 1, Len(recent))
  <1>1. /\ recent \in Seq(Points) /\ m \in Nat /\ m <= Newest /\ DOMAIN recent = 1..m
        /\ L \in [1..m -> 1..n]
        /\ \A k \in 1..m : rows[L[k]].server = s /\ recent[k] = rows[L[k]] /\ L[k] \in 1..n
        /\ \A j, k \in 1..m : j < k => Before(rows, L[j], L[k])
        /\ \A i \in 1..n : rows[i].server = s =>
              (\E k \in 1..m : L[k] = i) \/ (m = Newest /\ \A k \in 1..m : Before(rows, i, L[k]))
    <2>1. /\ recent \in Seq(Points) /\ m <= Newest
          /\ L \in [1..m -> 1..n]
          /\ \A k \in 1..m : rows[L[k]].server = s /\ recent[k] = rows[L[k]]
          /\ \A j, k \in 1..m : j < k => Before(rows, L[j], L[k])
          /\ \A i \in 1..n : rows[i].server = s =>
                (\E k \in 1..m : L[k] = i) \/ (m = Newest /\ \A k \in 1..m : Before(rows, i, L[k]))
      BY Zenon DEF Tracks
    <2>2. m \in Nat /\ DOMAIN recent = 1..m
      BY ONLY <2>1
    <2> HIDE DEF m
    <2>3. \A k \in 1..m : L[k] \in 1..n
      BY ONLY <2>1
    <2> QED
      BY ONLY <2>1, <2>2, <2>3
  <1>2. /\ p \in Points /\ p.ts \in Nat /\ Newest \in Nat
        /\ \A i \in 1..n + 1 : rows[i] \in Points /\ rows[i].ts \in Nat
    BY TrendAssumption
  <1>3. /\ \A i \in 1..m : recent[i].ts \in Nat
        /\ \A i, j \in 1..m : i < j => recent[i].ts <= recent[j].ts
    <2>1. \A i \in 1..m : recent[i] = rows[L[i]] /\ L[i] \in 1..n + 1 /\ recent[i].ts \in Nat
      <3>1. \A k \in 1..n : k \in 1..n + 1
        OBVIOUS
      <3>2. ASSUME NEW i \in 1..m PROVE recent[i] = rows[L[i]] /\ L[i] \in 1..n + 1
        BY <1>1, <3>1
      <3> QED
        BY <1>2, <3>2
    <2> HIDE DEF m
    <2>2. ASSUME NEW i \in 1..m, NEW j \in 1..m, i < j PROVE recent[i].ts <= recent[j].ts
      <3>1. Before(rows, L[i], L[j])
        BY <1>1, <2>2
      <3>2. rows[L[i]].ts < rows[L[j]].ts \/ rows[L[i]].ts = rows[L[j]].ts
        BY ONLY <3>1 DEF Before
      <3>3. PICK a : a = recent[i].ts
        OBVIOUS
      <3>4. PICK b : b = recent[j].ts
        OBVIOUS
      <3>5. a \in Nat /\ b \in Nat /\ (a < b \/ a = b)
        BY <2>1, <3>2, <3>3, <3>4
      <3>6. a <= b
        BY ONLY <3>5
      <3> QED
        BY <3>3, <3>4, <3>6
    <2> QED
      BY <2>1, <2>2
  <1>4. /\ index \in 0..m
        /\ \A i \in 1..m : recent[i].ts <= p.ts <=> i <= index
    <2>1. \E q \in 0..m : /\ Cardinality({i \in 1..m : recent[i].ts <= p.ts}) = q
                          /\ \A i \in 1..m : recent[i].ts <= p.ts <=> i <= q
      <3>1. m \in Nat /\ p.ts \in Nat
        BY <1>1, <1>2
      <3> HIDE DEF m, p
      <3> QED
        BY <1>3, <3>1, Position
    <2>2. index = Cardinality({i \in 1..m : recent[i].ts <= p.ts})
      BY <1>1
    <2> HIDE DEF index, m, p
    <2> QED
      BY <2>1, <2>2
  <1> HIDE DEF index
  <1>5. /\ longer \in Seq(Points) /\ Len(longer) = m + 1
        /\ \A i \in 1..m + 1 :
              longer[i] = IF i <= index THEN recent[i] ELSE IF i = index + 1 THEN p ELSE recent[i - 1]
    <2>1. recent \in Seq(Points) /\ p \in Points /\ index \in 0..Len(recent)
      BY <1>1, <1>2, <1>4
    <2> HIDE DEF p, m
    <2>2. longer = Splice(recent, index, p)
      BY DEF Splice
    <2> HIDE DEF longer
    <2>3. /\ Splice(recent, index, p) \in Seq(Points) /\ Len(Splice(recent, index, p)) = Len(recent) + 1
          /\ \A i \in 1..Len(recent) + 1 :
                Splice(recent, index, p)[i]
                   = IF i <= index THEN recent[i] ELSE IF i = index + 1 THEN p ELSE recent[i - 1]
      BY ONLY <2>1, Spliced
    <2> QED
      BY <2>2, <2>3 DEF m
  <1>6. Insert(recent, p) = IF m + 1 > Newest THEN Tail(longer) ELSE longer
    BY <1>5 DEF Insert, index
  <1> DEFINE K == [i \in 1..m + 1 |-> IF i <= index THEN L[i] ELSE IF i = index + 1 THEN n + 1 ELSE L[i - 1]]
  <1>7. \A i \in 1..m + 1 : i > index + 1 => i - 1 \in 1..m
    BY <1>1, <1>4
  <1>8. \A i \in 1..m + 1 : i <= index => i \in 1..m
    BY <1>1, <1>4
  <1>9. \A i \in 1..m + 1 : /\ K[i] \in 1..n + 1 /\ rows[K[i]].server = s /\ longer[i] = rows[K[i]]
                            /\ K[i] = IF i <= index THEN L[i] ELSE IF i = index + 1 THEN n + 1 ELSE L[i - 1]
    <2> SUFFICES ASSUME NEW i \in 1..m + 1
                 PROVE  /\ K[i] \in 1..n + 1 /\ rows[K[i]].server = s /\ longer[i] = rows[K[i]]
                        /\ K[i] = IF i <= index THEN L[i] ELSE IF i = index + 1 THEN n + 1 ELSE L[i - 1]
      OBVIOUS
    <2>1. K[i] = IF i <= index THEN L[i] ELSE IF i = index + 1 THEN n + 1 ELSE L[i - 1]
      OBVIOUS
    <2>2. longer[i] = IF i <= index THEN recent[i] ELSE IF i = index + 1 THEN p ELSE recent[i - 1]
      BY <1>5
    <2>3. n + 1 \in 1..n + 1 /\ \A k \in 1..n : k \in 1..n + 1
      OBVIOUS
    <2>4. i <= index => i \in 1..m
      BY <1>8
    <2>5. i > index + 1 => i - 1 \in 1..m
      BY <1>7
    <2>6. i \in Int /\ index \in Int
      BY <1>4
    <2> HIDE DEF K, longer, m
    <2>7. CASE i <= index
      BY <1>1, <2>1, <2>2, <2>3, <2>4, <2>7
    <2>8. CASE i = index + 1
      BY <2>1, <2>2, <2>3, <2>6, <2>8
    <2>9. CASE i > index + 1
      BY <1>1, <2>1, <2>2, <2>3, <2>5, <2>6, <2>9
    <2> QED
      BY <2>6, <2>7, <2>8, <2>9
  <1>10. \A i \in 1..m : /\ i <= index => Before(rows, L[i], n + 1)
                         /\ i > index => Before(rows, n + 1, L[i])
    <2> SUFFICES ASSUME NEW i \in 1..m
                 PROVE  (i <= index => Before(rows, L[i], n + 1)) /\ (i > index => Before(rows, n + 1, L[i]))
      OBVIOUS
    <2>1. L[i] \in 1..n /\ recent[i] = rows[L[i]] /\ recent[i].ts \in Nat
      BY <1>1, <1>3
    <2> QED
      BY <1>2, <1>4, <2>1, SMTT(30) DEF Before
  <1> HIDE DEF K, longer
  <1>11. \A i, j \in 1..m + 1 : i < j => Before(rows, K[i], K[j])
    <2> SUFFICES ASSUME NEW i \in 1..m + 1, NEW j \in 1..m + 1, i < j PROVE Before(rows, K[i], K[j])
      OBVIOUS
    <2>0. i \in Int /\ j \in Int /\ index \in Int
      BY <1>4
    <2>1. CASE j <= index
      BY <1>1, <1>8, <1>9, <2>0, <2>1
    <2>2. CASE j = index + 1
      BY <1>8, <1>9, <1>10, <2>0, <2>2
    <2>3. CASE j > index + 1
      <3>1. j - 1 \in 1..m /\ K[j] = L[j - 1] /\ j - 1 > index
        BY <1>7, <1>9, <2>0, <2>3
      <3>2. CASE i <= index
        BY <1>1, <1>8, <1>9, <2>0, <3>1, <3>2
      <3>3. CASE i = index + 1
        BY <1>9, <1>10, <2>0, <3>1, <3>3
      <3>4. CASE i > index + 1
        <4>1. i - 1 \in 1..m /\ K[i] = L[i - 1] /\ i - 1 < j - 1
          BY <1>7, <1>9, <2>0, <3>4
        <4> QED
          BY <1>1, <3>1, <4>1
      <3> QED
        BY <2>0, <3>2, <3>3, <3>4
    <2> QED
      BY <2>0, <2>1, <2>2, <2>3
  <1>12. \A k \in 1..m : \E j \in 1..m + 1 : K[j] = L[k]
    <2> SUFFICES ASSUME NEW k \in 1..m PROVE \E j \in 1..m + 1 : K[j] = L[k]
      OBVIOUS
    <2>0. m \in Nat /\ index \in 0..m
      BY <1>1, <1>4
    <2> HIDE DEF m
    <2>1. CASE k <= index
      <3>1. k \in 1..m + 1
        BY ONLY <2>0, k \in 1..m
      <3>2. K[k] = L[k]
        BY ONLY <1>9, <2>1, <3>1
      <3> QED
        BY ONLY <3>1, <3>2
    <2>2. CASE k > index
      <3>1. k + 1 \in 1..m + 1 /\ ~(k + 1 <= index) /\ k + 1 # index + 1 /\ (k + 1) - 1 = k
        BY ONLY <2>0, <2>2, k \in 1..m
      <3>2. K[k + 1] = L[k]
        BY ONLY <1>9, <3>1
      <3> QED
        BY ONLY <3>1, <3>2
    <2>3. k <= index \/ k > index
      BY ONLY <2>0, k \in 1..m
    <2> QED
      BY ONLY <2>1, <2>2, <2>3
  <1>13. index + 1 \in 1..m + 1 /\ K[index + 1] = n + 1
    BY <1>1, <1>4, <1>9
  <1>14. CASE m + 1 <= Newest
    <2>1. Insert(recent, p) = longer
      <3>1. ~(m + 1 > Newest)
        <4>1. m \in Nat /\ Newest \in Nat
          BY <1>1, <1>2
        <4> HIDE DEF m
        <4> QED
          BY ONLY <1>14, <4>1
      <3> QED
        BY ONLY <1>6, <3>1
    <2>2. \A i \in 1..n + 1 : rows[i].server = s => \E k \in 1..m + 1 : K[k] = i
      <3>1. \A i \in 1..n : rows[i].server = s => \E k \in 1..m : L[k] = i
        <4>1. m \in Nat /\ Newest \in Nat
          BY <1>1, <1>2
        <4>2. \A i \in 1..n : rows[i].server = s =>
                 (\E k \in 1..m : L[k] = i) \/ m = Newest
          BY ONLY <1>1, Zenon
        <4> HIDE DEF m
        <4>3. m # Newest
          BY ONLY <1>14, <4>1
        <4> QED
          BY ONLY <4>2, <4>3, Zenon
      <3> QED
        BY <1>12, <1>13, <3>1, SMTT(30)
    <2>3. K \in [1..m + 1 -> 1..n + 1]
      BY <1>9 DEF K
    <2>4. Tracks(rows, s, n + 1, longer, K)
      BY <1>1, <1>5, <1>9, <1>11, <1>14, <2>2, <2>3 DEF Tracks
    <2> QED
      BY <2>1, <2>4
  <1>15. CASE m = Newest
    <2>1. Insert(recent, p) = Tail(longer)
      BY <1>1, <1>2, <1>6, <1>15
    <2> DEFINE J == [i \in 1..m |-> K[i + 1]]
               rest == Tail(longer)
    <2>2. rest \in Seq(Points) /\ Len(rest) = m /\ \A i \in 1..m : rest[i] = longer[i + 1]
      <3>1. longer # <<>>
        BY <1>1, <1>5
      <3>2. /\ rest \in Seq(Points) /\ Len(rest) = Len(longer) - 1
            /\ \A i \in 1..Len(rest) : rest[i] = longer[i + 1]
        BY <1>5, <3>1, HeadTailProperties
      <3> QED
        BY <1>1, <1>5, <3>2
    <2> HIDE DEF rest
    <2>3. \A i \in 1..m : i + 1 \in 1..m + 1 /\ J[i] = K[i + 1]
      BY <1>1
    <2> HIDE DEF J
    <2>4. /\ J \in [1..m -> 1..n + 1]
          /\ \A k \in 1..m : rows[J[k]].server = s /\ rest[k] = rows[J[k]]
          /\ \A j, k \in 1..m : j < k => Before(rows, J[j], J[k])
      <3>1. J \in [1..m -> 1..n + 1]
        BY <1>9, <2>3 DEF J
      <3>2. \A k \in 1..m : rows[J[k]].server = s /\ rest[k] = rows[J[k]]
        BY <1>9, <2>2, <2>3, SMTT(30)
      <3>3. \A j, k \in 1..m : j < k => j + 1 < k + 1
        BY <1>1
      <3> QED
        BY <1>11, <2>3, <3>1, <3>2, <3>3
    <2>5. ASSUME NEW i \in 1..n + 1, rows[i].server = s
          PROVE  (\E k \in 1..m : J[k] = i) \/ \A k \in 1..m : Before(rows, i, J[k])
      <3>1. CASE \E j \in 1..m + 1 : K[j] = i
        <4>1. PICK j \in 1..m + 1 : K[j] = i
          BY <3>1
        <4>2. CASE j = 1
          <5>1. \A k \in 1..m : k + 1 \in 1..m + 1 /\ 1 \in 1..m + 1 /\ 1 < k + 1
            <6>1. m \in Nat
              BY <1>1
            <6> HIDE DEF m
            <6> QED
              BY ONLY <6>1
          <5>2. \A k \in 1..m : Before(rows, K[1], K[k + 1])
            BY ONLY <1>11, <5>1, Zenon
          <5> QED
            BY <2>3, <4>1, <4>2, <5>2
        <4>3. CASE j # 1
          <5>1. j - 1 \in 1..m /\ (j - 1) + 1 = j
            BY <1>1, <4>3
          <5> QED
            BY <2>3, <4>1, <5>1
        <4> QED
          BY <4>2, <4>3
      <3>2. CASE ~\E j \in 1..m + 1 : K[j] = i
        <4>1. i # n + 1 /\ i \in 1..n
          BY <1>13, <3>2
        <4>2. \A k \in 1..m : Before(rows, i, L[k])
          <5>1. ~\E k \in 1..m : L[k] = i
            BY <1>12, <3>2
          <5> QED
            BY <1>1, <2>5, <4>1, <5>1
        <4> SUFFICES ASSUME NEW k \in 1..m PROVE Before(rows, i, J[k])
          OBVIOUS
        <4>3. CASE J[k] = n + 1
          <5>1. k + 1 = index + 1
            <6>1. K[k + 1] = n + 1 /\ k + 1 \in 1..m + 1
              BY <2>3, <4>3
            <6>2. k + 1 <= index => k + 1 \in 1..m /\ L[k + 1] \in 1..n
              BY <1>1, <1>4
            <6>3. k + 1 > index + 1 => L[(k + 1) - 1] \in 1..n
              BY <1>1, <1>4
            <6>4. K[k + 1] = IF k + 1 <= index THEN L[k + 1]
                             ELSE IF k + 1 = index + 1 THEN n + 1 ELSE L[(k + 1) - 1]
              BY <1>9, <6>1
            <6>5. n + 1 \notin 1..n /\ k + 1 \in Int /\ index \in Int
              BY <1>4
            <6> QED
              BY ONLY <6>1, <6>2, <6>3, <6>4, <6>5
          <5>2. 1 \in 1..m /\ 1 <= index
            BY <1>1, <1>4, <5>1
          <5>3. Before(rows, i, L[1]) /\ Before(rows, L[1], n + 1) /\ L[1] \in 1..n
            BY <1>1, <1>10, <4>2, <5>2
          <5>4. rows[i].ts \in Nat /\ rows[L[1]].ts \in Nat /\ rows[n + 1].ts \in Nat
            BY <1>2, <5>3
          <5> QED
            BY <4>3, <5>3, <5>4, SMTT(30) DEF Before
        <4>4. CASE J[k] # n + 1
          <5>1. \E j \in 1..m : J[k] = L[j]
            BY <1>7, <1>8, <1>9, <2>3, <4>4
          <5> QED
            BY <4>2, <5>1
        <4> QED
          BY <4>3, <4>4
      <3> QED
        BY <3>1, <3>2
    <2>6. Tracks(rows, s, n + 1, rest, J)
      BY <1>1, <1>15, <2>2, <2>4, <2>5 DEF Tracks
    <2> QED
      BY <2>1, <2>6 DEF rest
  <1>16. m \in Nat /\ Newest \in Nat /\ m <= Newest
    BY <1>1, <1>2
  <1> HIDE DEF m
  <1>17. m + 1 <= Newest \/ m = Newest
    BY <1>16
  <1> QED
    BY <1>14, <1>15, <1>17

\* Induction over the numbers: the least counterexample has a predecessor.
LEMMA InductionOnNat ==
  ASSUME NEW S, 0 \in S, \A n \in Nat : n \in S => n + 1 \in S
  PROVE  \A n \in Nat : n \in S
<1> DEFINE T == Nat \ S
<1> SUFFICES ASSUME T # {} PROVE FALSE
  OBVIOUS
<1>1. IsWellFoundedOn(OpToRel(<, Nat), Nat)
  BY NatLessThanWellFounded, Zenon
<1>2. PICK x \in T : \A y \in T : ~(<<y, x>> \in OpToRel(<, Nat))
  <2> HIDE DEF T
  <2>1. T \subseteq Nat
    BY DEF T
  <2> QED
    BY <1>1, <2>1, WFMin, Zenon
<1>3. x \in Nat /\ x # 0
  BY <1>2
<1>4. x - 1 \in Nat /\ x - 1 < x /\ (x - 1) + 1 = x
  BY <1>3
<1>5. x - 1 \notin T
  BY <1>2, <1>3, <1>4 DEF OpToRel
<1> QED
  BY <1>2, <1>4, <1>5

\* The function FoldLeft evaluates: what has been folded for a set of positions.
AcceptFolds(g, base, s, n) ==
    g = [t \in SUBSET (1 .. n) |->
           IF t = {} THEN base ELSE Grouped(g[t \ {Max(t)}], s[Max(t)])]

\* There is such a function, whatever is folded.
LEMMA AcceptFoldExists ==
  ASSUME NEW base, NEW s, NEW n \in Nat
  PROVE  \E g : AcceptFolds(g, base, s, n)
<1> DEFINE Good(m, g) == /\ AcceptFolds(g, base, s, m)
                         /\ \A t \in SUBSET (1 .. m) : t # {} => Max(t) \in t
           S == {m \in Nat : \E g : Good(m, g)}
<1>1. 0 \in S
  <2>1. SUBSET (1 .. 0) = {{}}
    OBVIOUS
  <2>2. Good(0, [t \in {{}} |-> base])
    BY <2>1 DEF AcceptFolds
  <2> QED
    BY <2>2
<1>2. ASSUME NEW m \in Nat, m \in S PROVE m + 1 \in S
  <2>1. PICK g : Good(m, g)
    BY <1>2
  <2> DEFINE V(t) == IF m + 1 \in t THEN Grouped(g[t \ {m + 1}], s[m + 1]) ELSE g[t]
             h == [t \in SUBSET (1 .. m + 1) |-> V(t)]
  <2>2. ASSUME NEW t \in SUBSET (1 .. m + 1)
        PROVE  IF m + 1 \in t THEN /\ Max(t) = m + 1
                                   /\ t \ {m + 1} \in SUBSET (1 .. m)
                                   /\ m + 1 \notin t \ {m + 1}
               ELSE t \in SUBSET (1 .. m)
    <3>1. CASE m + 1 \in t
      <4>1. \A y \in t : y \in Nat /\ m + 1 >= y
        BY <1>2
      <4>2. \A x \in t : (\A y \in t : x >= y) => x = m + 1
        BY <3>1, <4>1
      <4>3. Max(t) = m + 1
        BY <3>1, <4>1, <4>2 DEF Max
      <4> QED
        BY <1>2, <3>1, <4>3
    <3>2. CASE m + 1 \notin t
      BY <1>2, <3>2
    <3> QED
      BY <3>1, <3>2
  <2>3. ASSUME NEW t \in SUBSET (1 .. m + 1), t # {} PROVE Max(t) \in t
    BY <2>1, <2>2, <2>3
  <2>4. ASSUME NEW t \in SUBSET (1 .. m + 1)
        PROVE  h[t] = IF t = {} THEN base ELSE Grouped(h[t \ {Max(t)}], s[Max(t)])
    <3>0. h[t] = V(t)
      OBVIOUS
    <3>1. CASE m + 1 \in t
      <4>1. h[t \ {m + 1}] = g[t \ {m + 1}]
        BY <2>2, <3>1
      <4> HIDE DEF h
      <4> QED
        BY <2>2, <3>0, <3>1, <4>1
    <3>2. CASE m + 1 \notin t
      <4>1. t \in SUBSET (1 .. m)
        BY <2>2, <3>2
      <4>2. g[t] = IF t = {} THEN base ELSE Grouped(g[t \ {Max(t)}], s[Max(t)])
        BY <2>1, <4>1 DEF AcceptFolds
      <4>3. t # {} => t \ {Max(t)} \in SUBSET (1 .. m + 1) /\ m + 1 \notin t \ {Max(t)}
        BY <2>3, <3>2
      <4>4. t # {} => h[t \ {Max(t)}] = g[t \ {Max(t)}]
        BY <4>3
      <4> HIDE DEF h
      <4> QED
        BY <3>0, <3>2, <4>2, <4>4
    <3> QED
      BY <3>1, <3>2
  <2>5. AcceptFolds(h, base, s, m + 1)
    <3>1. DOMAIN h = SUBSET (1 .. m + 1) /\ h = [t \in DOMAIN h |-> h[t]]
      OBVIOUS
    <3> HIDE DEF h
    <3> QED
      BY <2>4, <3>1 DEF AcceptFolds
  <2>6. Good(m + 1, h)
    <3> HIDE DEF h
    <3> QED
      BY <2>3, <2>5
  <2> HIDE DEF Good, h
  <2> QED
    BY <1>2, <2>6
<1>3. n \in S
  <2> HIDE DEF S
  <2> QED
    BY <1>1, <1>2, InductionOnNat
<1> QED
  BY <1>3

\* The states FoldLeft goes through, one entry at a time.
LEMMA AcceptSteps ==
  ASSUME NEW base, NEW s, NEW n \in Nat, DOMAIN s = 1 .. n
  PROVE  \E h : /\ h[0] = base
                /\ \A k \in 1 .. n : h[k] = Grouped(h[k - 1], s[k])
                /\ h[n] = FoldLeft(Grouped, base, s)
<1> DEFINE E(g) == g = [t \in SUBSET (1 .. n) |->
           IF t = {} THEN base ELSE Grouped(g[t \ {Max(t)}], s[Max(t)])]
           G == CHOOSE g : E(g)
           h == [k \in 0 .. n |-> G[1 .. k]]
<1>1. FoldLeft(Grouped, base, s) = (CHOOSE g : E(g))[1 .. n]
  BY SMT DEF FoldLeft, MapThenFoldSet
<1>2. E(G)
  <2>1. \E g : E(g)
    <3>1. PICK g : AcceptFolds(g, base, s, n)
      BY AcceptFoldExists, Zenon
    <3>2. E(g)
      BY <3>1, Zenon DEF AcceptFolds
    <3> HIDE DEF E
    <3> QED
      BY <3>2, Zenon
  <2> HIDE DEF E
  <2> QED
    BY <2>1
<1> HIDE DEF G
<1>3. \A t \in SUBSET (1 .. n) :
         G[t] = IF t = {} THEN base ELSE Grouped(G[t \ {Max(t)}], s[Max(t)])
  BY <1>2
<1>4. h[0] = base
  <2>1. 1 .. 0 = {} /\ h[0] = G[1 .. 0] /\ {} \in SUBSET (1 .. n)
    OBVIOUS
  <2> QED
    BY <1>3, <2>1
<1>5. ASSUME NEW k \in 1 .. n PROVE h[k] = Grouped(h[k - 1], s[k])
  <2>1. h[k] = G[1 .. k] /\ h[k - 1] = G[1 .. k - 1]
    OBVIOUS
  <2>2. Max(1 .. k) = k
    <3>1. \A x \in 1 .. k : (\A y \in 1 .. k : x >= y) => x = k
      OBVIOUS
    <3>2. k \in 1 .. k /\ \A y \in 1 .. k : k >= y
      OBVIOUS
    <3> QED
      BY <3>1, <3>2 DEF Max
  <2>3. 1 .. k # {} /\ 1 .. k \in SUBSET (1 .. n) /\ (1 .. k) \ {k} = 1 .. k - 1
    OBVIOUS
  <2> HIDE DEF h
  <2> QED
    BY <1>3, <2>1, <2>2, <2>3
<1>6. h[n] = FoldLeft(Grouped, base, s)
  BY <1>1 DEF G
<1> QED
  BY <1>4, <1>5, <1>6

\* The rows shown of a server are counted from the last.
LEMMA RowNumbers ==
    ASSUME NEW rows \in Seq(Points), NEW s, NEW recent, NEW L,
           Tracks(rows, s, Len(rows), recent, L)
    PROVE  /\ \A k \in 1..Len(recent) : RowNumber(rows, s, L[k]) = Len(recent) + 1 - k
           /\ \A i \in RowsOf(rows, s) :
                 RowNumber(rows, s, i) <= Newest <=> \E k \in 1..Len(recent) : L[k] = i
  <1> DEFINE m == Len(recent)
             n == Len(rows)
             After(i) == {j \in RowsOf(rows, s) : Follows(rows, j, i)}
  <1>1. /\ m \in Nat /\ m <= Newest /\ n \in Nat /\ DOMAIN rows = 1..n /\ Newest \in Nat
        /\ L \in [1..m -> 1..n]
        /\ \A k \in 1..m : L[k] \in 1..n /\ rows[L[k]].server = s
        /\ \A j, k \in 1..m : j < k => Before(rows, L[j], L[k])
        /\ \A i \in 1..n : rows[i].server = s =>
              (\E k \in 1..m : L[k] = i) \/ (m = Newest /\ \A k \in 1..m : Before(rows, i, L[k]))
        /\ \A i \in 1..n : rows[i].ts \in Nat
    <2>1. \A i \in 1..Len(rows) : rows[i] \in Points
      OBVIOUS
    <2>2. \A i \in 1..Len(rows) : rows[i].ts \in Nat
      BY <2>1, TrendAssumption
    <2>3. Newest \in Nat /\ Len(rows) \in Nat /\ DOMAIN rows = 1..Len(rows)
      BY TrendAssumption
    <2>4. /\ recent \in Seq(Points) /\ m <= Newest
          /\ L \in [1..m -> 1..n]
          /\ \A k \in 1..m : rows[L[k]].server = s /\ recent[k] = rows[L[k]]
          /\ \A j, k \in 1..m : j < k => Before(rows, L[j], L[k])
          /\ \A i \in 1..n : rows[i].server = s =>
                (\E k \in 1..m : L[k] = i) \/ (m = Newest /\ \A k \in 1..m : Before(rows, i, L[k]))
      BY Zenon DEF Tracks
    <2>5. \A k \in 1..m : L[k] \in 1..n
      BY <2>4
    <2>6. m \in Nat
      BY ONLY <2>4
    <2> QED
      BY <2>2, <2>3, <2>4, <2>5, <2>6
  <1> HIDE DEF m, n
  <1>2. \A j, k \in 1..m : Follows(rows, L[j], L[k]) <=> k <= j
    <2> SUFFICES ASSUME NEW j \in 1..m, NEW k \in 1..m PROVE Follows(rows, L[j], L[k]) <=> k <= j
      OBVIOUS
    <2>1. L[j] \in 1..n /\ L[k] \in 1..n /\ rows[L[j]].ts \in Nat /\ rows[L[k]].ts \in Nat
      BY <1>1
    <2>2. CASE j < k
      <3>1. Before(rows, L[j], L[k])
        BY <1>1, <2>2
      <3> QED
        BY <2>1, <2>2, <3>1 DEF Before, Follows
    <2>3. CASE k < j
      <3>1. Before(rows, L[k], L[j])
        BY <1>1, <2>3
      <3> QED
        BY <2>1, <2>3, <3>1 DEF Before, Follows
    <2>4. CASE j = k
      BY <2>1, <2>4 DEF Follows
    <2> QED
      BY <2>2, <2>3, <2>4
  <1>3. \A j, k \in 1..m : L[j] = L[k] => j = k
    <2> SUFFICES ASSUME NEW j \in 1..m, NEW k \in 1..m, L[j] = L[k] PROVE j = k
      OBVIOUS
    <2>1. k <= j /\ j <= k
      BY <1>2
    <2> QED
      BY <2>1
  <1>4. ASSUME NEW k \in 1..m PROVE RowNumber(rows, s, L[k]) = m + 1 - k
    <2>1. After(L[k]) = {L[j] : j \in k..m}
      <3>1. ASSUME NEW i \in After(L[k]) PROVE \E j \in k..m : L[j] = i
        <4>1. i \in 1..n /\ rows[i].server = s /\ Follows(rows, i, L[k])
          BY <1>1 DEF RowsOf
        <4>2. ~Before(rows, i, L[k])
          BY <1>1, <4>1 DEF Follows, Before
        <4>3. PICK j \in 1..m : L[j] = i
          BY <1>1, <4>1, <4>2
        <4>4. k <= j
          BY <1>2, <4>1, <4>3
        <4> QED
          BY <4>3, <4>4
      <3>2. ASSUME NEW j \in k..m PROVE L[j] \in After(L[k])
        <4>1. j \in 1..m /\ k <= j
          BY <1>1
        <4> QED
          BY <1>1, <1>2, <4>1 DEF RowsOf
      <3> HIDE DEF After
      <3> QED
        BY <3>1, <3>2
    <2> DEFINE f == [j \in k..m |-> L[j]]
    <2>2. f \in Bijection(k..m, {L[j] : j \in k..m})
      <3>1. \A j \in k..m : j \in 1..m
        BY <1>1
      <3> QED
        BY <1>3, <3>1 DEF Bijection, Injection, Surjection, IsInjective
    <2>3. IsFiniteSet(k..m) /\ Cardinality(k..m) = m + 1 - k
      <3>1. k \in Int /\ m \in Int /\ k <= m
        BY <1>1
      <3>2. IsFiniteSet(k..m) /\ Cardinality(k..m) = IF k > m THEN 0 ELSE m-k+1
        BY <3>1, FS_Interval
      <3> QED
        BY <3>1, <3>2
    <2>4. Cardinality({L[j] : j \in k..m}) = m + 1 - k
      <3>1. ExistsBijection(k..m, {L[j] : j \in k..m})
        BY <2>2 DEF ExistsBijection
      <3> QED
        BY <2>3, <3>1, FS_Bijection
    <2> QED
      BY <2>1, <2>4 DEF RowNumber
  <1>5. ASSUME NEW i \in RowsOf(rows, s), ~\E k \in 1..m : L[k] = i PROVE ~(RowNumber(rows, s, i) <= Newest)
    <2>1. i \in 1..n /\ rows[i].server = s
      BY <1>1 DEF RowsOf
    <2>2. m = Newest /\ \A k \in 1..m : Before(rows, i, L[k])
      BY <1>1, <1>5, <2>1
    <2> DEFINE T == {L[j] : j \in 1..m}
    <2>3. T \cup {i} \subseteq After(i)
      <3>1. \A k \in 1..m : L[k] \in RowsOf(rows, s) /\ Follows(rows, L[k], i)
        BY <1>1, <2>1, <2>2 DEF RowsOf, Follows, Before
      <3>2. Follows(rows, i, i)
        BY <1>1, <2>1 DEF Follows
      <3> QED
        BY <3>1, <3>2
    <2>4. IsFiniteSet(After(i))
      <3>1. After(i) \subseteq 1..n
        BY <1>1 DEF RowsOf
      <3>2. IsFiniteSet(1..n)
        BY <1>1, FS_Interval
      <3> HIDE DEF After
      <3> QED
        BY <3>1, <3>2, FS_Subset
    <2>5. IsFiniteSet(T) /\ Cardinality(T) = m
      <3> DEFINE f == [j \in 1..m |-> L[j]]
      <3>1. f \in Bijection(1..m, T)
        BY <1>3 DEF Bijection, Injection, Surjection, IsInjective
      <3>2. ExistsBijection(1..m, T)
        BY <3>1 DEF ExistsBijection
      <3>3. IsFiniteSet(1..m) /\ Cardinality(1..m) = m
        BY <1>1, FS_Interval
      <3> HIDE DEF T
      <3> QED
        BY <3>2, <3>3, FS_Bijection
    <2>6. i \notin T
      BY <1>5
    <2> HIDE DEF T, After
    <2>7. IsFiniteSet(T \cup {i}) /\ Cardinality(T \cup {i}) = m + 1
      BY <2>5, <2>6, FS_AddElement
    <2>8. Cardinality(After(i)) \in Nat /\ m + 1 <= Cardinality(After(i))
      BY <2>3, <2>4, <2>7, FS_Subset, FS_CardinalityType
    <2>9. RowNumber(rows, s, i) = Cardinality(After(i))
      BY DEF RowNumber, After
    <2> QED
      BY <1>1, <2>2, <2>8, <2>9
  <1>6. ASSUME NEW k \in 1..m PROVE RowNumber(rows, s, L[k]) <= Newest
    <2>1. m + 1 - k <= Newest
      BY <1>1
    <2> QED
      BY <1>4, <2>1
  <1> QED
    BY <1>4, <1>5, <1>6 DEF m

\* What is kept is what the query finds.
LEMMA RecentIsTracked ==
    ASSUME NEW rows \in Seq(Points), NEW s, NEW recent, NEW L,
           Tracks(rows, s, Len(rows), recent, L)
    PROVE  Recent(rows, s) = recent
  <1> DEFINE m == Len(recent)
             kept == {i \in RowsOf(rows, s) : RowNumber(rows, s, i) <= Newest}
  <1>1. /\ recent \in Seq(Points) /\ m \in Nat /\ DOMAIN rows = 1..Len(rows)
        /\ \A k \in 1..m : L[k] \in 1..Len(rows) /\ rows[L[k]].server = s /\ recent[k] = rows[L[k]]
    BY DEF Tracks
  <1> HIDE DEF m
  <1>2. \A k \in 1..m : RowNumber(rows, s, L[k]) = m + 1 - k
    BY RowNumbers DEF m
  <1>3. \A i \in RowsOf(rows, s) : RowNumber(rows, s, i) <= Newest <=> \E k \in 1..m : L[k] = i
    BY RowNumbers DEF m
  <1>4. \A k \in 1..m : L[k] \in RowsOf(rows, s)
    BY <1>1 DEF RowsOf
  <1>5. kept = {L[k] : k \in 1..m}
    BY <1>3, <1>4
  <1>6. \A j, k \in 1..m : L[j] = L[k] => j = k
    <2> SUFFICES ASSUME NEW j \in 1..m, NEW k \in 1..m, L[j] = L[k] PROVE j = k
      OBVIOUS
    <2>1. m + 1 - j = m + 1 - k
      BY <1>2
    <2> QED
      BY <1>1, <2>1
  <1>7. Cardinality(kept) = m
    <2> DEFINE f == [k \in 1..m |-> L[k]]
               T == {L[k] : k \in 1..m}
    <2>1. f \in Bijection(1..m, T)
      BY <1>6 DEF Bijection, Injection, Surjection, IsInjective
    <2>2. ExistsBijection(1..m, T)
      BY <2>1 DEF ExistsBijection
    <2>3. IsFiniteSet(1..m) /\ Cardinality(1..m) = m
      BY <1>1, FS_Interval
    <2> HIDE DEF T
    <2>4. Cardinality(T) = m
      BY <2>2, <2>3, FS_Bijection
    <2> QED
      BY <1>5, <2>4 DEF T
  <1>8. ASSUME NEW k \in 1..m
        PROVE  (CHOOSE i \in kept : RowNumber(rows, s, i) = m + 1 - k) = L[k]
    <2>1. L[k] \in kept /\ RowNumber(rows, s, L[k]) = m + 1 - k
      BY <1>2, <1>5
    <2>2. ASSUME NEW i \in kept, RowNumber(rows, s, i) = m + 1 - k PROVE i = L[k]
      <3>1. PICK j \in 1..m : L[j] = i
        BY <1>5
      <3>2. m + 1 - j = m + 1 - k
        BY <1>2, <2>2, <3>1
      <3> QED
        BY <1>1, <3>1, <3>2
    <2> HIDE DEF kept
    <2> QED
      BY <2>1, <2>2
  <1>9. Recent(rows, s) = [k \in 1..m |-> rows[CHOOSE i \in kept : RowNumber(rows, s, i) = m + 1 - k]]
    <2>1. Recent(rows, s) = [k \in 1..Cardinality(kept) |->
                               rows[CHOOSE i \in kept : RowNumber(rows, s, i) = Cardinality(kept) + 1 - k]]
      BY DEF Recent
    <2> HIDE DEF kept
    <2> QED
      BY <1>7, <2>1
  <1> HIDE DEF kept
  <1>10. Recent(rows, s) = [k \in 1..m |-> recent[k]]
    BY <1>1, <1>8, <1>9, ZenonT(30)
  <1> QED
    BY <1>1, <1>10 DEF m

\* The scan keeps, of every server, what the query shows.
LEMMA ScanTracks ==
    ASSUME NEW rows \in Seq(Points)
    PROVE  /\ Scanned(rows) \in [Servers -> Seq(Points)]
           /\ \A s \in Servers : \E L : Tracks(rows, s, Len(rows), Scanned(rows)[s], L)
  <1> DEFINE n == Len(rows)
             base == [s \in Servers |-> <<>>]
  <1>1. n \in Nat /\ DOMAIN rows = 1..n /\ \A k \in 1..n : rows[k] \in Points /\ rows[k].server \in Servers
    BY DEF Servers
  <1>2. PICK h : /\ h[0] = base
                 /\ \A k \in 1..n : h[k] = Grouped(h[k - 1], rows[k])
                 /\ h[n] = FoldLeft(Grouped, base, rows)
    <2> HIDE DEF base, n
    <2> QED
      BY <1>1, AcceptSteps, Zenon
  <1> DEFINE Good(k) == /\ \A s \in Servers : \E L : Tracks(rows, s, k, h[k][s], L)
                        /\ h[k] \in [Servers -> Seq(Points)]
             T == {k \in Nat : k <= n => Good(k)}
  <1>3. 0 \in T
    <2>1. h[0] = base /\ <<>> \in Seq(Points) /\ Len(<<>>) = 0
      BY <1>2
    <2>2. \A s \in Servers : Tracks(rows, s, 0, <<>>, [i \in {} |-> 0])
      BY <2>1, TrendAssumption DEF Tracks
    <2>3. Good(0)
      BY <2>1, <2>2
    <2> HIDE DEF Good
    <2> QED
      BY <2>3
  <1>4. ASSUME NEW k \in Nat, k \in T PROVE k + 1 \in T
    <2> SUFFICES ASSUME k + 1 <= n PROVE Good(k + 1)
      BY <1>4
    <2>1. Good(k) /\ k < n /\ k + 1 \in 1..n /\ (k + 1) - 1 = k
      BY <1>1, <1>4
    <2> DEFINE p == rows[k + 1]
               next == Insert(h[k][p.server], p)
    <2>2. h[k + 1] = [h[k] EXCEPT ![p.server] = next]
      BY <1>2, <2>1 DEF Grouped
    <2>3. p \in Points /\ p.server \in Servers
      BY <1>1, <2>1
    <2>4. \E K : Tracks(rows, p.server, k + 1, next, K)
      <3>1. PICK L : Tracks(rows, p.server, k, h[k][p.server], L)
        BY <2>1, <2>3
      <3> QED
        BY <2>1, <3>1, InsertTracks DEF n
    <2>5. next \in Seq(Points)
      BY <2>4 DEF Tracks
    <2> HIDE DEF next, p
    <2>6. h[k + 1] \in [Servers -> Seq(Points)] /\ h[k + 1][p.server] = next
          /\ \A s \in Servers : s # p.server => h[k + 1][s] = h[k][s]
      BY <2>1, <2>2, <2>3, <2>5
    <2>7. ASSUME NEW s \in Servers, s # p.server PROVE \E L : Tracks(rows, s, k + 1, h[k + 1][s], L)
      <3>1. PICK L : Tracks(rows, s, k, h[k][s], L)
        BY <2>1
      <3>2. rows[k + 1].server # s
        BY <2>7 DEF p
      <3>3. \A i \in 1..k + 1 : i \in 1..k \/ i = k + 1
        OBVIOUS
      <3>4. \A m : L \in [1..m -> 1..k] => L \in [1..m -> 1..k + 1]
        OBVIOUS
      <3>5. Tracks(rows, s, k + 1, h[k][s], L)
        BY <3>1, <3>2, <3>3, <3>4 DEF Tracks
      <3> QED
        BY <2>6, <2>7, <3>5
    <2> QED
      BY <2>4, <2>6, <2>7
  <1> HIDE DEF Good
  <1>5. \A k \in Nat : k \in T
    <2> HIDE DEF T
    <2> QED
      BY <1>3, <1>4, InductionOnNat
  <1>6. Good(n)
    BY <1>1, <1>5
  <1>7. h[n] = Scanned(rows)
    BY <1>2 DEF Scanned
  <1> QED
    BY <1>6, <1>7 DEF Good

\* Whatever the journal, the query of the cache over its points shows what a
\* scan of it shows.
THEOREM QueryIsScan ==
    ASSUME NEW rows \in Seq(Points)
    PROVE  Shown(rows) = Scanned(rows)
  <1>1. Scanned(rows) \in [Servers -> Seq(Points)]
    BY ScanTracks
  <1>2. \A s \in Servers : Recent(rows, s) = Scanned(rows)[s]
    BY ScanTracks, RecentIsTracked
  <1> QED
    BY <1>1, <1>2 DEF Shown

-----------------------------------------------------------------------------
(* The readiness history and its cache.                                   *)

\* What the lines of a file, the results and the readers are.
Lines == Points \cup {Half, Garbled}
Results == {<<>>} \cup {Scanned(rows) : rows \in Seq(Points)}
ReaderStates ==
    [pc : {"idle", "opened", "snapped", "visited", "scanning"}, file : Nat,
     snapshot : Seq(Lines), rows : Seq(Lines), prefix : Seq(Lines),
     got : {"nothing", "points", "error"}, points : Results]

\* The type invariant.
TrendTypes ==
    /\ files \in Seq(Seq(Lines))
    /\ path \in 1..Len(files)
    /\ cache \in [rows : Seq(Lines), checkpoint : Seq(Lines)]
    /\ reader \in [Readers -> ReaderStates]
    /\ seen \in [Readers -> SUBSET Seq(Lines)]
    /\ bounds \in [appends : Nat, edits : Nat, deaths : Nat]

\* Only the last line of a file lacks its newline.
Ended(lines) == \A i \in 1..(Len(lines) - 1) : lines[i] # Half
FileInv == \A f \in 1..Len(files) : Ended(files[f])

\* The rows of the cache are the lines of its checkpoint, all of them points.
CacheInv == cache.rows = cache.checkpoint /\ cache.rows \in Seq(Points)

\* A file the editor saved in place while it is locked no longer begins with
\* what its reader digested, who will never commit.
Doomed(x) ==
    /\ bounds.edits >= MaxEdits /\ path = x.file
    /\ ~IsPrefix(x.snapshot, files[path])

\* A reader in state x that has seen v: the path, and the file it holds, are as
\* they were at some moment of its load; a transaction that may commit has the
\* rows of what was digested; and what was served is the journal.
Sound(x, v) ==
    /\ x.pc # "idle" => files[path] \in v
    /\ x.pc \in {"opened", "snapped", "visited"} => x.file \in 1..Len(files) /\ files[x.file] \in v
    /\ x.pc \in {"snapped", "visited"} => x.snapshot \in v /\ Ended(x.snapshot)
    /\ x.pc = "snapped" =>
          /\ x.rows = x.prefix /\ x.prefix \in Seq(Points) /\ IsPrefix(x.prefix, x.snapshot)
          /\ files[x.file] = x.snapshot \/ Doomed(x)
    /\ x.pc = "visited" =>
          \/ ~Corrupt(x.snapshot) /\ x.rows = Complete(x.snapshot) /\ x.prefix = x.rows
          \/ Doomed(x)
    /\ x.got = "points" => \E lines \in v : ~Corrupt(lines) /\ x.points = Scanned(Complete(lines))
    /\ x.got = "error" => \E lines \in v : Corrupt(lines)
    /\ x.pc = "scanning" <=> x.pc # "idle" /\ x.file = 0
    /\ x.pc # "idle" => x.got = "nothing"

\* The inductive invariant.
TrendInv == TrendTypes /\ FileInv /\ CacheInv /\ \A r \in Readers : Sound(reader[r], seen[r])

\* The first elements of a sequence.
LEMMA FrontPart ==
    ASSUME NEW S, NEW seq \in Seq(S), NEW d \in 0..Len(seq)
    PROVE  /\ SubSeq(seq, 1, d) \in Seq(S) /\ Len(SubSeq(seq, 1, d)) = d
           /\ \A i \in 1..d : SubSeq(seq, 1, d)[i] = seq[i]
  OBVIOUS

\* A file without a line that does not parse: its complete lines are points.
LEMMA CompletePoints ==
    ASSUME NEW lines \in Seq(Lines), Ended(lines), ~Corrupt(lines)
    PROVE  Complete(lines) \in Seq(Points)
  <1>1. \A i \in 1..Len(lines) : lines[i] \in Lines /\ lines[i] # Garbled
    BY DEF Corrupt, ToSet
  <1>2. CASE lines # <<>> /\ Last(lines) = Half
    <2>1. Complete(lines) = SubSeq(lines, 1, Len(lines) - 1) /\ Len(lines) \in Nat
      BY <1>2 DEF Complete, Front
    <2>2. \A i \in 1..Len(lines) - 1 : lines[i] \in Points
      BY <1>1 DEF Ended, Lines
    <2> QED
      BY <2>1, <2>2, SubSeqProperties
  <1>3. CASE ~(lines # <<>> /\ Last(lines) = Half)
    <2>1. Complete(lines) = lines
      BY <1>3 DEF Complete
    <2>2. \A i \in 1..Len(lines) : lines[i] \in Points
      <3> SUFFICES ASSUME NEW i \in 1..Len(lines) PROVE lines[i] # Half
        BY <1>1 DEF Lines
      <3>1. CASE i = Len(lines)
        BY <1>3, <3>1 DEF Last
      <3>2. CASE i # Len(lines)
        BY <3>2 DEF Ended
      <3> QED
        BY <3>1, <3>2
    <2> QED
      BY <2>1, <2>2
  <1> QED
    BY <1>2, <1>3

\* The lines behind a prefix.
Behind(prefix, lines) == SubSeq(lines, Len(prefix) + 1, Len(lines))

\* The lines of a file behind a prefix of points, added to the prefix, are the
\* complete lines of the file.
LEMMA VisitCompletes ==
    ASSUME NEW lines \in Seq(Lines), Ended(lines), NEW prefix \in Seq(Points), IsPrefix(prefix, lines),
           ~Corrupt(Behind(prefix, lines))
    PROVE  /\ ~Corrupt(lines)
           /\ prefix \o Complete(Behind(prefix, lines)) = Complete(lines)
           /\ Len(prefix) + Len(Complete(Behind(prefix, lines))) = Len(Complete(lines))
           /\ Len(Complete(lines)) <= Len(lines)
           /\ Complete(lines) = SubSeq(lines, 1, Len(Complete(lines)))
  <1>0. PICK read : read = Behind(prefix, lines)
    OBVIOUS
  <1>00. read = SubSeq(lines, Len(prefix) + 1, Len(lines)) /\ ~Corrupt(read)
    BY <1>0 DEF Behind
  <1> DEFINE k == Len(prefix)
             n == Len(lines)
  <1>1. k \in Nat /\ n \in Nat /\ k <= n /\ SubSeq(prefix, 1, k) = SubSeq(lines, 1, k)
    BY DEF IsPrefix
  <1>2. \A i \in 1..n : lines[i] \in Lines
    OBVIOUS
  <1>3. \A i \in 1..k : prefix[i] = lines[i] /\ prefix[i] \in Points
    <2>1. \A i \in 1..k : SubSeq(prefix, 1, k)[i] = prefix[i]
      BY <1>1
    <2>2. \A i \in 1..k : SubSeq(lines, 1, k)[i] = lines[i]
      BY <1>1
    <2> QED
      BY <1>1, <2>1, <2>2
  <1>4. /\ read \in Seq(Lines) /\ Len(read) = n - k /\ \A i \in 1..n - k : read[i] = lines[k + i]
    <2>1. \A i \in k + 1..n : lines[i] \in Lines
      BY <1>1, <1>2
    <2>2. /\ read \in Seq(Lines) /\ Len(read) = IF k + 1 <= n THEN n - (k + 1) + 1 ELSE 0
          /\ \A i \in 1..n - (k + 1) + 1 : read[i] = lines[(k + 1) + i - 1]
      BY <1>00, <1>1, <2>1, SubSeqProperties
    <2> HIDE DEF k, n
    <2>5. n - (k + 1) + 1 = n - k /\ (~(k + 1 <= n) => n - k = 0)
      BY <1>1
    <2>3. Len(read) = n - k /\ n - (k + 1) + 1 = n - k
      BY <2>2, <2>5
    <2>4. ASSUME NEW i \in 1..n - k PROVE read[i] = lines[k + i]
      <3>1. read[i] = lines[(k + 1) + i - 1]
        BY <2>2, <2>3
      <3>2. (k + 1) + i - 1 = k + i
        BY <1>1
      <3> QED
        BY <3>1, <3>2
    <2> QED
      BY <2>2, <2>3, <2>4
  <1> HIDE DEF k, n
  <1>5. ~Corrupt(lines)
    <2>1. \A i \in 1..n - k : read[i] # Garbled
      <3>1. DOMAIN read = 1..n - k
        BY <1>4
      <3> QED
        BY <1>00, <3>1 DEF Corrupt, ToSet
    <2>2. \A p \in Points : p # Garbled
      BY TrendAssumption DEF Garbled
    <2>3. ASSUME NEW i \in 1..n PROVE lines[i] # Garbled
      <3>1. CASE i <= k
        BY <1>1, <1>3, <2>2, <3>1
      <3>2. CASE i > k
        <4>1. i - k \in 1..n - k /\ k + (i - k) = i
          BY <1>1, <3>2
        <4> QED
          BY <1>4, <2>1, <4>1
      <3> QED
        BY <1>1, <3>1, <3>2
    <2> QED
      BY <2>3 DEF Corrupt, ToSet, n
  <1>6. \A p \in Points : p # Half
    BY TrendAssumption DEF Half
  <1>7. (read # <<>> /\ Last(read) = Half) <=> (lines # <<>> /\ Last(lines) = Half)
    <2>1. CASE k = n
      <3>1. read = <<>>
        BY <1>1, <1>4, <2>1
      <3>2. lines # <<>> => Last(lines) = prefix[n] /\ n \in 1..k
        BY <1>1, <1>3, <2>1 DEF Last, n
      <3> QED
        BY <1>3, <1>6, <3>1, <3>2
    <2>2. CASE k < n
      <3>1. n - k \in 1..n - k /\ k + (n - k) = n /\ n # 0
        BY <1>1, <2>2
      <3>2. read # <<>> /\ lines # <<>>
        BY <1>4, <3>1 DEF n
      <3> QED
        BY <1>4, <3>1, <3>2 DEF Last, n
    <2> QED
      BY <1>1, <2>1, <2>2
  <1> DEFINE c == IF lines # <<>> /\ Last(lines) = Half THEN n - 1 ELSE n
  <1>8. /\ k <= c /\ c <= n /\ c \in Nat
    <2>1. CASE lines # <<>> /\ Last(lines) = Half
      <3>1. k # n
        <4>1. CASE n = 0
          BY <2>1, <4>1 DEF n
        <4>2. CASE n # 0 /\ k = n
          BY <1>1, <1>3, <1>6, <2>1, <4>2 DEF Last, n
        <4> QED
          BY <4>1, <4>2, <2>1 DEF n
      <3> QED
        BY <1>1, <2>1, <3>1
    <2>2. CASE ~(lines # <<>> /\ Last(lines) = Half)
      BY <1>1, <2>2
    <2> QED
      BY <2>1, <2>2
  <1>9. Complete(lines) = SubSeq(lines, 1, c)
    <2>1. SubSeq(lines, 1, n) = lines
      BY SubSeqFull DEF n
    <2> QED
      BY <2>1 DEF Complete, Front, n
  <1>10. Complete(read) = SubSeq(read, 1, c - k)
    <2>1. SubSeq(read, 1, n - k) = read
      BY <1>4, SubSeqFull
    <2>2. (n - 1) - k = (n - k) - 1
      BY <1>1
    <2> QED
      BY <1>4, <1>7, <2>1, <2>2 DEF Complete, Front
  <1> HIDE DEF c
  <1>11. Complete(lines) \in Seq(Lines) /\ Len(Complete(lines)) = c /\ \A i \in 1..c : Complete(lines)[i] = lines[i]
    <2>1. \A i \in 1..c : lines[i] \in Lines
      BY <1>1, <1>2, <1>8
    <2> QED
      BY <1>8, <1>9, <2>1, SubSeqProperties
  <1>12. /\ Complete(read) \in Seq(Lines) /\ Len(Complete(read)) = c - k
         /\ \A i \in 1..c - k : Complete(read)[i] = lines[k + i]
    <2>1. c - k \in Nat /\ \A i \in 1..c - k : i \in 1..n - k
      BY <1>1, <1>8
    <2>2. \A i \in 1..c - k : read[i] \in Lines
      BY <1>4, <2>1
    <2>3. /\ Complete(read) \in Seq(Lines) /\ Len(Complete(read)) = c - k
          /\ \A i \in 1..c - k : Complete(read)[i] = read[i]
      <3>1. read \in Seq(Lines) /\ c - k \in 0..Len(read)
        BY <1>1, <1>4, <1>8
      <3> QED
        BY ONLY <1>10, <3>1, FrontPart
    <2> QED
      BY <1>4, <2>1, <2>3
  <1>13. prefix \o Complete(read) = Complete(lines)
    <2>1. prefix \in Seq(Lines)
      BY DEF Lines
    <2> DEFINE both == prefix \o Complete(read)
    <2>2. /\ both \in Seq(Lines) /\ Len(both) = Len(prefix) + Len(Complete(read))
          /\ \A i \in 1..Len(prefix) + Len(Complete(read)) :
                both[i] = IF i <= Len(prefix) THEN prefix[i] ELSE Complete(read)[i - Len(prefix)]
      BY <1>12, <2>1, ConcatProperties, Zenon
    <2> HIDE DEF both
    <2>3. Len(both) = c
      BY <1>1, <1>8, <1>12, <2>2 DEF k
    <2>4. ASSUME NEW i \in 1..c PROVE both[i] = lines[i]
      <3>1. CASE i <= k
        <4>1. both[i] = prefix[i]
          BY <1>1, <1>8, <1>12, <2>2, <2>3, <3>1 DEF k
        <4>2. i \in 1..k
          BY <1>1, <1>8, <3>1
        <4> QED
          BY <1>3, <4>1, <4>2
      <3>2. CASE i > k
        <4>1. i - k \in 1..c - k /\ k + (i - k) = i
          BY <1>1, <1>8, <3>2
        <4>2. both[i] = Complete(read)[i - k]
          BY <1>1, <1>8, <1>12, <2>2, <3>2 DEF k
        <4> QED
          BY <1>12, <4>1, <4>2
      <3> QED
        BY <1>1, <1>8, <3>1, <3>2
    <2>5. \A i \in 1..c : both[i] = Complete(lines)[i]
      BY <1>11, <2>4
    <2> QED
      BY <1>11, <2>2, <2>3, <2>5 DEF both
  <1>14. k + (c - k) = c
    BY <1>1, <1>8
  <1> QED
    BY <1>0, <1>5, <1>8, <1>9, <1>11, <1>12, <1>13, <1>14 DEF k, n

\* Nothing has been recorded or read yet.
LEMMA InitTrendInv == TrendInit => TrendInv
  <1> SUFFICES ASSUME TrendInit PROVE TrendInv
    OBVIOUS
  <1>1. <<>> \in Seq(Lines) /\ <<>> \in Seq(Points) /\ Len(<<>>) = 0 /\ Len(<< <<>> >>) = 1 /\ << <<>> >>[1] = <<>>
    OBVIOUS
  <1>2. Idle \in ReaderStates
    BY <1>1 DEF Idle, ReaderStates, Results
  <1>3. TrendTypes
    BY <1>1, <1>2 DEF TrendInit, TrendTypes
  <1>4. FileInv /\ CacheInv
    BY <1>1 DEF TrendInit, FileInv, Ended, CacheInv
  <1>5. \A r \in Readers : Sound(reader[r], seen[r])
    BY DEF TrendInit, Idle, Sound
  <1> QED
    BY <1>3, <1>4, <1>5 DEF TrendInv

\* A line is appended to a file of which only the last line may be half one.
LEMMA AppendedEnds ==
    ASSUME NEW lines \in Seq(Lines), Ended(lines), NEW p \in Points \cup {Half}
    PROVE  Appended(lines, p) \in Seq(Lines) /\ Ended(Appended(lines, p))
  <1> DEFINE n == Len(lines)
  <1>1. n \in Nat /\ p \in Lines /\ Garbled \in Lines /\ \A i \in 1..n - 1 : lines[i] # Half
    BY DEF Lines, Ended
  <1>2. CASE lines # <<>> /\ Last(lines) = Half
    <2> DEFINE front == SubSeq(lines, 1, n - 1)
    <2>1. n - 1 \in 0..n /\ n - 1 \in Nat
      BY <1>1, <1>2
    <2>2. front \in Seq(Lines) /\ Len(front) = n - 1 /\ \A i \in 1..n - 1 : front[i] = lines[i]
      BY <2>1, FrontPart
    <2> HIDE DEF front
    <2>3. Appended(lines, p) = front \o <<Garbled>>
      BY <1>2 DEF Appended, Front, front
    <2>4. Append(front, Garbled) = front \o <<Garbled>>
      BY <2>2, <1>1
    <2>5. /\ Append(front, Garbled) \in Seq(Lines) /\ Len(Append(front, Garbled)) = n
          /\ \A i \in 1..n - 1 : Append(front, Garbled)[i] = lines[i]
      <3>1. Append(front, Garbled) \in Seq(Lines) /\ Len(Append(front, Garbled)) = Len(front) + 1
            /\ \A i \in 1..Len(front) : Append(front, Garbled)[i] = front[i]
        BY <1>1, <2>2, AppendProperties
      <3> QED
        BY <1>1, <2>1, <2>2, <3>1
    <2> QED
      BY <1>1, <2>3, <2>4, <2>5 DEF Ended
  <1>3. CASE ~(lines # <<>> /\ Last(lines) = Half)
    <2>1. Appended(lines, p) = Append(lines, p)
      BY <1>3 DEF Appended
    <2>2. /\ Append(lines, p) \in Seq(Lines) /\ Len(Append(lines, p)) = n + 1
          /\ \A i \in 1..n : Append(lines, p)[i] = lines[i]
      BY <1>1, AppendProperties
    <2>3. \A i \in 1..n : lines[i] # Half
      <3> SUFFICES ASSUME NEW i \in 1..n PROVE lines[i] # Half
        OBVIOUS
      <3>1. CASE i = n
        BY <1>1, <1>3, <3>1 DEF Last
      <3>2. CASE i # n
        BY <1>1, <3>2
      <3> QED
        BY <3>1, <3>2
    <2>4. (n + 1) - 1 = n
      BY <1>1
    <2> HIDE DEF n
    <2> QED
      BY <2>1, <2>2, <2>3, <2>4 DEF Ended
  <1> QED
    BY <1>2, <1>3

\* What a reader has seen only grows, where it counts.
LEMMA HeldGrows ==
    ASSUME TrendTypes, files' \in Seq(Seq(Lines)), path' \in 1..Len(files'), Held(files', path')
    PROVE  /\ seen' \in [Readers -> SUBSET Seq(Lines)]
           /\ \A r \in Readers : seen[r] \subseteq seen'[r] /\ (Loading(r) => files'[path'] \in seen'[r])
           /\ \A r \in Readers : ~Loading(r) => seen'[r] = seen[r]
  <1>1. files'[path'] \in Seq(Lines)
    OBVIOUS
  <1> QED
    BY <1>1 DEF Held, TrendTypes

\* Recorders append to no file a reader holds.
LEMMA LinesKeep ==
    ASSUME TrendInv, ~Locked(path), NEW new \in Seq(Lines), Ended(new),
           files' = [files EXCEPT ![path] = new], Held(files', path'),
           bounds' \in [appends : Nat, edits : Nat, deaths : Nat],
           bounds'.edits = bounds.edits, UNCHANGED <<path, cache, reader>>
    PROVE  TrendInv'
  <1> USE DEF TrendInv
  <1>0. files \in Seq(Seq(Lines)) /\ path \in 1..Len(files)
    BY DEF TrendTypes
  <1>1. /\ files' \in Seq(Seq(Lines)) /\ Len(files') = Len(files) /\ path' \in 1..Len(files')
        /\ files'[path] = new /\ \A f \in 1..Len(files) : f # path => files'[f] = files[f]
    BY <1>0
  <1>2. /\ seen' \in [Readers -> SUBSET Seq(Lines)]
        /\ \A r \in Readers : seen[r] \subseteq seen'[r] /\ (Loading(r) => files'[path'] \in seen'[r])
        /\ \A r \in Readers : ~Loading(r) => seen'[r] = seen[r]
    BY <1>1, HeldGrows
  <1>3. TrendTypes'
    BY <1>1, <1>2 DEF TrendTypes
  <1>4. FileInv' /\ CacheInv'
    BY <1>1 DEF FileInv, CacheInv
  <1>5. ASSUME NEW r \in Readers PROVE Sound(reader[r], seen[r])'
    <2> DEFINE x == reader[r]
    <2>1. x.pc # "idle" => x.file # path
      BY DEF Locked, Loading
    <2>2. Sound(x, seen[r]) /\ reader' = reader
      OBVIOUS
    <2>3. CASE x.pc = "idle"
      <3>1. seen'[r] = seen[r]
        BY <1>2, <2>3 DEF Loading
      <3> QED
        BY <2>2, <2>3, <3>1 DEF Sound
    <2>4. CASE x.pc # "idle"
      <3>1. files'[path'] \in seen'[r] /\ seen[r] \subseteq seen'[r]
        BY <1>2, <2>4 DEF Loading
      <3>2. x.file \in 1..Len(files) => files'[x.file] = files[x.file]
        BY <1>1, <2>1, <2>4
      <3> HIDE DEF x
      <3> QED
        BY <1>1, <2>1, <2>2, <2>4, <3>1, <3>2 DEF Sound, Doomed, x
    <2> QED
      BY <2>3, <2>4
  <1> QED
    BY <1>3, <1>4, <1>5

\* A run is recorded: no reader holds the file.
LEMMA RecordKeeps == ASSUME TrendInv, Record PROVE TrendInv'
  <1>1. PICK p \in Points : files' = [files EXCEPT ![path] = Appended(@, p)]
    BY DEF Record
  <1>2. files[path] \in Seq(Lines) /\ Ended(files[path]) /\ files \in Seq(Seq(Lines)) /\ path \in 1..Len(files)
    BY DEF TrendInv, TrendTypes, FileInv
  <1>3. Appended(files[path], p) \in Seq(Lines) /\ Ended(Appended(files[path], p))
    BY <1>2, AppendedEnds
  <1>4. files' = [files EXCEPT ![path] = Appended(files[path], p)]
    BY <1>1, <1>2
  <1>5. bounds' \in [appends : Nat, edits : Nat, deaths : Nat] /\ bounds'.edits = bounds.edits
    <2>1. bounds \in [appends : Nat, edits : Nat, deaths : Nat]
      BY DEF TrendInv, TrendTypes
    <2>2. bounds' = [bounds EXCEPT !.appends = @ + 1]
      BY DEF Record
    <2> QED
      BY ONLY <2>1, <2>2
  <1>6. Held(files', path') /\ ~Locked(path) /\ UNCHANGED <<path, cache, reader>>
    BY DEF Record, Held
  <1> QED
    BY <1>3, <1>4, <1>5, <1>6, LinesKeep

\* A recorder dies in its line.
LEMMA RecorderDiesKeeps == ASSUME TrendInv, RecorderDies PROVE TrendInv'
  <1>1. files' = [files EXCEPT ![path] = Appended(@, Half)]
    BY DEF RecorderDies
  <1>2. files[path] \in Seq(Lines) /\ Ended(files[path]) /\ files \in Seq(Seq(Lines)) /\ path \in 1..Len(files)
    BY DEF TrendInv, TrendTypes, FileInv
  <1>3. Appended(files[path], Half) \in Seq(Lines) /\ Ended(Appended(files[path], Half))
    BY <1>2, AppendedEnds
  <1>4. files' = [files EXCEPT ![path] = Appended(files[path], Half)]
    BY <1>1, <1>2
  <1>5. bounds' \in [appends : Nat, edits : Nat, deaths : Nat] /\ bounds'.edits = bounds.edits
    <2>1. bounds \in [appends : Nat, edits : Nat, deaths : Nat]
      BY DEF TrendInv, TrendTypes
    <2>2. bounds' = [bounds EXCEPT !.appends = @ + 1, !.deaths = @ + 1]
      BY DEF RecorderDies
    <2>3. bounds.appends + 1 \in Nat /\ bounds.deaths + 1 \in Nat /\ bounds.edits \in Nat
      BY ONLY <2>1
    <2>4. bounds' = [appends |-> bounds.appends + 1, edits |-> bounds.edits, deaths |-> bounds.deaths + 1]
      BY ONLY <2>1, <2>2
    <2> QED
      BY ONLY <2>3, <2>4
  <1>6. Held(files', path') /\ ~Locked(path) /\ UNCHANGED <<path, cache, reader>>
    BY DEF RecorderDies, Held
  <1> QED
    BY <1>3, <1>4, <1>5, <1>6, LinesKeep

\* What the editor leaves does not begin with what it found.
LEMMA EditedDiffers ==
    ASSUME NEW lines \in Seq(Lines), lines # <<>>, Ended(lines), NEW edited,
           edited = Tail(lines) \/ \E p \in Points \ {lines[1]} : edited = [lines EXCEPT ![1] = p]
    PROVE  edited \in Seq(Lines) /\ Ended(edited) /\ ~IsPrefix(lines, edited)
  <1>0. Len(lines) \in Nat /\ Len(lines) # 0 /\ \A i \in 1..Len(lines) - 1 : lines[i] # Half
    BY DEF Ended
  <1>1. CASE edited = Tail(lines)
    <2>1. /\ edited \in Seq(Lines) /\ Len(edited) = Len(lines) - 1
          /\ \A i \in 1..Len(edited) : edited[i] = lines[i + 1]
      BY <1>1, HeadTailProperties
    <2>2. \A i \in 1..Len(edited) - 1 : i + 1 \in 1..Len(lines) - 1 /\ i \in 1..Len(edited)
      BY <1>0, <2>1
    <2> QED
      BY <1>0, <2>1, <2>2 DEF Ended, IsPrefix
  <1>2. ASSUME NEW p \in Points, p # lines[1], edited = [lines EXCEPT ![1] = p]
        PROVE  edited \in Seq(Lines) /\ Ended(edited) /\ ~IsPrefix(lines, edited)
    <2>1. /\ edited \in Seq(Lines) /\ Len(edited) = Len(lines) /\ edited[1] = p
          /\ \A i \in 1..Len(lines) : i # 1 => edited[i] = lines[i]
      BY <1>0, <1>2 DEF Lines
    <2>2. p # Half
      BY TrendAssumption DEF Half
    <2>3. SubSeq(lines, 1, Len(lines))[1] = lines[1] /\ SubSeq(edited, 1, Len(lines))[1] = p
      BY <1>0, <2>1
    <2>4. Ended(edited)
      <3>1. \A i \in 1..Len(lines) - 1 : i \in 1..Len(lines) /\ (i = 1 \/ i # 1)
        BY <1>0
      <3> QED
        BY <1>0, <2>1, <2>2, <3>1 DEF Ended
    <2>5. ~IsPrefix(lines, edited)
      BY <1>2, <2>3 DEF IsPrefix
    <2> QED
      BY <2>1, <2>4, <2>5
  <1> QED
    BY <1>1, <1>2

\* An editor who saves once, in place or over the path.
LEMMA EditKeeps == ASSUME MaxEdits <= 1, TrendInv, Edit PROVE TrendInv'
  <1> USE DEF TrendInv
  <1>0. /\ files \in Seq(Seq(Lines)) /\ path \in 1..Len(files) /\ Len(files) \in Nat
        /\ files[path] \in Seq(Lines) /\ files[path] # <<>> /\ Ended(files[path])
        /\ bounds \in [appends : Nat, edits : Nat, deaths : Nat] /\ bounds.edits < MaxEdits
    BY DEF TrendTypes, FileInv, Edit
  <1>1. PICK lines \in {Tail(files[path])}
                         \cup {[files[path] EXCEPT ![1] = p] : p \in Points \ {files[path][1]}} :
           \/ files' = [files EXCEPT ![path] = lines] /\ UNCHANGED path
           \/ files' = Append(files, lines) /\ path' = Len(files) + 1
    BY DEF Edit
  <1>2. lines \in Seq(Lines) /\ Ended(lines) /\ ~IsPrefix(files[path], lines)
    BY <1>0, <1>1, EditedDiffers
  <1>3. /\ bounds' \in [appends : Nat, edits : Nat, deaths : Nat] /\ bounds'.edits >= MaxEdits
        /\ UNCHANGED <<cache, reader>> /\ Held(files', path')
    <2>1. bounds' = [bounds EXCEPT !.edits = @ + 1] /\ UNCHANGED <<cache, reader>> /\ Held(files', path')
      BY DEF Edit
    <2>2. bounds'.edits >= MaxEdits
      BY <1>0, <2>1, TrendAssumption
    <2>3. bounds' \in [appends : Nat, edits : Nat, deaths : Nat]
      <3>1. bounds \in [appends : Nat, edits : Nat, deaths : Nat] /\ bounds' = [bounds EXCEPT !.edits = @ + 1]
        BY <1>0, <2>1
      <3> QED
        BY ONLY <3>1
    <2> QED
      BY <2>1, <2>2, <2>3
  <1>4. /\ files' \in Seq(Seq(Lines)) /\ path' \in 1..Len(files') /\ Len(files) <= Len(files') /\ Len(files') \in Nat
        /\ files'[path'] = lines
        /\ \/ path' = path /\ Len(files') = Len(files) /\ \A f \in 1..Len(files) : f # path => files'[f] = files[f]
           \/ Len(files') = Len(files) + 1 /\ path' = Len(files) + 1 /\ \A f \in 1..Len(files) : files'[f] = files[f]
    <2>1. CASE files' = [files EXCEPT ![path] = lines] /\ UNCHANGED path
      BY <1>0, <1>2, <2>1
    <2>2. CASE files' = Append(files, lines) /\ path' = Len(files) + 1
      <3>1. files \in Seq(Seq(Lines)) /\ lines \in Seq(Lines) /\ Len(files) \in Nat
        BY <1>0, <1>2
      <3>2. /\ files' \in Seq(Seq(Lines)) /\ Len(files') = Len(files) + 1
            /\ files'[Len(files) + 1] = lines
            /\ \A f \in 1..Len(files) : files'[f] = files[f]
        BY ONLY <2>2, <3>1
      <3> QED
        BY ONLY <2>2, <3>1, <3>2
    <2> QED
      BY <1>1, <2>1, <2>2
  <1>5. /\ seen' \in [Readers -> SUBSET Seq(Lines)]
        /\ \A r \in Readers : seen[r] \subseteq seen'[r] /\ (Loading(r) => files'[path'] \in seen'[r])
        /\ \A r \in Readers : ~Loading(r) => seen'[r] = seen[r]
    BY <1>3, <1>4, HeldGrows
  <1>6. TrendTypes'
    BY <1>3, <1>4, <1>5 DEF TrendTypes
  <1>7. FileInv' /\ CacheInv'
    <2>1. \A f \in 1..Len(files') : Ended(files'[f])
      <3> SUFFICES ASSUME NEW f \in 1..Len(files') PROVE Ended(files'[f])
        OBVIOUS
      <3>1. CASE f = path'
        BY <1>2, <1>4, <3>1
      <3>2. CASE f # path'
        <4>1. f \in 1..Len(files) /\ files'[f] = files[f]
          <5>1. CASE path' = path /\ Len(files') = Len(files) /\ \A g \in 1..Len(files) : g # path => files'[g] = files[g]
            BY <3>2, <5>1
          <5>2. CASE Len(files') = Len(files) + 1 /\ path' = Len(files) + 1 /\ \A g \in 1..Len(files) : files'[g] = files[g]
            <6>1. f \in 1..Len(files)
              BY <1>0, <3>2, <5>2
            <6> QED
              BY <5>2, <6>1
          <5> QED
            BY <1>4, <5>1, <5>2
        <4> QED
          BY <4>1 DEF FileInv
      <3> QED
        BY <3>1, <3>2
    <2> QED
      BY <1>3, <2>1 DEF FileInv, CacheInv
  <1>8. ASSUME NEW r \in Readers PROVE Sound(reader[r], seen[r])'
    <2> DEFINE x == reader[r]
    <2>1. Sound(x, seen[r]) /\ reader' = reader
      BY <1>3
    <2>2. CASE x.pc = "idle"
      <3>1. seen'[r] = seen[r]
        BY <1>5, <2>2 DEF Loading
      <3> QED
        BY <2>1, <2>2, <3>1 DEF Sound
    <2>3. CASE x.pc # "idle"
      <3>1. files'[path'] \in seen'[r] /\ seen[r] \subseteq seen'[r]
        BY <1>5, <2>3 DEF Loading
      <3>2. x.pc \in {"opened", "snapped", "visited"} =>
               /\ x.file \in 1..Len(files')
               /\ \/ files'[x.file] = files[x.file]
                  \/ path' = x.file /\ path = x.file /\ files'[x.file] = lines
        <4>1. x.pc \in {"opened", "snapped", "visited"} => x.file \in 1..Len(files)
          BY <2>1 DEF Sound
        <4> HIDE DEF x
        <4>0. \A f \in 1..Len(files) : f \in 1..Len(files')
          BY <1>0, <1>4
        <4>2. CASE path' = path /\ Len(files') = Len(files) /\ \A f \in 1..Len(files) : f # path => files'[f] = files[f]
          BY ONLY <1>4, <4>0, <4>1, <4>2
        <4>3. CASE \A f \in 1..Len(files) : files'[f] = files[f]
          BY ONLY <4>0, <4>1, <4>3
        <4> QED
          BY <1>4, <4>2, <4>3
      <3>3. ~Doomed(x)
        BY <1>0, TrendAssumption DEF Doomed
      <3>4. x.pc = "snapped" => files'[x.file] = x.snapshot \/ Doomed(x)'
        BY <1>2, <1>3, <1>4, <2>1, <3>2, <3>3 DEF Sound, Doomed
      <3> HIDE DEF x
      <3>5. reader'[r] = x
        BY <2>1 DEF x
      <3>6. x.pc \in {"opened", "snapped", "visited"} => files'[x.file] \in seen'[r]
        BY <1>4, <2>1, <3>1, <3>2 DEF Sound
      <3> QED
        BY <2>1, <2>3, <3>1, <3>2, <3>3, <3>4, <3>5, <3>6 DEF Sound, x
    <2> QED
      BY <2>2, <2>3
  <1> QED
    BY <1>6, <1>7, <1>8

\* One reader goes to a sound state; the file stays, and the cache may change.
LEMMA ReaderKeeps ==
    ASSUME TrendInv, NEW r \in Readers, NEW x \in ReaderStates, NEW v \in SUBSET Seq(Lines),
           reader' = [reader EXCEPT ![r] = x], seen' = [seen EXCEPT ![r] = v], Sound(x, v),
           UNCHANGED <<files, path>>, CacheInv', cache' \in [rows : Seq(Lines), checkpoint : Seq(Lines)],
           bounds' \in [appends : Nat, edits : Nat, deaths : Nat], bounds'.edits = bounds.edits
    PROVE  TrendInv'
  <1> USE DEF TrendInv
  <1>1. reader \in [Readers -> ReaderStates] /\ seen \in [Readers -> SUBSET Seq(Lines)]
    BY DEF TrendTypes
  <1>2. /\ reader' \in [Readers -> ReaderStates] /\ reader'[r] = x
        /\ \A q \in Readers : q # r => reader'[q] = reader[q]
    BY ONLY <1>1, x \in ReaderStates, r \in Readers, reader' = [reader EXCEPT ![r] = x]
  <1>3. /\ seen' \in [Readers -> SUBSET Seq(Lines)] /\ seen'[r] = v
        /\ \A q \in Readers : q # r => seen'[q] = seen[q]
    BY ONLY <1>1, v \in SUBSET Seq(Lines), r \in Readers, seen' = [seen EXCEPT ![r] = v]
  <1>4. TrendTypes'
    BY <1>2, <1>3 DEF TrendTypes
  <1>5. FileInv'
    BY DEF FileInv
  <1>6. ASSUME NEW q \in Readers PROVE Sound(reader[q], seen[q])'
    <2>1. PICK y : y = reader'[q]
      OBVIOUS
    <2>2. PICK w : w = seen'[q]
      OBVIOUS
    <2>3. Sound(y, w)
      <3>1. CASE q = r
        BY <1>2, <1>3, <2>1, <2>2, <3>1
      <3>2. CASE q # r
        BY <1>2, <1>3, <2>1, <2>2, <3>2
      <3> QED
        BY <3>1, <3>2
    <2> QED
      BY <2>1, <2>2, <2>3 DEF Sound, Doomed
  <1> QED
    BY <1>4, <1>5, <1>6

\* What a reader of an inductive state has.
LEMMA ReaderTyped ==
    ASSUME TrendInv, NEW r \in Readers
    PROVE  /\ reader[r] \in ReaderStates /\ Sound(reader[r], seen[r])
           /\ reader[r].file \in Nat
           /\ reader[r].snapshot \in Seq(Lines) /\ reader[r].rows \in Seq(Lines)
           /\ reader[r].prefix \in Seq(Lines) /\ reader[r].points \in Results
           /\ reader[r].got \in {"nothing", "points", "error"}
           /\ reader[r] = [pc |-> reader[r].pc, file |-> reader[r].file, snapshot |-> reader[r].snapshot,
                           rows |-> reader[r].rows, prefix |-> reader[r].prefix,
                           got |-> reader[r].got, points |-> reader[r].points]
           /\ seen[r] \in SUBSET Seq(Lines) /\ seen = [seen EXCEPT ![r] = seen[r]]
           /\ files \in Seq(Seq(Lines)) /\ path \in 1..Len(files) /\ Len(files) \in Nat
           /\ files[path] \in Seq(Lines) /\ Ended(files[path])
           /\ reader \in [Readers -> ReaderStates]
           /\ bounds \in [appends : Nat, edits : Nat, deaths : Nat]
           /\ cache \in [rows : Seq(Lines), checkpoint : Seq(Lines)] /\ CacheInv
  <1>1. TrendTypes /\ FileInv /\ CacheInv /\ Sound(reader[r], seen[r])
    BY DEF TrendInv
  <1>2. /\ files \in Seq(Seq(Lines)) /\ path \in 1..Len(files) /\ Len(files) \in Nat
        /\ files[path] \in Seq(Lines) /\ Ended(files[path])
    BY <1>1 DEF TrendTypes, FileInv
  <1>3. seen[r] \in SUBSET Seq(Lines) /\ seen = [seen EXCEPT ![r] = seen[r]]
    BY <1>1 DEF TrendTypes
  <1>4. reader[r] \in ReaderStates
    BY <1>1 DEF TrendTypes
  <1>5. PICK x : x = reader[r]
    OBVIOUS
  <1>6. /\ x.file \in Nat
        /\ x.snapshot \in Seq(Lines) /\ x.rows \in Seq(Lines)
        /\ x.prefix \in Seq(Lines) /\ x.points \in Results
        /\ x.got \in {"nothing", "points", "error"}
        /\ x = [pc |-> x.pc, file |-> x.file, snapshot |-> x.snapshot,
                rows |-> x.rows, prefix |-> x.prefix, got |-> x.got, points |-> x.points]
    <2>1. x \in ReaderStates
      BY <1>4, <1>5
    <2>2. /\ x.file \in Nat
          /\ x.snapshot \in Seq(Lines) /\ x.rows \in Seq(Lines)
          /\ x.prefix \in Seq(Lines) /\ x.points \in Results
          /\ x.got \in {"nothing", "points", "error"}
      BY ONLY <2>1 DEF ReaderStates
    <2>3. x = [pc |-> x.pc, file |-> x.file, snapshot |-> x.snapshot,
               rows |-> x.rows, prefix |-> x.prefix, got |-> x.got, points |-> x.points]
      BY ONLY <2>1 DEF ReaderStates
    <2> QED
      BY <2>2, <2>3
  <1> QED
    BY <1>1, <1>2, <1>3, <1>4, <1>5, <1>6 DEF TrendTypes

\* Opening: the path as it is now is what has been seen.
LEMMA OpenKeeps == ASSUME TrendInv, NEW r \in Readers, Open(r) PROVE TrendInv'
  <1>1. PICK x : x = [Idle EXCEPT !.pc = "opened", !.file = path]
    OBVIOUS
  <1>2. x = [pc |-> "opened", file |-> path, snapshot |-> <<>>, rows |-> <<>>, prefix |-> <<>>,
             got |-> "nothing", points |-> <<>>]
    BY <1>1 DEF Idle
  <1>3. path \in Nat /\ path # 0 /\ path \in 1..Len(files) /\ files[path] \in Seq(Lines)
    <2>1. path \in 1..Len(files) /\ Len(files) \in Nat /\ files[path] \in Seq(Lines)
      BY ReaderTyped
    <2> QED
      BY <2>1
  <1>4. x \in ReaderStates
    BY <1>2, <1>3 DEF ReaderStates, Results
  <1>5. Sound(x, {files[path]})
    BY <1>2, <1>3 DEF Sound
  <1>6. reader' = [reader EXCEPT ![r] = x] /\ seen' = [seen EXCEPT ![r] = {files[path]}]
        /\ UNCHANGED <<files, path, cache, bounds>>
    BY <1>1 DEF Open
  <1>7. CacheInv'
    BY <1>6, ReaderTyped DEF CacheInv
  <1> QED
    BY <1>3, <1>4, <1>5, <1>6, <1>7, ReaderTyped, ReaderKeeps, ZenonT(30)

\* Giving up keeps what has been seen for the scan.
LEMMA GiveUpKeeps ==
    ASSUME TrendInv, NEW r \in Readers, reader[r].pc # "idle", GiveUp(r),
           UNCHANGED <<files, path, cache, seen, bounds>>
    PROVE  TrendInv'
  <1>1. PICK y : y = reader[r]
    OBVIOUS
  <1>2. PICK v : v = seen[r]
    OBVIOUS
  <1>3. PICK x : x = [y EXCEPT !.pc = "scanning", !.file = 0]
    OBVIOUS
  <1>4. y \in ReaderStates /\ Sound(y, v) /\ v \in SUBSET Seq(Lines) /\ y.pc # "idle"
    BY <1>1, <1>2, ReaderTyped
  <1>5. x \in ReaderStates /\ x.pc = "scanning" /\ x.file = 0 /\ x.got = y.got
    BY ONLY <1>3, <1>4 DEF ReaderStates
  <1>6. Sound(x, v)
    BY ONLY <1>4, <1>5 DEF Sound
  <1>7. reader' = [reader EXCEPT ![r] = x]
    <2>1. reader \in [Readers -> ReaderStates]
      BY ReaderTyped
    <2> QED
      BY <1>1, <1>3, <2>1 DEF GiveUp
  <1>8. CacheInv'
    BY ReaderTyped DEF CacheInv
  <1>9. seen' = [seen EXCEPT ![r] = v]
    BY <1>2, ReaderTyped
  <1> QED
    BY <1>4, <1>5, <1>6, <1>7, <1>8, <1>9, ReaderTyped, ReaderKeeps

\* A cache that fails is given up.
LEMMA CacheFailsKeeps == ASSUME TrendInv, NEW r \in Readers, CacheFails(r) PROVE TrendInv'
  BY GiveUpKeeps DEF CacheFails

\* A reader that dies has loaded nothing.
LEMMA ReaderDiesKeeps == ASSUME TrendInv, NEW r \in Readers, ReaderDies(r) PROVE TrendInv'
  <1>1. Idle \in ReaderStates
    BY DEF Idle, ReaderStates, Results
  <1>2. PICK v : v = seen[r]
    OBVIOUS
  <1>3. v \in SUBSET Seq(Lines) /\ seen' = [seen EXCEPT ![r] = v]
    BY <1>2, ReaderTyped DEF ReaderDies
  <1>4. Sound(Idle, v)
    BY DEF Idle, Sound
  <1>5. bounds' \in [appends : Nat, edits : Nat, deaths : Nat] /\ bounds'.edits = bounds.edits
    <2>1. bounds \in [appends : Nat, edits : Nat, deaths : Nat]
      BY ReaderTyped
    <2>2. bounds' = [bounds EXCEPT !.deaths = @ + 1]
      BY DEF ReaderDies
    <2> QED
      BY ONLY <2>1, <2>2
  <1>6. reader' = [reader EXCEPT ![r] = Idle] /\ UNCHANGED <<files, path, cache>>
    BY DEF ReaderDies
  <1>7. CacheInv'
    BY <1>6, ReaderTyped DEF CacheInv
  <1> QED
    BY <1>1, <1>3, <1>4, <1>5, <1>6, <1>7, ReaderTyped, ReaderKeeps

\* The scan parses the path as it is now.
LEMMA ScanKeeps == ASSUME TrendInv, NEW r \in Readers, Scan(r) PROVE TrendInv'
  <1>1. PICK v : v = seen[r]
    OBVIOUS
  <1>2. v \in SUBSET Seq(Lines) /\ seen' = [seen EXCEPT ![r] = v] /\ UNCHANGED <<files, path, cache, bounds>>
    BY <1>1, ReaderTyped DEF Scan
  <1>3. files[path] \in v /\ files[path] \in Seq(Lines) /\ Ended(files[path])
    BY <1>1, ReaderTyped DEF Scan, Sound
  <1>4. CacheInv'
    BY <1>2, ReaderTyped DEF CacheInv
  <1>5. PICK lines : lines = files[path]
    OBVIOUS
  <1>6. PICK x : x = IF Corrupt(lines) THEN [Idle EXCEPT !.got = "error"]
                     ELSE [Idle EXCEPT !.got = "points", !.points = Scanned(Complete(lines))]
    OBVIOUS
  <1>7. reader' = [reader EXCEPT ![r] = x]
    BY <1>5, <1>6 DEF Scan
  <1>8. CASE Corrupt(lines)
    <2>1. x = [pc |-> "idle", file |-> 0, snapshot |-> <<>>, rows |-> <<>>, prefix |-> <<>>,
               got |-> "error", points |-> <<>>]
      BY <1>6, <1>8 DEF Idle
    <2>2. x \in ReaderStates
      BY <2>1 DEF ReaderStates, Results
    <2>3. Sound(x, v)
      BY <1>3, <1>5, <1>8, <2>1 DEF Sound
    <2> QED
      BY <1>2, <1>4, <1>7, <2>2, <2>3, ReaderTyped, ReaderKeeps
  <1>9. CASE ~Corrupt(lines)
    <2>1. PICK points : points = Scanned(Complete(lines))
      OBVIOUS
    <2>2. x = [pc |-> "idle", file |-> 0, snapshot |-> <<>>, rows |-> <<>>, prefix |-> <<>>,
               got |-> "points", points |-> points]
      BY <1>6, <1>9, <2>1 DEF Idle
    <2>3. points \in Results
      BY <1>3, <1>5, <1>9, <2>1, CompletePoints DEF Results
    <2>4. x \in ReaderStates
      BY <2>2, <2>3 DEF ReaderStates
    <2>5. Sound(x, v)
      BY <1>3, <1>5, <1>9, <2>1, <2>2 DEF Sound
    <2> QED
      BY <1>2, <1>4, <1>7, <2>4, <2>5, ReaderTyped, ReaderKeeps
  <1> QED
    BY <1>8, <1>9

\* The transaction keeps the rows of a prefix that is still there.
LEMMA SnapKeeps == ASSUME TrendInv, NEW r \in Readers, Begin(r) PROVE TrendInv'
  <1>1. PICK y : y = reader[r]
    OBVIOUS
  <1>2. PICK v : v = seen[r]
    OBVIOUS
  <1>3. y \in ReaderStates /\ Sound(y, v) /\ v \in SUBSET Seq(Lines) /\ y.pc = "opened"
    BY <1>1, <1>2, ReaderTyped DEF Begin
  <1>4. PICK lines : lines = files[y.file]
    OBVIOUS
  <1>5. /\ y.file \in 1..Len(files) /\ lines \in v /\ lines \in Seq(Lines) /\ Ended(lines)
        /\ y.got = "nothing" /\ files[path] \in v /\ y.file # 0 /\ y.points \in Results
    <2>1. /\ y.file \in 1..Len(files) /\ lines \in v /\ y.got = "nothing" /\ files[path] \in v /\ y.file # 0
      BY <1>3, <1>4 DEF Sound
    <2>2. y.points \in Results /\ files \in Seq(Seq(Lines))
      BY <1>1, ReaderTyped
    <2>3. Ended(lines)
      BY <1>4, <2>1 DEF TrendInv, FileInv
    <2> QED
      BY <1>4, <2>1, <2>2, <2>3
  <1>6. PICK rows : rows = IF Extends(cache.checkpoint, lines) THEN cache.rows ELSE <<>>
    OBVIOUS
  <1>7. /\ rows \in Seq(Points) /\ IsPrefix(rows, lines)
        /\ rows = IF Extends(cache.checkpoint, lines) THEN SubSeq(lines, 1, Len(cache.checkpoint)) ELSE <<>>
    <2>1. cache.rows = cache.checkpoint /\ cache.rows \in Seq(Points)
      BY ReaderTyped DEF CacheInv
    <2>2. CASE Extends(cache.checkpoint, lines)
      <3>1. PICK c : c = cache.checkpoint
        OBVIOUS
      <3>2. c \in Seq(Points) /\ IsPrefix(c, lines) /\ rows = c
        BY <1>6, <2>1, <2>2, <3>1 DEF Extends
      <3>3. SubSeq(c, 1, Len(c)) = c
        BY <3>2, SubSeqFull
      <3>4. SubSeq(lines, 1, Len(c)) = c
        BY <3>2, <3>3 DEF IsPrefix
      <3> QED
        BY <2>2, <3>1, <3>2, <3>4
    <2>3. CASE ~Extends(cache.checkpoint, lines)
      <3>1. <<>> \in Seq(Points) /\ Len(<<>>) = 0 /\ 0 <= Len(lines)
        BY <1>5
      <3>2. SubSeq(<<>>, 1, 0) = <<>> /\ SubSeq(lines, 1, 0) = <<>>
        BY <1>5
      <3> QED
        BY <1>6, <2>3, <3>1, <3>2 DEF IsPrefix
    <2> QED
      BY <2>2, <2>3
  <1>8. PICK x : x = [y EXCEPT !.pc = "snapped", !.snapshot = lines, !.rows = rows, !.prefix = rows]
    OBVIOUS
  <1>9. x = [pc |-> "snapped", file |-> y.file, snapshot |-> lines, rows |-> rows, prefix |-> rows,
             got |-> "nothing", points |-> y.points]
    BY ONLY <1>3, <1>5, <1>8 DEF ReaderStates
  <1>10. x \in ReaderStates
    <2>1. rows \in Seq(Lines) /\ y.file \in Nat
      <3>1. rows \in Seq(Lines)
        BY <1>7 DEF Lines
      <3>2. y.file \in Nat
        BY <1>1, ReaderTyped
      <3> QED
        BY <3>1, <3>2
    <2> QED
      BY ONLY <1>5, <1>9, <2>1 DEF ReaderStates
  <1>11. Sound(x, v)
    BY <1>4, <1>5, <1>7, <1>9 DEF Sound
  <1>12. reader' = [reader EXCEPT ![r] = x]
    <2>1. reader \in [Readers -> ReaderStates]
      BY ReaderTyped
    <2>2. reader' = [reader EXCEPT ![r].pc = "snapped", ![r].snapshot = lines,
                                   ![r].rows = rows, ![r].prefix = rows]
      BY <1>1, <1>4, <1>6, <1>7 DEF Begin
    <2> QED
      BY ONLY <1>1, <1>8, <2>1, <2>2, r \in Readers
  <1>13. UNCHANGED <<files, path, cache, seen, bounds>>
    BY DEF Begin
  <1>14. CacheInv' /\ seen' = [seen EXCEPT ![r] = v]
    BY <1>2, <1>13, ReaderTyped DEF CacheInv
  <1> QED
    BY <1>3, <1>10, <1>11, <1>12, <1>13, <1>14, ReaderTyped, ReaderKeeps

\* Of some lines, all or all but the last are complete.
LEMMA CompleteTyped ==
    ASSUME NEW lines \in Seq(Lines)
    PROVE  Complete(lines) \in Seq(Lines) /\ Len(Complete(lines)) \in 0..Len(lines)
  <1>1. CASE lines # <<>> /\ Last(lines) = Half
    <2>1. Len(lines) - 1 \in 0..Len(lines)
      BY <1>1
    <2>2. Complete(lines) = SubSeq(lines, 1, Len(lines) - 1)
      BY <1>1 DEF Complete, Front
    <2>3. SubSeq(lines, 1, Len(lines) - 1) \in Seq(Lines) /\ Len(SubSeq(lines, 1, Len(lines) - 1)) = Len(lines) - 1
      BY <2>1, FrontPart
    <2> QED
      BY <2>1, <2>2, <2>3
  <1>2. CASE ~(lines # <<>> /\ Last(lines) = Half)
    BY <1>2 DEF Complete
  <1> QED
    BY <1>1, <1>2

\* What is read is lines of the file that were there when it was digested.
LEMMA ReadTyped ==
    ASSUME NEW lines \in Seq(Lines), NEW snapshot \in Seq(Lines), NEW k \in Nat, k <= Len(snapshot),
           NEW read, read = SubSeq(lines, k + 1, Min({Len(lines), Len(snapshot)}))
    PROVE  read \in Seq(Lines) /\ Len(read) \in Nat /\ k + Len(read) <= Len(snapshot)
  <1>1. PICK m : m = Min({Len(lines), Len(snapshot)})
    OBVIOUS
  <1>2. m \in {Len(lines), Len(snapshot)} /\ m <= Len(lines) /\ m <= Len(snapshot)
    <2>1. PICK a \in Nat : a = Len(lines)
      OBVIOUS
    <2>2. PICK b \in Nat : b = Len(snapshot)
      OBVIOUS
    <2>3. \E x \in {a, b} : \A y \in {a, b} : x <= y
      OBVIOUS
    <2>4. m \in {a, b} /\ \A y \in {a, b} : m <= y
      BY <1>1, <2>1, <2>2, <2>3 DEF Min
    <2> QED
      BY <2>1, <2>2, <2>4
  <1>3. m \in Nat /\ Len(lines) \in Nat /\ Len(snapshot) \in Nat
    BY <1>2
  <1>4. \A i \in k + 1..m : lines[i] \in Lines
    BY <1>2, <1>3
  <1>5. read \in Seq(Lines) /\ Len(read) = IF k + 1 <= m THEN m - (k + 1) + 1 ELSE 0
    <2>1. read = SubSeq(lines, k + 1, m)
      BY <1>1
    <2>2. k + 1 \in Int /\ m \in Int
      BY <1>3
    <2>3. /\ SubSeq(lines, k + 1, m) \in Seq(Lines)
          /\ Len(SubSeq(lines, k + 1, m)) = IF k + 1 <= m THEN m - (k + 1) + 1 ELSE 0
      BY ONLY <1>4, <2>2, SubSeqProperties
    <2> QED
      BY <2>1, <2>3
  <1>6. PICK n : n = Len(read)
    OBVIOUS
  <1>7. PICK b : b = Len(snapshot)
    OBVIOUS
  <1>8. n = IF k + 1 <= m THEN m - (k + 1) + 1 ELSE 0
    BY <1>5, <1>6
  <1>9. n \in Nat /\ k + n <= b
    <2>1. k \in Nat /\ m \in Nat /\ b \in Nat /\ m <= b /\ k <= b
      BY <1>2, <1>3, <1>7
    <2> QED
      BY ONLY <1>8, <2>1
  <1> QED
    BY <1>5, <1>6, <1>7, <1>9

\* Whoever reads the file it digested has all its complete lines then; whoever
\* reads one that was edited under it stays doomed.
LEMMA VisitKeeps == ASSUME TrendInv, NEW r \in Readers, Visit(r) PROVE TrendInv'
  <1>1. PICK y : y = reader[r]
    OBVIOUS
  <1>2. PICK v : v = seen[r]
    OBVIOUS
  <1>3. /\ y \in ReaderStates /\ Sound(y, v) /\ v \in SUBSET Seq(Lines) /\ y.pc = "snapped"
        /\ y.snapshot \in Seq(Lines) /\ y.rows \in Seq(Lines) /\ y.prefix \in Seq(Lines) /\ y.points \in Results
    <2>1. y.pc = "snapped"
      BY <1>1 DEF Visit
    <2> QED
      BY <1>1, <1>2, <2>1, ReaderTyped
  <1>4. PICK lines : lines = files[y.file]
    OBVIOUS
  <1>5. /\ y.file \in 1..Len(files) /\ lines \in v /\ files[path] \in v /\ y.file # 0 /\ y.got = "nothing"
        /\ y.snapshot \in v /\ Ended(y.snapshot) /\ y.rows = y.prefix /\ y.prefix \in Seq(Points)
        /\ IsPrefix(y.prefix, y.snapshot) /\ (lines = y.snapshot \/ Doomed(y))
    BY <1>3, <1>4 DEF Sound
  <1>6. lines \in Seq(Lines)
    BY <1>3, <1>5
  <1>7. PICK k \in Nat : k = Len(y.prefix)
    BY <1>3
  <1>8. k <= Len(y.snapshot)
    BY <1>5, <1>7 DEF IsPrefix
  <1>9. PICK read : read = SubSeq(lines, k + 1, Min({Len(lines), Len(y.snapshot)}))
    OBVIOUS
  <1>10. read \in Seq(Lines) /\ Len(read) \in Nat /\ k + Len(read) <= Len(y.snapshot)
    BY <1>3, <1>6, <1>8, <1>9, ReadTyped
  <1>11. PICK offset : offset = k + Len(Complete(read))
    OBVIOUS
  <1>12. Complete(read) \in Seq(Lines) /\ offset \in Nat /\ offset <= Len(y.snapshot)
    BY <1>3, <1>10, <1>11, CompleteTyped
  <1>13. UNCHANGED <<files, path, cache, seen, bounds>>
    BY DEF Visit
  <1>14. IF Corrupt(read) \/ (offset < Len(y.snapshot) /\ offset > Len(lines))
         THEN GiveUp(r)
         ELSE reader' = [reader EXCEPT
                 ![r].pc = "visited",
                 ![r].rows = @ \o Complete(read),
                 ![r].prefix = IF offset = Len(y.snapshot) THEN y.snapshot ELSE SubSeq(lines, 1, offset)]
    BY <1>1, <1>4, <1>7, <1>9, <1>11 DEF Visit
  <1>15. CASE Corrupt(read) \/ (offset < Len(y.snapshot) /\ offset > Len(lines))
    <2>1. GiveUp(r) /\ reader[r].pc # "idle"
      BY <1>1, <1>3, <1>14, <1>15
    <2> QED
      BY <1>13, <2>1, GiveUpKeeps
  <1>16. CASE ~(Corrupt(read) \/ (offset < Len(y.snapshot) /\ offset > Len(lines)))
    <2>1. PICK prefix : prefix = IF offset = Len(y.snapshot) THEN y.snapshot ELSE SubSeq(lines, 1, offset)
      OBVIOUS
    <2>2. PICK rows : rows = y.rows \o Complete(read)
      OBVIOUS
    <2>3. PICK x : x = [y EXCEPT !.pc = "visited", !.rows = rows, !.prefix = prefix]
      OBVIOUS
    <2>4. x = [pc |-> "visited", file |-> y.file, snapshot |-> y.snapshot, rows |-> rows, prefix |-> prefix,
               got |-> "nothing", points |-> y.points]
      BY ONLY <1>3, <1>5, <2>3 DEF ReaderStates
    <2>5. rows \in Seq(Lines)
      BY <1>3, <1>12, <2>2, ConcatProperties
    <2>6. prefix \in Seq(Lines)
      <3>1. CASE offset = Len(y.snapshot)
        BY <1>3, <2>1, <3>1
      <3>2. CASE offset # Len(y.snapshot)
        <4>1. offset \in 0..Len(lines)
          BY <1>3, <1>6, <1>12, <1>16, <3>2
        <4> QED
          BY <1>6, <2>1, <3>2, <4>1, FrontPart
      <3> QED
        BY <3>1, <3>2
    <2>7. x \in ReaderStates
      <3>1. y.file \in Nat
        BY <1>1, ReaderTyped
      <3> QED
        BY ONLY <1>3, <2>4, <2>5, <2>6, <3>1 DEF ReaderStates
    <2>8. (~Corrupt(y.snapshot) /\ rows = Complete(y.snapshot) /\ prefix = rows) \/ Doomed(y)
      <3> SUFFICES ASSUME ~Doomed(y) PROVE ~Corrupt(y.snapshot) /\ rows = Complete(y.snapshot) /\ prefix = rows
        OBVIOUS
      <3>1. lines = y.snapshot /\ Len(lines) \in Nat
        BY <1>5, <1>6
      <3>2. Min({Len(lines), Len(y.snapshot)}) = Len(lines)
        BY <3>1 DEF Min
      <3>3. read = SubSeq(lines, Len(y.prefix) + 1, Len(lines))
        BY <1>7, <1>9, <3>2
      <3>4. /\ ~Corrupt(lines)
            /\ y.prefix \o Complete(read) = Complete(lines)
            /\ Len(y.prefix) + Len(Complete(read)) = Len(Complete(lines))
            /\ Len(Complete(lines)) <= Len(lines)
            /\ Complete(lines) = SubSeq(lines, 1, Len(Complete(lines)))
        <4>1. Ended(lines) /\ y.prefix \in Seq(Points) /\ IsPrefix(y.prefix, lines) /\ ~Corrupt(read)
          BY <1>5, <1>16, <3>1
        <4>2. PICK p : p = y.prefix
          OBVIOUS
        <4>3. read = Behind(p, lines) /\ p \in Seq(Points) /\ IsPrefix(p, lines)
          BY <3>3, <4>1, <4>2 DEF Behind
        <4>4. /\ ~Corrupt(lines)
              /\ p \o Complete(read) = Complete(lines)
              /\ Len(p) + Len(Complete(read)) = Len(Complete(lines))
              /\ Len(Complete(lines)) <= Len(lines)
              /\ Complete(lines) = SubSeq(lines, 1, Len(Complete(lines)))
          BY ONLY <1>6, <4>1, <4>3, VisitCompletes, Zenon
        <4> QED
          BY <4>2, <4>4
      <3>5. rows = Complete(lines)
        BY <1>5, <2>2, <3>4
      <3>6. offset = Len(Complete(lines))
        BY <1>7, <1>11, <3>4
      <3>7. prefix = Complete(lines)
        <4>1. CASE offset = Len(y.snapshot)
          BY <1>6, <2>1, <3>1, <3>4, <3>6, <4>1, SubSeqFull
        <4>2. CASE offset # Len(y.snapshot)
          BY <2>1, <3>4, <3>6, <4>2
        <4> QED
          BY <4>1, <4>2
      <3> QED
        BY <3>1, <3>4, <3>5, <3>7
    <2>9. Sound(x, v)
      BY <1>4, <1>5, <2>4, <2>8 DEF Sound, Doomed
    <2>10. reader' = [reader EXCEPT ![r] = x]
      <3>1. reader \in [Readers -> ReaderStates]
        BY ReaderTyped
      <3>2. reader' = [reader EXCEPT ![r].pc = "visited", ![r].rows = @ \o Complete(read), ![r].prefix = prefix]
        BY <1>14, <1>16, <2>1
      <3>3. reader' = [reader EXCEPT ![r] = [reader[r] EXCEPT !.pc = "visited", !.rows = @ \o Complete(read), !.prefix = prefix]]
        BY ONLY <3>1, <3>2, r \in Readers
      <3>4. [reader[r] EXCEPT !.pc = "visited", !.rows = @ \o Complete(read), !.prefix = prefix] = x
        BY <1>1, <2>2, <2>3
      <3> QED
        BY <3>3, <3>4
    <2>11. CacheInv' /\ seen' = [seen EXCEPT ![r] = v]
      BY <1>2, <1>13, ReaderTyped DEF CacheInv
    <2> QED
      BY <1>3, <1>13, <2>7, <2>9, <2>10, <2>11, ReaderTyped, ReaderKeeps
  <1> QED
    BY <1>15, <1>16

\* A commit whose snapshot the path still begins with is of all the complete
\* lines of what was digested, and shows what a scan of them would.
LEMMA CommitKeeps == ASSUME TrendInv, NEW r \in Readers, Commit(r) PROVE TrendInv'
  <1>1. PICK y : y = reader[r]
    OBVIOUS
  <1>2. PICK v : v = seen[r]
    OBVIOUS
  <1>3. /\ y \in ReaderStates /\ Sound(y, v) /\ v \in SUBSET Seq(Lines) /\ y.pc = "visited"
        /\ y.snapshot \in Seq(Lines) /\ y.rows \in Seq(Lines) /\ y.prefix \in Seq(Lines)
    <2>1. y.pc = "visited"
      BY <1>1 DEF Commit
    <2> QED
      BY <1>1, <1>2, <2>1, ReaderTyped
  <1>4. /\ y.snapshot \in v /\ Ended(y.snapshot)
        /\ \/ ~Corrupt(y.snapshot) /\ y.rows = Complete(y.snapshot) /\ y.prefix = y.rows
           \/ Doomed(y)
    BY <1>3 DEF Sound
  <1>5. UNCHANGED <<files, path, seen, bounds>>
    BY DEF Commit
  <1>6. seen' = [seen EXCEPT ![r] = v]
    BY <1>2, <1>5, ReaderTyped
  <1>7. CASE Unchanged(r)
    <2>1. ~Corrupt(y.snapshot) /\ y.rows = Complete(y.snapshot) /\ y.prefix = y.rows
      BY <1>1, <1>4, <1>7 DEF Unchanged, Doomed
    <2>2. y.rows \in Seq(Points)
      BY <1>3, <1>4, <2>1, CompletePoints
    <2>3. PICK points : points = Scanned(y.rows)
      OBVIOUS
    <2>4. Shown(y.rows) = points
      BY <2>2, <2>3, QueryIsScan
    <2>5. PICK x : x = [Idle EXCEPT !.got = "points", !.points = points]
      OBVIOUS
    <2>6. x = [pc |-> "idle", file |-> 0, snapshot |-> <<>>, rows |-> <<>>, prefix |-> <<>>,
               got |-> "points", points |-> points]
      BY <2>5 DEF Idle
    <2>7. x \in ReaderStates
      BY <2>2, <2>3, <2>6 DEF ReaderStates, Results
    <2>8. Sound(x, v)
      BY <1>4, <2>1, <2>3, <2>6 DEF Sound
    <2>9. /\ cache' = [rows |-> y.rows, checkpoint |-> y.prefix]
          /\ reader' = [reader EXCEPT ![r] = x]
      BY <1>1, <1>7, <2>4, <2>5 DEF Commit
    <2>10. cache' \in [rows : Seq(Lines), checkpoint : Seq(Lines)] /\ CacheInv'
      BY <1>3, <2>1, <2>2, <2>9 DEF CacheInv
    <2>11. bounds' \in [appends : Nat, edits : Nat, deaths : Nat] /\ bounds'.edits = bounds.edits
      BY <1>5, ReaderTyped
    <2> QED
      BY <1>3, <1>5, <1>6, <2>7, <2>8, <2>9, <2>10, <2>11, ReaderKeeps
  <1>8. CASE ~Unchanged(r)
    <2>1. GiveUp(r) /\ UNCHANGED cache /\ reader[r].pc # "idle"
      BY <1>8 DEF Commit
    <2> QED
      BY <1>5, <2>1, GiveUpKeeps
  <1> QED
    BY <1>7, <1>8

\* Nothing happens.
LEMMA StutterKeeps == ASSUME TrendInv, UNCHANGED trendVars PROVE TrendInv'
  BY DEF trendVars, TrendInv, TrendTypes, FileInv, CacheInv, Sound, Doomed, Ended

\* Every step keeps the invariant.
LEMMA NextTrendInv == ASSUME MaxEdits <= 1, TrendInv, [TrendNext]_trendVars PROVE TrendInv'
  <1>1. CASE Record
    BY <1>1, RecordKeeps
  <1>2. CASE RecorderDies
    BY <1>2, RecorderDiesKeeps
  <1>3. CASE Edit
    BY <1>3, EditKeeps
  <1>4. ASSUME NEW r \in Readers,
               Open(r) \/ Begin(r) \/ CacheFails(r) \/ Visit(r) \/ Commit(r) \/ Scan(r) \/ ReaderDies(r)
        PROVE  TrendInv'
    BY <1>4, OpenKeeps, SnapKeeps, CacheFailsKeeps, VisitKeeps, CommitKeeps, ScanKeeps, ReaderDiesKeeps
  <1>5. CASE UNCHANGED trendVars
    BY <1>5, StutterKeeps
  <1> QED
    BY <1>1, <1>2, <1>3, <1>4, <1>5 DEF TrendNext

\* Every reader is given what a plain scan shows of the journal at some moment
\* of its load, whatever the recorders, the other readers, their deaths and an
\* editor who saves once do meanwhile.  (One who saves twice under a reader can
\* put back what it digested; it then commits what it read in between.)
THEOREM CacheServesJournal ==
    ASSUME MaxEdits <= 1
    PROVE  TrendSpec => []ServedIsJournal
  <1>1. TrendInit => TrendInv
    BY InitTrendInv
  <1>2. TrendInv /\ [TrendNext]_trendVars => TrendInv'
    BY NextTrendInv
  <1>3. TrendInv => ServedIsJournal
    BY DEF TrendInv, Sound, ServedIsJournal
  <1> QED
    BY <1>1, <1>2, <1>3, PTL DEF TrendSpec
=============================================================================
