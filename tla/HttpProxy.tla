----------------------------- MODULE HttpProxy -----------------------------
(***************************************************************************)
(* The HTTP recorder (shim-http, http_proxy.rs): worker threads that each  *)
(* forward one exchange between a client and the upstream server, and one  *)
(* correlator and journal behind a mutex.  An exchange is numbered by its  *)
(* connection.  JSON-RPC ids are the clients' own and may coincide.        *)
(***************************************************************************)
EXTENDS Naturals, Sequences, FiniteSets, SequencesExt

CONSTANTS
    MaxExchanges,   \* bound: connections
    ProxyWorkers,   \* WORKER_COUNT
    ProxyQueue,     \* REQUEST_QUEUE_CAPACITY
    Ids,            \* JSON-RPC ids
    Bodies,         \* what clients send: whether it is let in, a kind, an id
    MaxLostAppends  \* bound: journal appends that fail

Exchanges == 1..MaxExchanges

ASSUME ProxyAssumption ==
    /\ ProxyWorkers \in Nat \ {0} /\ ProxyQueue \in Nat \ {0} /\ MaxExchanges \in Nat
    /\ \A body \in Bodies :
          /\ body.admitted \in BOOLEAN /\ body.id \in Ids
          /\ body.kind \in {"request", "response", "notification", "unparsed"}

VARIABLES
    exchanges,   \* per exchange: where it is, the body, the answer, the record to append
                 \* and where to go then, what the client got
    capture,     \* the correlator: its sequence number and pending requests
    journal,     \* the records appended
    locked,      \* the exchange whose worker holds the capture mutex, 0 if none
    lostAppends

proxyVars == <<exchanges, capture, journal, locked, lostAppends>>

C == INSTANCE Correlator WITH Keys <- Exchanges \X Ids

\* (A mutant of ScopedKey.) Every exchange uses one scope.
Unscoped(e, id) == <<1, id>>

\* request_scope: a pending request is found by its exchange and its id.
ScopedKey(e, id) == <<e, id>>

ProxyInit ==
    /\ exchanges = [e \in Exchanges |-> [pc |-> "away", body |-> <<>>, answer |-> <<>>,
                                         record |-> <<>>, onward |-> "done", client |-> "waiting"]]
    /\ capture = C!NoPending
    /\ journal = <<>>
    /\ locked = 0
    /\ lostAppends = 0

At(pc) == {e \in Exchanges : exchanges[e].pc = pc}
Busy == {e \in Exchanges : exchanges[e].pc \notin {"away", "queued", "done"}}

\* The exchange ends; the client got an answer, a status, or a closed connection.
End(e, got) == exchanges' = [exchanges EXCEPT ![e].pc = "done", ![e].client = got]

\* The accept loop: a full queue answers 503.
Connect(e) ==
    /\ e \in At("away") /\ \A d \in Exchanges : d < e => d \notin At("away")
    /\ IF Cardinality(At("queued")) < ProxyQueue
       THEN exchanges' = [exchanges EXCEPT ![e].pc = "queued"]
       ELSE End(e, "503")
    /\ UNCHANGED <<capture, journal, locked, lostAppends>>

\* A worker takes the oldest connection, reads the request and screens it.
BeginExchange(e) ==
    /\ e \in At("queued") /\ \A d \in At("queued") : e <= d
    /\ Cardinality(Busy) < ProxyWorkers
    /\ \E body \in Bodies :
         IF body.admitted
         THEN exchanges' = [exchanges EXCEPT ![e].pc = "outbound", ![e].body = body]
         ELSE End(e, "refused")
    /\ UNCHANGED <<capture, journal, locked, lostAppends>>

Frame(e, message) ==
    [kind |-> message.kind, key |-> ScopedKey(e, message.id), call |-> e]

\* Leave the critical section: with a record still to append, or without one.
Correlated(e, record, onward) ==
    /\ exchanges' = [exchanges EXCEPT ![e].record = record,
                                      ![e].onward = onward,
                                      ![e].pc = IF record # <<>> THEN "append" ELSE onward]
    /\ UNCHANGED <<journal, lostAppends>>

\* The guard lives to the end of the block that appends the record.
Holding(e, record) == IF record # <<>> THEN e ELSE 0

\* on_outbound_scoped, or on_unparsed when the body is not JSON.
CaptureRequest(e) ==
    LET frame == Frame(e, exchanges[e].body)
        record == IF frame.kind = "unparsed" THEN C!Recorded(capture, frame) ELSE <<>>
    IN  /\ e \in At("outbound") /\ locked = 0
        /\ capture' = [C!OnOutbound(capture, frame) EXCEPT !.seq = @ + Len(record)]
        /\ locked' = Holding(e, record)
        /\ Correlated(e, record, "upstream")

\* What the upstream server can answer: the response in a JSON body or in a
\* stream, after a notification or a request of its own under any id; or a
\* body that is neither (an empty 202).
Response(e) == [kind |-> "response", id |-> exchanges[e].body.id]
Responses(e) ==
    IF exchanges[e].body.kind # "request" THEN {<<>>}
    ELSE {<<>>, <<Response(e)>>, <<[kind |-> "notification", id |-> Response(e).id], Response(e)>>}
         \cup {<<[kind |-> "request", id |-> id], Response(e)>> : id \in Ids}

Upstream(e) ==
    /\ e \in At("upstream")
    /\ \/ \E answer \in Responses(e) :
            exchanges' = [exchanges EXCEPT ![e].pc = "inbound", ![e].answer = answer]
       \/ End(e, "502")
       \/ End(e, "closed")     \* the body is too long, or breaks off
    /\ UNCHANGED <<capture, journal, locked, lostAppends>>

\* response_value: the first message of the body that has an id.
ResponseValue(e) ==
    LET at == SelectInSeq(exchanges[e].answer, LAMBDA m : m.kind # "notification")
    IN  IF at = 0 THEN <<>> ELSE <<exchanges[e].answer[at]>>

\* on_inbound_scoped, or on_unparsed when no message is found.
CaptureAnswer(e) ==
    LET frame == IF ResponseValue(e) = <<>>
                 THEN Frame(e, [kind |-> "unparsed", id |-> exchanges[e].body.id])
                 ELSE Frame(e, Head(ResponseValue(e)))
        record == C!Recorded(capture, frame)
    IN  /\ e \in At("inbound") /\ locked = 0
        /\ capture' = C!OnInbound(capture, frame)
        /\ locked' = Holding(e, record)
        /\ Correlated(e, record, "respond")

\* A failed append ends the exchange: its connection closes unanswered.
AppendFails(e) ==
    /\ lostAppends < MaxLostAppends
    /\ End(e, "closed")
    /\ lostAppends' = lostAppends + 1
    /\ UNCHANGED journal

AppendRecord(e) ==
    /\ e \in At("append")
    /\ \/ /\ journal' = journal \o exchanges[e].record
          /\ exchanges' = [exchanges EXCEPT ![e].pc = exchanges[e].onward]
          /\ UNCHANGED lostAppends
       \/ AppendFails(e)
    /\ locked' = IF locked = e THEN 0 ELSE locked
    /\ UNCHANGED capture

WriteResponse(e) ==
    /\ e \in At("respond")
    /\ End(e, "answered")
    /\ UNCHANGED <<capture, journal, locked, lostAppends>>

ProxyNext ==
    \E e \in Exchanges :
        \/ Connect(e) \/ BeginExchange(e) \/ CaptureRequest(e) \/ Upstream(e)
        \/ CaptureAnswer(e) \/ AppendRecord(e) \/ WriteResponse(e)

ProxySpec == ProxyInit /\ [][ProxyNext]_proxyVars
-----------------------------------------------------------------------------
Calls == {r \in ToSet(journal) : r.method = "call"}

\* A recorded call pairs the request of an exchange with the answer of the same
\* exchange, however the exchanges interleave and whatever ids clients chose.
ExchangesPaired == \A r \in Calls : r.call = r.answer

\* The records come from several workers, in the order of their numbers: number
\* and append are one critical section.
JournalInOrder ==
    \A i \in 2..Len(journal) : journal[i - 1].seq < journal[i].seq

\* A client that has the server's answer to a request finds the call in the
\* journal, unless a request of the server came first in the stream and hid the
\* answer from the recorder: the record is appended before the answer is
\* written, and a failed append closes the connection instead.
AnsweredCallsRecorded ==
    \A e \in Exchanges :
        (/\ exchanges[e].client = "answered" /\ exchanges[e].body.kind = "request"
         /\ ResponseValue(e) # <<>> /\ Head(ResponseValue(e)).kind = "response")
        => \E r \in Calls : r.call = e

\* The journal of the proxy tells what its clients saw.
JournalFaithful == ExchangesPaired /\ JournalInOrder /\ AnsweredCallsRecorded
=============================================================================
