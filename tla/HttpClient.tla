----------------------------- MODULE HttpClient -----------------------------
(***************************************************************************)
(* The Streamable HTTP client of an evaluation (http_client.rs).  Every    *)
(* POST has a response of its own, a JSON body or a stream of events, and  *)
(* the operations differ in how they read it: a request takes the event    *)
(* with its id, discovery answers roots requests while the stream is open, *)
(* an observed call answers the server's requests when it has ended, and a *)
(* cancelled call runs on a thread of its own.  The server is any server:  *)
(* it chooses a script, and may be slow; it may wait for the answer to a   *)
(* request of its own before it goes on.                                   *)
(***************************************************************************)
EXTENDS Naturals, Sequences, FiniteSets, SequencesExt

CONSTANTS
    Scripts,            \* what a server can answer: a stream or one JSON body, its messages
    MaxServerRequests,  \* server requests a call puts up with
    MaxOperations       \* bound: operations of the client

Frames == [kind : {"result", "tool_error", "error", "cancelled", "roots", "sampling"},
           own : BOOLEAN]

\* A body that is no stream is one message.
ASSUME HttpClientAssumption ==
    /\ MaxServerRequests \in Nat /\ MaxOperations \in Nat
    /\ \A s \in Scripts : /\ s.stream \in BOOLEAN /\ s.frames \in Seq(Frames)
                          /\ ~s.stream => Len(s.frames) = 1

VARIABLES
    client,     \* the operation, where its thread is, what it read, its outcome
    call,       \* the thread of a cancelled call, and its verdict
    server,     \* the server's answer to the POST that waits: frames to come, sent
    session,    \* the session id the client sends
    spent       \* whether the evaluation's budget is exhausted

httpVars == <<client, call, server, session, spent>>

Operations == {"request", "discover", "observe", "cancel"}
Silent == [stream |-> TRUE, coming |-> <<>>, sent |-> <<>>, replies |-> 0, slow |-> FALSE,
           session |-> "none"]

HttpInit ==
    /\ client = [pc |-> "idle", op |-> "none", read |-> 0, outcome |-> "none", done |-> 0]
    /\ call = [pc |-> "none", verdict |-> "none"]
    /\ server = Silent
    /\ session = "none"
    /\ spent = FALSE

-----------------------------------------------------------------------------
\* Reading a response

IsResponse(f) == f.kind \in {"result", "tool_error", "error", "cancelled"}
Asks(f) == f.kind \in {"roots", "sampling"}

\* validate_response: the id of the request, and a result or else an error.
ValidResponse(f) == f.own /\ IsResponse(f)

\* parse_sse_response: the first event with the id, whatever it is; 0 for none.
FirstOwn(frames) == SelectInSeq(frames, LAMBDA f : f.own)

\* The one message a complete body stands for, if any.
Message(s) ==
    IF ~s.stream THEN s.sent
    ELSE IF FirstOwn(s.sent) = 0 THEN <<>> ELSE <<s.sent[FirstOwn(s.sent)]>>

Ended(s) == s.coming = <<>> /\ ~s.slow

\* The outcome of a request whose body was read to its end.
Answer(s) ==
    IF Message(s) = <<>> \/ ~ValidResponse(Head(Message(s))) THEN "failed" ELSE "answered"

\* call_tool_observing: server requests are counted, then the response found.
Asked(s) == Cardinality({i \in DOMAIN s.sent : Asks(s.sent[i])})
Observed(s) ==
    IF Asked(s) > MaxServerRequests \/ ~\E i \in DOMAIN s.sent : ValidResponse(s.sent[i])
    THEN "failed" ELSE "answered"

\* (A mutant of Verdict.) Every error counts as an acknowledgement.
LenientVerdict(s) ==
    IF s.stream /\ Message(s) = <<>> THEN "honored"
    ELSE IF Message(s) = <<>> \/ ~ValidResponse(Head(Message(s))) THEN "failed"
    ELSE IF Head(Message(s)).kind \in {"cancelled", "error"} THEN "honored"
    ELSE IF Head(Message(s)).kind = "result" THEN "ignored"
    ELSE "errored"

\* worker_call: how the server resolved the cancelled call.
Verdict(s) ==
    IF s.stream /\ Message(s) = <<>> THEN "honored"
    ELSE IF Message(s) = <<>> \/ ~ValidResponse(Head(Message(s))) THEN "failed"
    ELSE IF Head(Message(s)).kind = "cancelled" THEN "honored"
    ELSE IF Head(Message(s)).kind = "result" THEN "ignored"
    ELSE "errored"

-----------------------------------------------------------------------------
\* The client's thread

\* Budget::finish: exhaustion takes precedence over whatever came out.
Finish(outcome) ==
    client' = [client EXCEPT !.pc = "idle", !.done = @ + 1,
                             !.outcome = IF spent THEN "exhausted" ELSE outcome]

Start(op) ==
    /\ client.pc = "idle" /\ client.done < MaxOperations
    /\ server' = Silent
    /\ call' = [pc |-> IF op = "cancel" /\ ~spent THEN "posting" ELSE "none", verdict |-> "none"]
    /\ client' = IF spent
                 THEN [client EXCEPT !.op = op, !.outcome = "exhausted", !.done = @ + 1]
                 ELSE [client EXCEPT !.op = op, !.read = 0, !.outcome = "none",
                                     !.pc = IF op = "cancel" THEN "notifying" ELSE "posting"]
    /\ UNCHANGED <<session, spent>>

\* The POST reaches the server, which decides how it will answer.
Receives ==
    \E body \in Scripts, slow \in BOOLEAN, s \in {"none", "s1", "s2"} :
        server' = [Silent EXCEPT !.stream = body.stream, !.coming = body.frames,
                                 !.slow = slow, !.session = s]

\* request_inner looks at the session header before the body: an id may be set
\* once and never changed.  An observed call ignores it.
Post ==
    /\ client.pc = "posting"
    /\ \/ /\ Receives
          /\ IF client.op = "observe" \/ server'.session = "none"
             THEN client' = [client EXCEPT !.pc = "reading"] /\ UNCHANGED session
             ELSE IF session \in {"none", server'.session}
             THEN client' = [client EXCEPT !.pc = "reading"] /\ session' = server'.session
             ELSE Finish("failed") /\ UNCHANGED session
       \/ Finish("failed") /\ UNCHANGED <<server, session>>     \* no connection, or not 200
    /\ UNCHANGED <<call, spent>>

\* (A mutant of ReadsEvents.) Discovery reads the stream to its end first.
ReadsToEnd == FALSE

\* discovery_sse: the client declared roots and the answer is a stream.
ReadsEvents == client.op = "discover" /\ server.stream

\* A body that is read as a whole; an observed call then answers the requests in it.
ReadBody ==
    /\ client.pc = "reading" /\ ~ReadsEvents /\ Ended(server)
    /\ Finish(IF client.op = "observe" THEN Observed(server) ELSE Answer(server))
    /\ server' = [server EXCEPT !.replies = IF client.op = "observe" THEN Asked(server) ELSE 0]
    /\ UNCHANGED <<call, session, spent>>

RootsAsked == Cardinality({i \in 1..client.read : server.sent[i].kind = "roots"})

\* discovery_sse: one event at a time; a roots request is answered at once.
ReadEvent ==
    LET frame == server.sent[client.read + 1]
    IN  /\ client.pc = "reading" /\ ReadsEvents /\ client.read < Len(server.sent)
        /\ IF spent \/ (frame.kind = "roots" /\ RootsAsked = MaxServerRequests)
           THEN Finish("failed") /\ UNCHANGED server
           ELSE IF frame.own /\ ~Asks(frame)
           THEN Finish(IF ValidResponse(frame) THEN "answered" ELSE "failed") /\ UNCHANGED server
           ELSE /\ client' = [client EXCEPT !.read = @ + 1]
                /\ server' = IF frame.kind = "roots" THEN [server EXCEPT !.replies = @ + 1]
                                                     ELSE server
        /\ UNCHANGED <<call, session, spent>>

\* The stream ends without the response.
ReadEnd ==
    /\ client.pc = "reading" /\ ReadsEvents
    /\ client.read = Len(server.sent) /\ Ended(server)
    /\ Finish("failed")
    /\ UNCHANGED <<call, server, session, spent>>

\* The server sends its next event, but waits for the answer to a request of
\* its own before it goes on.
Waits == server.coming # <<>> /\ Asked(server) > server.replies
ServerSends ==
    /\ server.coming # <<>> /\ ~Waits
    /\ client.pc = "reading" \/ call.pc = "reading"
    /\ server' = [server EXCEPT !.sent = Append(@, Head(server.coming)),
                                !.coming = Tail(server.coming)]
    /\ UNCHANGED <<client, call, session, spent>>

\* Nothing more will come in time: the server is slow, or waits in vain.
Stalled == (server.coming = <<>> /\ server.slow) \/ Waits

Timeout ==
    /\ client.pc = "reading" /\ Stalled
    /\ ReadsEvents => client.read = Len(server.sent)
    /\ Finish("timeout")
    /\ UNCHANGED <<call, server, session, spent>>

\* The evaluation's deadline passes, or its requests run out.
Exhaust == ~spent /\ spent' = TRUE /\ UNCHANGED <<client, call, server, session>>

-----------------------------------------------------------------------------
\* A cancelled call: the thread of the call, and the cancellation

CallPosts ==
    /\ call.pc = "posting"
    /\ \/ Receives /\ call' = [call EXCEPT !.pc = "reading"]
       \/ call' = [pc |-> "done", verdict |-> "failed"] /\ UNCHANGED server
    /\ UNCHANGED <<client, session, spent>>

CallReads ==
    /\ call.pc = "reading" /\ Ended(server)
    /\ call' = [pc |-> "done", verdict |-> Verdict(server)]
    /\ UNCHANGED <<client, server, session, spent>>

\* The whole call is bounded by grace; silence honors the cancellation.
CallTimesOut ==
    /\ call.pc = "reading" /\ Stalled
    /\ call' = [pc |-> "done", verdict |-> "honored"]
    /\ UNCHANGED <<client, server, session, spent>>

\* (A mutant of Notify.) A cancellation that fails returns at once.
NotifyOrReturn ==
    /\ client.pc = "notifying"
    /\ \/ client' = [client EXCEPT !.pc = "joining"]
       \/ Finish("failed")
    /\ UNCHANGED <<call, server, session, spent>>

\* notifications/cancelled, after a pause too short to say which of the two
\* POSTs the server sees first.  Its failure waits for the join.
Notify ==
    /\ client.pc = "notifying"
    /\ \E pc \in {"joining", "joining_unnotified"} : client' = [client EXCEPT !.pc = pc]
    /\ UNCHANGED <<call, server, session, spent>>

Join ==
    /\ client.pc \in {"joining", "joining_unnotified"} /\ call.pc = "done"
    /\ Finish(IF client.pc = "joining" THEN call.verdict ELSE "failed")
    /\ UNCHANGED <<call, server, session, spent>>

HttpNext ==
    \/ \E op \in Operations : Start(op)
    \/ Post \/ ReadBody \/ ReadEvent \/ ReadEnd \/ ServerSends \/ Timeout \/ Exhaust
    \/ CallPosts \/ CallReads \/ CallTimesOut \/ Notify \/ Join

HttpSpec == HttpInit /\ [][HttpNext]_httpVars
-----------------------------------------------------------------------------
\* Discovery never waits for a server that waits for it: if it times out, the
\* server was slow, although it may hold its result back until its roots
\* request is answered, or asked for what the client did not declare.
RootsNeverStall ==
    client.op = "discover" /\ client.outcome = "timeout" =>
        server.slow \/ \E i \in DOMAIN server.sent : server.sent[i].kind = "sampling"

\* When cancel_tool_call has returned, the thread of the cancelled call has
\* ended, whether or not the cancellation got through, and the verdict says what
\* the server did: ignored only if it completed the call, honored only if it
\* acknowledged the cancellation or kept silent.
CallJoined == client.pc = "idle" => call.pc \in {"none", "done"}
AnsweredBy(kind) ==
    \E i \in DOMAIN server.sent :
        /\ server.sent[i].own /\ server.sent[i].kind = kind
        /\ \A j \in 1..(i - 1) : ~server.sent[j].own
Judged(verdict) ==
    /\ verdict = "ignored" => AnsweredBy("result")
    /\ verdict = "honored" =>
          \/ \A i \in DOMAIN server.sent : ~server.sent[i].own
          \/ AnsweredBy("cancelled")
          \/ Stalled
CancellationJudged == CallJoined /\ Judged(client.outcome)
=============================================================================
