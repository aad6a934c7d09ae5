----------------------------- MODULE Correlator -----------------------------
(***************************************************************************)
(* Pairing of JSON-RPC requests with their responses (correlate.rs), as    *)
(* operators on the state of one Correlator.  A frame carries what the     *)
(* correlator looks at (kind, key) and an auxiliary number, call: the      *)
(* request it is, or the request its sender answers, by which properties   *)
(* can tell requests that use the same key apart.                          *)
(***************************************************************************)
EXTENDS Naturals, Sequences

CONSTANTS Keys   \* what a pending request is found by: a scope and a JSON-RPC id

Kinds == {"request", "response", "notification", "unparsed"}

\* pending[k] is 0, or the request that waits for a response under k.
NoPending == [seq |-> 0, pending |-> [k \in Keys |-> 0]]

\* on_outbound: only a message with a method and an id waits for a response;
\* a request under a key that is still pending replaces the older one.
OnOutbound(c, frame) ==
    IF frame.kind = "request" THEN [c EXCEPT !.pending[frame.key] = frame.call] ELSE c

CallRecord(c, method, call, answer) ==
    [seq |-> c.seq + 1, method |-> method, call |-> call, answer |-> answer]

Answers(c, frame) == frame.kind = "response" /\ c.pending[frame.key] # 0

\* on_inbound and on_unparsed: a response to a pending request and a message
\* without an id are recorded.  A response to nothing pending is not, and
\* neither is a request of the server to the client.
Recorded(c, frame) ==
    IF Answers(c, frame)
    THEN <<CallRecord(c, "call", c.pending[frame.key], frame.call)>>
    ELSE IF frame.kind = "notification" THEN <<CallRecord(c, "notification", 0, 0)>>
    ELSE IF frame.kind = "unparsed" THEN <<CallRecord(c, "unparsed", 0, 0)>>
    ELSE <<>>

OnInbound(c, frame) ==
    [seq |-> c.seq + Len(Recorded(c, frame)),
     pending |-> IF Answers(c, frame) THEN [c.pending EXCEPT ![frame.key] = 0]
                                      ELSE c.pending]
=============================================================================
