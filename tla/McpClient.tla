----------------------------- MODULE McpClient -----------------------------
(***************************************************************************)
(* The stdio client of an evaluation (mcp_client.rs, with the shared       *)
(* evaluation_budget.rs): a strictly sequential JSON-RPC client over the   *)
(* pipes of a server it spawned.                                           *)
(*                                                                         *)
(* A writer thread and a reader thread own the pipes.  The client hands a  *)
(* frame to the writer and waits for its report, then takes frames from    *)
(* the reader's bounded queue, both only until a deadline: it gives up     *)
(* requests whose answers may still come, and must not take a late answer  *)
(* for a defect of the server.  Drop ends the server and both threads.     *)
(*                                                                         *)
(* Time is abstract: whoever waits for a deadline may give up at any step. *)
(***************************************************************************)
EXTENDS Naturals, SequencesExt

CONSTANTS MaxSent,         \* Budget.max_requests
          PipeCap,         \* frames that fit into a pipe
          MaxQueuedFrames, \* capacity of the reader's queue of lines
          MaxNotifications,\* capacity of the notification buffer
          MaxAnswered,     \* server requests answered during one operation
          EmptyRoots,      \* roots declared: the server's requests are roots/list
          MaxUpdates,      \* bound: resource updates the server sends
          MaxAsks          \* bound: requests of the server

VARIABLES
    client,       \* McpClient and the operation it is in
    clientBudget,  \* evaluation_budget::State: requests acquired, denied or past the deadline
    writer,       \* the writes channel of one frame and the mcp-stdin thread
    stdin,        \* pipe to the server
    server,       \* the server: running, its pipes still held, ids to answer, what it sent
    stdout,       \* pipe from the server
    reader,       \* the mcp-stdout thread: has it ended
    lines,        \* the queue it fills
    gone          \* auxiliary: updates that were reported, or skipped outside a request

clientVars == <<client, clientBudget, writer, stdin, server, stdout, reader, lines, gone>>

\* id is a request's; of a server's request or update it is a number of its own.
\* before: the updates the server had sent when it sent a response.
Frame(kind, id) == [kind |-> kind, id |-> id, before |-> 0]

McpInit ==
    /\ client = [pc |-> "idle", op |-> "none", id |-> 0, next |-> 1, wrote |-> "none",
                 failed |-> FALSE, abandoned |-> {}, notifications |-> <<>>, answered |-> 0,
                 outcome |-> "none", before |-> 0]
    /\ clientBudget = [requests |-> 0, exhausted |-> FALSE]
    /\ writer = [pc |-> "idle", frame |-> {}, cancelled |-> FALSE]
    /\ stdin = <<>>
    /\ server = [up |-> TRUE, held |-> TRUE, todo |-> {}, updates |-> 0, asks |-> 0]
    /\ stdout = <<>>
    /\ reader = [ended |-> FALSE, cancelled |-> FALSE]
    /\ lines = <<>>
    /\ gone = {}

clientThreads == <<writer, reader>>
pipes == <<stdin, stdout>>

Ended(c, outcome) ==
    [c EXCEPT !.pc = "idle", !.op = "none", !.wrote = "none", !.answered = 0, !.outcome = outcome]

-----------------------------------------------------------------------------
(* Writing a frame.                                                          *)
(* A definition named after what it gets wrong is a mutated form of the one  *)
(* that follows: a plausible bug in the code, which a property must notice.  *)

\* write: a request is charged to the budget, the frame handed to the writer.
Write(c, frame) ==
    LET call == frame.kind = "call"
        denied == clientBudget.exhausted \/ (call /\ clientBudget.requests >= MaxSent)
    IN  /\ clientBudget' = [requests |-> clientBudget.requests + (IF call /\ ~denied THEN 1 ELSE 0),
                      exhausted |-> denied]
        /\ IF denied \/ c.failed \/ writer.pc # "idle"
           THEN /\ client' = Ended(c, IF denied THEN "exhausted" ELSE "closed")
                /\ UNCHANGED writer
           ELSE /\ client' = [c EXCEPT !.pc = "writing", !.wrote = frame.kind]
                /\ writer' = [writer EXCEPT !.pc = "writing", !.frame = {frame}]

\* request, call_tool_observing and cancel_tool_call all begin like this.
Begin(op) ==
    /\ client.pc = "idle" /\ client.next <= MaxSent + 1
    /\ LET c == [client EXCEPT !.op = op, !.id = client.next, !.next = @ + 1,
                               !.outcome = "none"]
       IN  Write(c, Frame("call", c.id))
    /\ UNCHANGED <<pipes, server, reader, lines, gone>>

\* The next step after a report of success: cancel_tool_call sends the
\* cancellation, every operation sets its deadline.
AfterWrite(c) ==
    CASE c.op = "cancel" /\ c.wrote = "call" -> [c EXCEPT !.pc = "notifying"]
      [] c.wrote # "reply" /\ clientBudget.exhausted -> Ended(c, "exhausted")
      [] OTHER -> [c EXCEPT !.pc = "awaiting"]

Written ==
    /\ client.pc = "writing" /\ writer.pc = "written"
    /\ client' = AfterWrite(client)
    /\ writer' = [writer EXCEPT !.pc = "idle", !.frame = {}]
    /\ UNCHANGED <<clientBudget, pipes, server, reader, lines, gone>>

WriteFails ==
    /\ client.pc = "writing" /\ writer.pc = "ended"
    /\ client' = Ended([client EXCEPT !.failed = TRUE], "closed")
    /\ UNCHANGED <<clientBudget, clientThreads, pipes, server, lines, gone>>

TimedOut == IF clientBudget.exhausted THEN "exhausted" ELSE "timeout"

WriteTimesOut ==
    /\ client.pc = "writing" /\ writer.pc = "writing"
    /\ client' = Ended([client EXCEPT !.failed = TRUE], TimedOut)
    /\ UNCHANGED <<clientBudget, clientThreads, pipes, server, lines, gone>>

Notify ==
    /\ client.pc = "notifying"
    /\ Write(client, Frame("cancelled", client.id))
    /\ UNCHANGED <<pipes, server, reader, lines, gone>>

-----------------------------------------------------------------------------
(* Taking a frame from the queue.                                            *)

Take(kind) == lines # <<>> /\ Head(lines).kind = kind /\ lines' = Tail(lines)

RememberNothing(c, frame, outcome) == c

\* remember_notification: an overflow fails the connection.
Remember(c, frame, outcome) ==
    IF Len(c.notifications) >= MaxNotifications
    THEN Ended([c EXCEPT !.failed = TRUE], outcome)
    ELSE [c EXCEPT !.notifications = Append(@, frame)]

\* A notification: request keeps it for wait, the other operations skip it.
TakeUpdate ==
    /\ client.pc = "awaiting" /\ Take("update")
    /\ IF client.op = "request"
       THEN client' = Remember(client, Head(lines), "closed") /\ UNCHANGED gone
       ELSE gone' = gone \cup {Head(lines).id} /\ UNCHANGED client
    /\ UNCHANGED <<clientBudget, clientThreads, pipes, server>>

Forget(c, id) == [c EXCEPT !.abandoned = @ \ {id}]

\* The answer to the request that is waited for, or to one that was given up
\* (is_abandoned_reply); any other id is reported as a defect of the server.
Accept(c, frame) ==
    CASE frame.id \in c.abandoned -> Forget(c, frame.id)
      [] frame.id \notin c.abandoned /\ frame.id # c.id -> Ended(c, "mismatch")
      [] OTHER -> Ended([c EXCEPT !.before = frame.before], "answered")

\* cancel_tool_call skips the frames of other ids, late answers among them.
AcceptCancelled(c, frame) ==
    IF frame.id # c.id THEN c ELSE Ended([c EXCEPT !.before = frame.before], "answered")

TakeResponse ==
    /\ client.pc = "awaiting" /\ Take("response")
    /\ client' = IF client.op = "cancel" THEN AcceptCancelled(client, Head(lines))
                 ELSE Accept(client, Head(lines))
    /\ UNCHANGED <<clientBudget, clientThreads, pipes, server, gone>>

\* A request of the server is answered, up to a bound, by call_tool_observing
\* and, if it asks for roots, by request.
Answering == IF EmptyRoots THEN {"request", "observe"} ELSE {"observe"}

TakeAskAnswer ==
    /\ client.pc = "awaiting" /\ Take("ask") /\ client.op \in Answering
    /\ LET c == [client EXCEPT !.answered = @ + 1]
       IN  IF c.answered > MaxAnswered
           THEN client' = Ended(c, "limit") /\ UNCHANGED <<clientBudget, writer>>
           ELSE Write(c, Frame("reply", Head(lines).id))
    /\ UNCHANGED <<pipes, server, reader, gone>>

\* Everywhere else its id is compared with the ids of the client's requests.
TakeAskElsewhere ==
    /\ client.pc = "awaiting" /\ Take("ask") /\ client.op \notin Answering
    /\ LET id == Head(lines).id
           skipped == IF client.op = "cancel" THEN id # client.id ELSE id \in client.abandoned
           kept == IF client.op = "cancel" THEN client ELSE Forget(client, id)
       IN  client' = IF skipped THEN kept ELSE Ended(client, "mismatch")
    /\ UNCHANGED <<clientBudget, clientThreads, pipes, server, gone>>

GiveUp(c) == Ended(c, IF c.op = "cancel" THEN "honored" ELSE TimedOut)

\* abandon, and the end of cancel_tool_call's grace: silence honors it.
Abandon(c) == [GiveUp(c) EXCEPT !.abandoned = @ \cup {c.id}]

\* The deadline passes, even when the queue is not empty.
TimesOut ==
    /\ client.pc = "awaiting"
    /\ client' = IF clientBudget.exhausted /\ client.op = "cancel" THEN Ended(client, "exhausted")
                 ELSE Abandon(client)
    /\ UNCHANGED <<clientBudget, clientThreads, pipes, server, lines, gone>>

\* The reader has ended and its queue is drained.
Closed ==
    /\ client.pc \in {"awaiting", "waiting"} /\ lines = <<>> /\ reader.ended
    /\ client' = Ended(client, IF client.pc = "waiting" THEN "missed" ELSE "closed")
    /\ UNCHANGED <<clientBudget, clientThreads, pipes, server, lines, gone>>

-----------------------------------------------------------------------------
(* wait_for_resource_update.                                                 *)

Buffered == {k \in DOMAIN client.notifications : client.notifications[k].kind = "update"}

First(S) == CHOOSE k \in S : \A j \in S : k <= j

BeginWait ==
    /\ client.pc = "idle"
    /\ LET c == [client EXCEPT !.op = "wait", !.outcome = "none"]
           k == First(Buffered)
       IN  IF Buffered # {}
           THEN /\ client' = Ended([c EXCEPT !.notifications = RemoveAt(@, k)], "updated")
                /\ gone' = gone \cup {client.notifications[k].id}
           ELSE /\ client' = IF clientBudget.exhausted THEN Ended(c, "missed")
                             ELSE [c EXCEPT !.pc = "waiting"]
                /\ UNCHANGED gone
    /\ UNCHANGED <<clientBudget, clientThreads, pipes, server, lines>>

\* Any other frame with a method is remembered; an answer is dropped.
TakeWaiting ==
    /\ client.pc = "waiting" /\ lines # <<>> /\ lines' = Tail(lines)
    /\ LET frame == Head(lines)
       IN  \/ /\ frame.kind = "update"
              /\ client' = Ended(client, "updated") /\ gone' = gone \cup {frame.id}
           \/ /\ frame.kind = "ask"
              /\ client' = Remember(client, frame, "missed") /\ UNCHANGED gone
           \/ /\ frame.kind = "response"
              /\ UNCHANGED <<client, gone>>
    /\ UNCHANGED <<clientBudget, clientThreads, pipes, server>>

WaitTimesOut ==
    /\ client.pc = "waiting"
    /\ client' = Ended(client, "missed")
    /\ UNCHANGED <<clientBudget, clientThreads, pipes, server, lines, gone>>

-----------------------------------------------------------------------------
(* Drop: the caller abandons the connection between two operations.          *)

BeginDrop ==
    /\ client.pc = "idle"
    /\ client' = [client EXCEPT !.pc = "killing"]
    /\ UNCHANGED <<clientBudget, clientThreads, pipes, server, lines, gone>>

\* The server ends; a descendant may keep its pipes open.
Ends == \E held \in BOOLEAN :
    server' = [server EXCEPT !.up = FALSE, !.held = held, !.todo = {}]

Kill ==
    /\ client.pc = "killing"
    /\ client' = [client EXCEPT !.pc = "cancelling"]
    /\ IF server.up THEN Ends ELSE UNCHANGED server
    /\ UNCHANGED <<clientBudget, clientThreads, pipes, lines, gone>>

CancelNobody == writer' = writer /\ reader' = reader
CancelThreads == writer' = [writer EXCEPT !.cancelled = TRUE] /\ reader' = [reader EXCEPT !.cancelled = TRUE]

Cancel ==
    /\ client.pc = "cancelling"
    /\ client' = [client EXCEPT !.pc = "joining"]
    /\ CancelThreads
    /\ UNCHANGED <<clientBudget, pipes, server, lines, gone>>

JoinThreads ==
    /\ client.pc = "joining" /\ writer.pc = "ended" /\ reader.ended
    /\ client' = [client EXCEPT !.pc = "gone"]
    /\ UNCHANGED <<clientBudget, clientThreads, pipes, server, lines, gone>>

Dropped == client.pc \in {"killing", "cancelling", "joining", "gone"}

-----------------------------------------------------------------------------
(* The threads.                                                              *)

WriterWrites ==
    /\ writer.pc = "writing" /\ server.held /\ Len(stdin) < PipeCap /\ ~writer.cancelled
    /\ stdin' = stdin \o SetToSeq(writer.frame)
    /\ writer' = [writer EXCEPT !.pc = "written"]
    /\ UNCHANGED <<client, clientBudget, server, stdout, reader, lines, gone>>

\* A broken pipe, the cancellation, or the end of the writes channel.
WriterEnds ==
    /\ \/ writer.pc = "writing" /\ (~server.held \/ writer.cancelled)
       \/ writer.pc \in {"idle", "written"} /\ Dropped
    /\ writer' = [writer EXCEPT !.pc = "ended", !.frame = {}]
    /\ UNCHANGED <<client, clientBudget, pipes, server, reader, lines, gone>>

\* A frame that does not fit into the queue ends the reader and is lost.
ReaderReads ==
    /\ ~reader.ended /\ ~reader.cancelled /\ stdout # <<>>
    /\ stdout' = Tail(stdout)
    /\ IF Len(lines) < MaxQueuedFrames
       THEN lines' = Append(lines, Head(stdout)) /\ UNCHANGED reader
       ELSE reader' = [reader EXCEPT !.ended = TRUE] /\ UNCHANGED lines
    /\ UNCHANGED <<client, clientBudget, writer, stdin, server, gone>>

ReaderEnds ==
    /\ ~reader.ended /\ (reader.cancelled \/ (stdout = <<>> /\ ~server.held))
    /\ reader' = [reader EXCEPT !.ended = TRUE]
    /\ UNCHANGED <<client, clientBudget, writer, pipes, server, lines, gone>>

-----------------------------------------------------------------------------
(* The server: it answers a request at most once, whenever and in whatever   *)
(* order it likes, or never; a cancelled one it may drop.                    *)

ServerReads ==
    /\ server.up /\ stdin # <<>>
    /\ stdin' = Tail(stdin)
    /\ LET frame == Head(stdin)
       IN  \/ frame.kind = "call" /\ server' = [server EXCEPT !.todo = @ \cup {frame.id}]
           \/ frame.kind = "cancelled" /\ server' \in {server, [server EXCEPT !.todo = @ \ {frame.id}]}
           \/ frame.kind = "reply" /\ UNCHANGED server
    /\ UNCHANGED <<client, clientBudget, clientThreads, stdout, lines, gone>>

ServerWrites(frame) ==
    /\ server.up /\ Len(stdout) < PipeCap
    /\ stdout' = Append(stdout, frame)
    /\ UNCHANGED <<client, clientBudget, clientThreads, stdin, lines, gone>>

ServerAnswers(id) ==
    /\ ServerWrites([Frame("response", id) EXCEPT !.before = server.updates])
    /\ server' = [server EXCEPT !.todo = @ \ {id}]

ServerUpdates ==
    /\ server.updates < MaxUpdates
    /\ ServerWrites(Frame("update", server.updates + 1))
    /\ server' = [server EXCEPT !.updates = @ + 1]

\* A server asks while it serves a request.
ServerAsks ==
    /\ server.asks < MaxAsks /\ server.todo # {}
    /\ ServerWrites(Frame("ask", server.asks + 1))
    /\ server' = [server EXCEPT !.asks = @ + 1]

ServerExits ==
    /\ server.up /\ Ends
    /\ UNCHANGED <<client, clientBudget, clientThreads, pipes, lines, gone>>

\* The evaluation's deadline passes.
ClientExpires ==
    /\ ~clientBudget.exhausted
    /\ clientBudget' = [clientBudget EXCEPT !.exhausted = TRUE]
    /\ UNCHANGED <<client, clientThreads, pipes, server, lines, gone>>

-----------------------------------------------------------------------------

Proceed ==
    \/ Written \/ WriteFails \/ WriteTimesOut \/ Notify
    \/ TakeUpdate \/ TakeResponse \/ TakeAskAnswer \/ TakeAskElsewhere \/ TimesOut \/ Closed
    \/ TakeWaiting \/ WaitTimesOut
    \/ Kill \/ Cancel \/ JoinThreads

Start == (\E op \in {"request", "observe", "cancel"} : Begin(op)) \/ BeginWait \/ BeginDrop

Threads == WriterWrites \/ WriterEnds \/ ReaderReads \/ ReaderEnds

Server ==
    \/ ServerReads \/ (\E id \in server.todo : ServerAnswers(id))
    \/ ServerUpdates \/ ServerAsks \/ ServerExits

McpNext == Proceed \/ Start \/ Threads \/ Server \/ ClientExpires

McpSpec == McpInit /\ [][McpNext]_clientVars

\* The client runs, deadlines pass and the threads are scheduled; the server
\* does what it likes.
FairClientSpec ==
    /\ McpSpec
    /\ WF_clientVars(Proceed)
    /\ WF_clientVars(WriterWrites \/ WriterEnds) /\ WF_clientVars(ReaderReads \/ ReaderEnds)
-----------------------------------------------------------------------------
(* Properties.                                                               *)

\* A server that answers every request at most once, however late, and asks
\* nothing itself is never reported for a response that does not match: the
\* ids of requests that were given up are kept until their answers came.
NoFalseMismatch == client.outcome = "mismatch" => server.asks > 0

\* An update that the server sent before it answered a request is not lost: a
\* wait that misses leaves none of them behind, unless the connection failed.
UpdatesKept ==
    [][client' # client /\ client'.pc = "idle" /\ client'.outcome = "missed" =>
          client'.failed \/ 1 .. client.before \subseteq gone]_clientVars

\* Whatever the server does, every operation ends, and a dropped connection
\* releases its threads although a pipe is full or still held open.
OperationsEnd == client.pc \notin {"idle", "gone"} ~> client.pc \in {"idle", "gone"}
=============================================================================
