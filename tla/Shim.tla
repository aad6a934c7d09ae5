-------------------------------- MODULE Shim --------------------------------
(***************************************************************************)
(* The recording stdio shim (shim.rs, with frame.rs, stdio.rs and          *)
(* correlate.rs): it stands between an agent and the server it spawned.    *)
(*                                                                         *)
(* Two pump threads forward frames, one per direction, and report what     *)
(* they do through one channel: a reservation, numbered under a lock,      *)
(* before a frame is forwarded, its completion afterwards, and the end of  *)
(* the pump.  The main thread polls the child, puts the frames back into   *)
(* the order of their reservations, correlates and records them, and shuts *)
(* everything down.                                                        *)
(***************************************************************************)
EXTENDS Correlator, SequencesExt

CONSTANTS PipeCap,       \* frames that fit into a pipe
          CancelVisible, \* a write sees the cancellation (Windows: TRUE, Unix: FALSE)
          Habits         \* what a behaviour's surroundings may do

\* frames bounds what agent and server write; the chatty peers write frames that
\* are no calls, the leaving ones may leave, and reading a frame and appending a
\* record may fail.
ASSUME ShimAssumption ==
    /\ Keys # {}
    /\ PipeCap \in Nat /\ CancelVisible \in BOOLEAN
    /\ Habits \subseteq [frames : Nat, chatty : SUBSET {"agent", "child"},
                         leaving : SUBSET {"agent", "child"}, fails : BOOLEAN]

Directions == {"outbound", "inbound"}

VARIABLES
    habits,       \* of the agent, the server and the files; never changes
    agent,        \* the MCP client: running, open requests, frames sent and received
    child,        \* the server: running, requests to answer, frames sent and received
    sent,         \* number of frames written so far, which names them
    source,       \* what a pump reads: the agent's stdin side, the child's stdout
    destination,  \* what a pump writes: the child's stdin, the agent's stdout
    pump,         \* the pump threads
    channel,      \* mpsc channel of events
    nextSequence, \* EventSender.next_sequence
    order,        \* FrameOrder
    correlator,
    journal,      \* the records appended to the store
    handled,      \* auxiliary: the frames handed to the correlator, in order
    main          \* local state of run

vars == <<habits, agent, child, sent, source, destination, pump, channel,
          nextSequence, order, correlator, journal, handled, main>>

peers == <<habits, agent, child, sent>>
recorder == <<order, correlator, journal, handled>>

\* known holds every frame the sender had sent or received when it sent this.
NewFrame(kind, key, call, peer) ==
    [uid |-> sent + 1, kind |-> kind, key |-> key, call |-> call,
     known |-> peer.sent \cup peer.received]

Frames == [uid : Nat, kind : Kinds, key : Keys, call : Nat, known : SUBSET Nat]

NoKey == CHOOSE k \in Keys : TRUE

Init ==
    /\ habits \in Habits
    /\ agent = [up |-> TRUE, open |-> [k \in Keys |-> 0], sent |-> {}, received |-> {}]
    /\ child = [up |-> TRUE, todo |-> {}, sent |-> {}, received |-> {}]
    /\ sent = 0
    /\ source = [d \in Directions |-> <<>>]
    /\ destination = [d \in Directions |-> <<>>]
    /\ pump = [d \in Directions |->
                 [pc |-> "reading", frame |-> {}, sequence |-> 0,
                  cancel |-> FALSE, failure |-> "none"]]
    /\ channel = <<>>
    /\ nextSequence = 0
    /\ order = [reservation |-> 0, ready |-> 0, pending |-> <<>>]
    /\ correlator = NoPending
    /\ journal = <<>>
    /\ handled = <<>>
    /\ main = [pc |-> "poll", exited |-> FALSE, outputFinished |-> FALSE,
               operationError |-> FALSE, recordingError |-> FALSE,
               inputCancelled |-> FALSE, outputCancelled |-> FALSE]

-----------------------------------------------------------------------------
(* The agent and the server.  The agent reuses a request id once it has the  *)
(* response; the server answers a request once.                              *)

Write(d, frame) ==
    /\ sent < habits.frames
    /\ Len(source[d]) < PipeCap
    /\ sent' = sent + 1
    /\ source' = [source EXCEPT ![d] = Append(@, frame)]

AgentRequests(key) ==
    /\ agent.up /\ agent.open[key] = 0
    /\ LET frame == NewFrame("request", key, sent + 1, agent)
       IN  /\ Write("outbound", frame)
           /\ agent' = [agent EXCEPT !.open[key] = frame.call, !.sent = @ \cup {frame.uid}]
    /\ UNCHANGED <<habits, child, destination, pump, channel, nextSequence, recorder, main>>

AgentMutters ==
    /\ "agent" \in habits.chatty /\ agent.up
    /\ LET frame == NewFrame("unparsed", NoKey, 0, agent)
       IN  /\ Write("outbound", frame)
           /\ agent' = [agent EXCEPT !.sent = @ \cup {frame.uid}]
    /\ UNCHANGED <<habits, child, destination, pump, channel, nextSequence, recorder, main>>

AgentReceives ==
    /\ agent.up /\ destination["inbound"] # <<>>
    /\ LET frame == Head(destination["inbound"])
       IN  agent' = [agent EXCEPT
                       !.received = @ \cup {frame.uid},
                       !.open = [k \in Keys |-> IF frame.kind = "response" /\ k = frame.key
                                                THEN 0 ELSE @[k]]]
    /\ destination' = [destination EXCEPT !["inbound"] = Tail(@)]
    /\ UNCHANGED <<habits, child, sent, source, pump, channel, nextSequence, recorder, main>>

\* The agent closes its ends; frames on their way to it are lost.
AgentLeaves ==
    /\ "agent" \in habits.leaving /\ agent.up
    /\ agent' = [agent EXCEPT !.up = FALSE]
    /\ destination' = [destination EXCEPT !["inbound"] = <<>>]
    /\ UNCHANGED <<habits, child, sent, source, pump, channel, nextSequence, recorder, main>>

ChildReceives ==
    /\ child.up /\ destination["outbound"] # <<>>
    /\ LET frame == Head(destination["outbound"])
       IN  child' = [child EXCEPT
                       !.received = @ \cup {frame.uid},
                       !.todo = IF frame.kind = "request" THEN @ \cup {frame} ELSE @]
    /\ destination' = [destination EXCEPT !["outbound"] = Tail(@)]
    /\ UNCHANGED <<habits, agent, sent, source, pump, channel, nextSequence, recorder, main>>

ChildResponds(request) ==
    /\ child.up
    /\ LET frame == NewFrame("response", request.key, request.call, child)
       IN  /\ Write("inbound", frame)
           /\ child' = [child EXCEPT !.todo = @ \ {request}, !.sent = @ \cup {frame.uid}]
    /\ UNCHANGED <<habits, agent, destination, pump, channel, nextSequence, recorder, main>>

ChildNotifies ==
    /\ "child" \in habits.chatty /\ child.up
    /\ LET frame == NewFrame("notification", NoKey, 0, child)
       IN  /\ Write("inbound", frame)
           /\ child' = [child EXCEPT !.sent = @ \cup {frame.uid}]
    /\ UNCHANGED <<habits, agent, destination, pump, channel, nextSequence, recorder, main>>

\* The child exits by itself; what it did not read is lost.
ChildExits ==
    /\ "child" \in habits.leaving /\ child.up
    /\ child' = [child EXCEPT !.up = FALSE]
    /\ destination' = [destination EXCEPT !["outbound"] = <<>>]
    /\ UNCHANGED <<habits, agent, sent, source, pump, channel, nextSequence, recorder, main>>

-----------------------------------------------------------------------------
(* The pumps.                                                                *)
(* A definition named after what it gets wrong is a mutated form of the one  *)
(* that follows: a plausible bug in the code, which a property must notice.  *)

Reserved(n, d, frame) ==
    [type |-> "reserved", sequence |-> n, direction |-> d, frame |-> {frame}, failed |-> FALSE]
Forwarded(n, d) ==
    [type |-> "forwarded", sequence |-> n, direction |-> d, frame |-> {}, failed |-> FALSE]
Finished(d) ==
    [type |-> "finished", sequence |-> 0, direction |-> d, frame |-> {},
     failed |-> pump[d].failure # "none"]

SourceClosed(d) == IF d = "outbound" THEN ~agent.up ELSE ~child.up
Broken(d) == IF d = "outbound" THEN ~child.up ELSE ~agent.up

\* read_frame and reserve_frame: the sequence number is taken and the event
\* sent under one lock, before the frame is forwarded.
TakeFrame(d) ==
    /\ source' = [source EXCEPT ![d] = Tail(@)]
    /\ channel' = Append(channel, Reserved(nextSequence, d, Head(source[d])))
    /\ nextSequence' = nextSequence + 1
    /\ pump' = [pump EXCEPT ![d] = [@ EXCEPT !.pc = "forwarding", !.frame = {Head(source[d])},
                                             !.sequence = nextSequence]]
    /\ UNCHANGED <<peers, destination, recorder, main>>

ReserveHoldingTheLock(d) ==
    /\ \A other \in Directions \ {d} : pump[other].pc \notin {"forwarding", "completing"}
    /\ pump[d].pc = "reading" /\ source[d] # <<>> /\ TakeFrame(d)

\* Frames that are already buffered are read even after a cancellation.
Reserve(d) == pump[d].pc = "reading" /\ source[d] # <<>> /\ TakeFrame(d)

\* End of input, or the cancellation is seen while waiting for input.
StopReading(d) ==
    /\ pump[d].pc = "reading"
    /\ pump[d].cancel \/ (source[d] = <<>> /\ SourceClosed(d))
    /\ pump' = [pump EXCEPT ![d] = [@ EXCEPT !.pc = "finishing"]]
    /\ UNCHANGED <<peers, source, destination, channel, nextSequence, recorder, main>>

\* An I/O error, or a frame that exceeds the limit.
ReadFails(d) ==
    /\ habits.fails
    /\ pump[d].pc = "reading"
    /\ pump' = [pump EXCEPT ![d] = [@ EXCEPT !.pc = "finishing", !.failure = "read"]]
    /\ UNCHANGED <<peers, source, destination, channel, nextSequence, recorder, main>>

Forward(d) ==
    /\ pump[d].pc = "forwarding"
    /\ ~Broken(d) /\ Len(destination[d]) < PipeCap
    /\ \E frame \in pump[d].frame :
          destination' = [destination EXCEPT ![d] = Append(@, frame)]
    /\ pump' = [pump EXCEPT ![d] = [@ EXCEPT !.pc = "completing"]]
    /\ UNCHANGED <<peers, source, channel, nextSequence, recorder, main>>

\* forward_or_cancel: a failing write is no failure if the pump can see that it
\* was cancelled.  "aborted" is a failure of a pump already cancelled.
ForwardFails(d) ==
    /\ pump[d].pc = "forwarding"
    /\ Broken(d)
    /\ pump' = [pump EXCEPT ![d] =
                  [@ EXCEPT !.pc = "finishing",
                            !.failure = IF ~pump[d].cancel THEN "write"
                                        ELSE IF CancelVisible THEN "none" ELSE "aborted"]]
    /\ UNCHANGED <<peers, source, destination, channel, nextSequence, recorder, main>>

Complete(d) ==
    /\ pump[d].pc = "completing"
    /\ channel' = Append(channel, Forwarded(pump[d].sequence, d))
    /\ pump' = [pump EXCEPT ![d] = [@ EXCEPT !.pc = "reading", !.frame = {}]]
    /\ UNCHANGED <<peers, source, destination, nextSequence, recorder, main>>

\* spawn_pump: whatever ended the pump, it reports so last.
Finish(d) ==
    /\ pump[d].pc = "finishing"
    /\ channel' = Append(channel, Finished(d))
    /\ pump' = [pump EXCEPT ![d] = [@ EXCEPT !.pc = "done", !.frame = {}]]
    /\ UNCHANGED <<peers, source, destination, nextSequence, recorder, main>>

Pump(d) ==
    \/ Reserve(d) \/ StopReading(d)
    \/ Forward(d) \/ ForwardFails(d) \/ Complete(d) \/ Finish(d)

-----------------------------------------------------------------------------
(* The main thread: FrameOrder and the correlator.                           *)

\* An event FrameOrder::reserve or FrameOrder::complete returns no error for.
Accepts(event) ==
    CASE event.type = "reserved" -> event.sequence = order.reservation
      [] event.type = "forwarded" -> /\ event.sequence \in DOMAIN order.pending
                                     /\ order.pending[event.sequence].state = "reserved"
      [] OTHER -> TRUE

NextReservation(event) ==
    IF event.type = "reserved" /\ Accepts(event) THEN order.reservation + 1
                                                 ELSE order.reservation

Entry(state, d, frame) == [state |-> state, direction |-> d, frame |-> frame]

\* What retire_unfinished retires when a pump has finished.
RetiresAnyDirection(event, entry) == entry.state = "reserved"
Retires(event, entry) == entry.state = "reserved" /\ entry.direction = event.direction

\* reserve, complete and retire_unfinished.
Pending(event) ==
    CASE event.type = "reserved" ->
            [n \in DOMAIN order.pending \cup {event.sequence} |->
                IF n = event.sequence THEN Entry("reserved", event.direction, event.frame)
                                      ELSE order.pending[n]]
      [] event.type = "forwarded" ->
            [order.pending EXCEPT ![event.sequence].state = "forwarded"]
      [] event.type = "finished" ->
            [n \in DOMAIN order.pending |->
                IF Retires(event, order.pending[n])
                THEN Entry("retired", order.pending[n].direction, {})
                ELSE order.pending[n]]

Arrived(event) == IF Accepts(event) THEN Pending(event) ELSE order.pending

\* drain_ready: the frames before the first one still being forwarded.
ReadyInAnyOrder(pending) == {n \in DOMAIN pending : pending[n].state # "reserved"}

Ready(pending) ==
    {n \in DOMAIN pending :
       /\ order.ready <= n
       /\ \A k \in order.ready .. n : k \in DOMAIN pending /\ pending[k].state # "reserved"}

\* Retired frames are dropped, the others handed on in sequence.
Drained(pending) ==
    LET forwarded == {n \in Ready(pending) : pending[n].state = "forwarded"}
    IN  [k \in 1 .. Cardinality(forwarded) |->
           pending[CHOOSE n \in forwarded :
                      Cardinality({i \in forwarded : i <= n}) = k]]

\* The correlator sees one frame of a direction.
Correlate(c, entry) ==
    LET frame == CHOOSE f \in entry.frame : TRUE
    IN  IF entry.direction = "outbound" /\ frame.kind # "unparsed"
        THEN [state |-> OnOutbound(c.state, frame), records |-> c.records]
        ELSE [state |-> OnInbound(c.state, frame), records |-> c.records \o Recorded(c.state, frame)]

\* handle_event: the order is updated, and what became ready is recorded.  The
\* first error of append_record is kept for the end, and recording goes on.
HandleEvent(event, next) ==
    /\ channel' = Tail(channel)
    /\ LET pending == Arrived(event)
           entries == Drained(pending)
           result == FoldLeft(Correlate, [state |-> correlator, records |-> <<>>], entries)
       IN  /\ order' = [reservation |-> NextReservation(event),
                        ready |-> order.ready + Cardinality(Ready(pending)),
                        pending |-> [n \in DOMAIN pending \ Ready(pending) |-> pending[n]]]
           /\ correlator' = result.state
           /\ handled' = handled \o [k \in DOMAIN entries |->
                                       CHOOSE f \in entries[k].frame : TRUE]
           /\ \E failed \in {FALSE, habits.fails /\ result.records # <<>>} :
                 /\ journal' = IF failed THEN journal ELSE journal \o result.records
                 /\ main' = [main EXCEPT
                       !.pc = next,
                       !.outputFinished = @ \/ (event.type = "finished" /\ event.direction = "inbound"),
                       !.operationError = @ \/ event.failed \/ ~Accepts(event),
                       !.recordingError = @ \/ failed]
    /\ UNCHANGED <<peers, source, destination, pump, nextSequence>>

-----------------------------------------------------------------------------
(* The main thread: run and shutdown_pumps_and_drain.                        *)

\* The pumps once those of the directions have been asked to stop.
Cancelled(directions) ==
    [d \in Directions |-> [pump[d] EXCEPT !.cancel = @ \/ d \in directions]]

CancelsOnlyAfterFailure(exited, failed) == IF failed THEN Directions ELSE {}
Cancels(exited, failed) ==
    IF failed THEN Directions ELSE IF exited THEN {"outbound"} ELSE {}

\* One iteration up to recv_timeout.  The end of the child ends the input pump
\* too; the output pump goes on to the end of the child's output.
Poll ==
    /\ main.pc = "poll"
    /\ LET exited == main.exited \/ ~child.up
           failed == main.operationError /\ ~(exited /\ main.outputFinished)
           next == IF exited /\ main.outputFinished THEN "drain"
                   ELSE IF main.operationError THEN "stop" ELSE "receive"
       IN  /\ pump' = Cancelled(Cancels(exited, failed))
           /\ main' = [main EXCEPT !.pc = next, !.exited = exited \/ failed,
                          !.inputCancelled = @ \/ exited \/ failed,
                          !.outputCancelled = @ \/ failed]
           \* cleanup_after_error kills a child that still runs and reaps it.
           /\ child' = [child EXCEPT !.up = @ /\ ~failed]
           /\ destination' = IF failed THEN [destination EXCEPT !["outbound"] = <<>>]
                                       ELSE destination
    /\ UNCHANGED <<habits, agent, sent, source, channel, nextSequence, recorder>>

Receive ==
    /\ main.pc = "receive" /\ channel # <<>>
    /\ HandleEvent(Head(channel), "poll")

Timeout ==
    /\ main.pc = "receive" /\ channel = <<>>
    /\ main' = [main EXCEPT !.pc = "poll"]
    /\ UNCHANGED <<peers, source, destination, pump, channel, nextSequence, recorder>>

\* The child is gone and its output is complete: what the channel holds is
\* handled at once.
Drain ==
    /\ main.pc = "drain" /\ channel # <<>>
    /\ HandleEvent(Head(channel), "drain")

DrainEnds ==
    /\ main.pc = "drain" /\ channel = <<>>
    /\ main' = [main EXCEPT !.pc = "stop"]
    /\ UNCHANGED <<peers, source, destination, pump, channel, nextSequence, recorder>>

Stop ==
    /\ main.pc = "stop"
    /\ pump' = Cancelled({d \in Directions :
                   IF d = "outbound" THEN ~main.inputCancelled
                   ELSE main.operationError /\ ~main.outputCancelled})
    /\ main' = [main EXCEPT !.pc = "joinOutput"]
    /\ UNCHANGED <<peers, source, destination, channel, nextSequence, recorder>>

\* join_finished_pump: a failure the pump ended with is an operation error.
Join(d, pc, next) ==
    /\ main.pc = pc /\ pump[d].pc = "done"
    /\ main' = [main EXCEPT !.pc = next, !.operationError = @ \/ pump[d].failure # "none"]
    /\ UNCHANGED <<peers, source, destination, pump, channel, nextSequence, recorder>>

RestForgotten ==
    /\ main.pc = "rest" /\ channel # <<>>
    /\ main' = [main EXCEPT !.pc = "done"]
    /\ UNCHANGED <<peers, source, destination, pump, channel, nextSequence, recorder>>

\* What arrived while the pumps were joined.
Rest ==
    /\ main.pc = "rest" /\ channel # <<>>
    /\ HandleEvent(Head(channel), "rest")

RestEnds ==
    /\ main.pc = "rest" /\ channel = <<>>
    /\ main' = [main EXCEPT !.pc = "done"]
    /\ UNCHANGED <<peers, source, destination, pump, channel, nextSequence, recorder>>

Main ==
    \/ Poll \/ Receive \/ Timeout \/ Drain \/ DrainEnds \/ Stop
    \/ Join("inbound", "joinOutput", "joinInput")
    \/ Join("outbound", "joinInput", "rest")
    \/ Rest \/ RestEnds

Peers ==
    \/ \E key \in Keys : AgentRequests(key)
    \/ AgentMutters \/ AgentReceives \/ AgentLeaves
    \/ ChildReceives \/ ChildNotifies \/ ChildExits
    \/ \E request \in child.todo : ChildResponds(request)

\* run returned, and the child and the pumps are gone.
Returned == main.pc = "done" /\ UNCHANGED vars

Next == Main \/ (\E d \in Directions : Pump(d) \/ ReadFails(d)) \/ Peers \/ Returned

Spec == Init /\ [][Next]_vars

\* The threads are scheduled, though no read needs to fail, the agent reads
\* what it is sent, and a server exits after the end of its input.
ChildEnds == pump["outbound"].pc = "done" /\ ChildExits

Fairness ==
    /\ WF_vars(Main)
    /\ \A d \in Directions : WF_vars(Pump(d))
    /\ WF_vars(AgentReceives)
    /\ WF_vars(ChildEnds)

FairSpec == Spec /\ Fairness
-----------------------------------------------------------------------------
(* Properties.                                                               *)

Events == [type : {"reserved", "forwarded", "finished"}, sequence : Nat,
           direction : Directions, frame : SUBSET Frames, failed : BOOLEAN]

Entries == [state : {"reserved", "forwarded", "retired"}, direction : Directions,
            frame : SUBSET Frames]

Pumps == [pc : {"reading", "forwarding", "completing", "finishing", "done"},
          frame : SUBSET Frames, sequence : Nat, cancel : BOOLEAN,
          failure : {"none", "read", "write", "aborted"}]

\* Types of what the peers and the threads share; only frames that have been
\* reserved are pending.
TypeOK ==
    /\ agent \in [up : BOOLEAN, open : [Keys -> Nat], sent : SUBSET Nat, received : SUBSET Nat]
    /\ child \in [up : BOOLEAN, todo : SUBSET Frames, sent : SUBSET Nat, received : SUBSET Nat]
    /\ sent \in Nat /\ nextSequence \in Nat
    /\ source \in [Directions -> Seq(Frames)]
    /\ destination \in [Directions -> Seq(Frames)]
    /\ pump \in [Directions -> Pumps]
    /\ channel \in Seq(Events)
    /\ order.reservation \in Nat /\ order.ready \in Nat
    /\ order.pending \in [DOMAIN order.pending -> Entries]
    /\ DOMAIN order.pending \subseteq 0 .. order.reservation - 1

\* FrameOrder never refuses an event: whatever the two pumps do, reservations
\* arrive gapless and in sequence, and a completion finds its reservation open,
\* not completed twice and not retired by the end of its pump.
EventsAccepted == channel # <<>> => Accepts(Head(channel))

\* Frames are correlated in causal order: everything the sender of a frame had
\* sent or received before is handed to the correlator before that frame, so
\* that a request cannot overtake the response that triggered it.
CausalOrder ==
    \A j \in 1 .. Len(handled) :
        handled[j].known \subseteq {handled[i].uid : i \in 1 .. j - 1}

\* A call record pairs a response with the request it answers, although the
\* agent reuses request ids as soon as it has the response.
CallsPaired ==
    \A k \in 1 .. Len(journal) :
        journal[k].method = "call" => journal[k].call = journal[k].answer

\* Shutdown loses nothing: when run returns the child's status, every frame a
\* peer received was correlated, and no record of it failed to be appended.
StatusMeansRecorded ==
    main.pc = "done" /\ ~main.operationError /\ ~main.recordingError =>
        /\ agent.received \cup child.received \subseteq
              {handled[k].uid : k \in 1 .. Len(handled)}
        /\ Len(journal) = correlator.seq

\* The shim ends when the server has exited, or the agent has gone, though a
\* pump waits for input or is half way through a frame, unless a server that
\* runs on leaves the pipe to it full for ever.
Terminates ==
    LET stuffed == child.up /\ Len(destination["outbound"]) = PipeCap
    IN  []<>((child.up /\ agent.up) \/ main.pc = "done" \/ stuffed)

\* What the server writes reaches an agent that reads, also while the server
\* itself does not read and the other pump is stuck on its full pipe.
OutputDelivered ==
    []<>(child.sent \subseteq agent.received \/ ~agent.up \/ main.pc = "done")

\* A pump whose cancellation was requested does not fail because the write it
\* was in is aborted (shim/tests.rs, cancellation_suppresses_an_aborted_pump_write).
AbortedWritesSuppressed == \A d \in Directions : pump[d].failure # "aborted"
=============================================================================
