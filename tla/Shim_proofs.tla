---------------------------- MODULE Shim_proofs ----------------------------
(***************************************************************************)
(* Proofs about Shim, for any number of frames and any size of the pipes.  *)
(*                                                                         *)
(* EventsAccepted speaks of the head of the channel only.  The invariant   *)
(* that implies it follows a reservation through the system: its number is *)
(* in the channel, or among the pending frames, and it stays open there as *)
(* long as its pump still forwards the frame or the completion is on its   *)
(* way (Open); a pump sends nothing after the end it reports.              *)
(***************************************************************************)
EXTENDS Shim, FiniteSetTheorems, SequenceTheorems, WellFoundedInduction, TLAPS

Position == 1 .. Len(channel)

Event(k, type) == channel[k].type = type

\* The entry waits for its completion.
Waiting(pending, n, d) ==
    n \in DOMAIN pending /\ pending[n].state = "reserved" /\ pending[n].direction = d

\* The reservation is ahead of position k in the channel, or pending.
Open(n, d, k) ==
    \/ \E i \in Position : i < k /\ Event(i, "reserved")
                                 /\ channel[i].sequence = n /\ channel[i].direction = d
    \/ Waiting(order.pending, n, d)

\* The reservations in the channel are those after the handled ones, ascending.
ReservedInv ==
    /\ order.reservation <= nextSequence
    /\ \A k \in Position : Event(k, "reserved") =>
          channel[k].sequence \in order.reservation .. nextSequence - 1
    /\ \A n \in order.reservation .. nextSequence - 1 :
          \E k \in Position : Event(k, "reserved") /\ channel[k].sequence = n
    /\ \A i, j \in Position : i < j /\ Event(i, "reserved") /\ Event(j, "reserved") =>
          channel[i].sequence < channel[j].sequence

\* A completion on its way finds its reservation open, is the only one, and
\* precedes the end of its pump.
ForwardedInv ==
    \A k \in Position : Event(k, "forwarded") =>
        /\ Open(channel[k].sequence, channel[k].direction, k)
        /\ \A i \in Position : Event(i, "forwarded") /\ i # k =>
              channel[i].sequence # channel[k].sequence
        /\ \A i \in Position : i < k =>
              ~(Event(i, "finished") /\ channel[i].direction = channel[k].direction)

\* The reservation of a frame being forwarded is open and not yet completed.
PumpInv ==
    \A d \in Directions :
        /\ pump[d].pc # "done" =>
              \A k \in Position : ~(Event(k, "finished") /\ channel[k].direction = d)
        /\ pump[d].pc \in {"forwarding", "completing"} =>
              /\ Open(pump[d].sequence, d, Len(channel) + 1)
              /\ \A k \in Position : Event(k, "forwarded") =>
                    channel[k].sequence # pump[d].sequence

IInv == TypeOK /\ ReservedInv /\ ForwardedInv /\ PumpInv

-----------------------------------------------------------------------------
(* Type correctness.                                                        *)

LEMMA InitType == Init => TypeOK
BY ShimAssumption DEF Init, TypeOK, Directions, Pumps

LEMMA NewFrameType ==
  ASSUME TypeOK, NEW kind \in Kinds, NEW key \in Keys, NEW call \in Nat, NEW peer,
         peer.sent \subseteq Nat, peer.received \subseteq Nat
  PROVE  NewFrame(kind, key, call, peer) \in Frames
BY DEF TypeOK, NewFrame, Frames

\* The peers write frames and read them; the shim's own state is untouched.
LEMMA PeersType == TypeOK /\ Peers => TypeOK'
<1> SUFFICES ASSUME TypeOK, Peers PROVE TypeOK'
  OBVIOUS
<1>0. NoKey \in Keys
  BY ShimAssumption DEF NoKey
<1>w. ASSUME NEW d \in Directions, NEW frame \in Frames, Write(d, frame)
      PROVE  sent' \in Nat /\ source' \in [Directions -> Seq(Frames)]
  BY <1>w DEF Write, TypeOK
<1>1. ASSUME NEW key \in Keys, AgentRequests(key) PROVE TypeOK'
  <2> DEFINE frame == NewFrame("request", key, sent + 1, agent)
  <2>0. sent + 1 \in Nat /\ agent.sent \subseteq Nat /\ agent.received \subseteq Nat
    BY DEF TypeOK
  <2>1. frame \in Frames
    BY <2>0, NewFrameType DEF Kinds
  <2>2. sent' \in Nat /\ source' \in [Directions -> Seq(Frames)]
    BY <1>1, <1>w, <2>1 DEF AgentRequests, Directions
  <2>3. frame.call \in Nat /\ frame.uid \in Nat
    BY <2>1 DEF Frames
  <2>4. agent' = [agent EXCEPT !.open = [@ EXCEPT ![key] = frame.call],
                               !.sent = @ \cup {frame.uid}]
    BY <1>1 DEF AgentRequests
  <2> HIDE DEF frame
  <2>5. agent' \in [up : BOOLEAN, open : [Keys -> Nat], sent : SUBSET Nat, received : SUBSET Nat]
    BY <2>3, <2>4 DEF TypeOK
  <2> QED
    BY <1>1, <2>2, <2>5 DEF AgentRequests, TypeOK, recorder
<1>2. ASSUME AgentMutters PROVE TypeOK'
  <2> DEFINE frame == NewFrame("unparsed", NoKey, 0, agent)
  <2>1. frame \in Frames
    BY <1>0, NewFrameType DEF TypeOK, Kinds
  <2>2. sent' \in Nat /\ source' \in [Directions -> Seq(Frames)]
    BY <1>2, <1>w, <2>1 DEF AgentMutters, Directions
  <2>3. agent' \in [up : BOOLEAN, open : [Keys -> Nat], sent : SUBSET Nat, received : SUBSET Nat]
    BY <1>2, <2>1 DEF AgentMutters, TypeOK, Frames
  <2> QED
    BY <1>2, <2>2, <2>3 DEF AgentMutters, TypeOK, recorder
<1>3. ASSUME AgentReceives PROVE TypeOK'
  <2>1. Head(destination["inbound"]) \in Frames /\ Tail(destination["inbound"]) \in Seq(Frames)
    BY <1>3 DEF AgentReceives, TypeOK, Directions
  <2>2. agent' \in [up : BOOLEAN, open : [Keys -> Nat], sent : SUBSET Nat, received : SUBSET Nat]
    BY <1>3, <2>1 DEF AgentReceives, TypeOK, Frames
  <2>3. destination' \in [Directions -> Seq(Frames)]
    BY <1>3, <2>1 DEF AgentReceives, TypeOK
  <2> QED
    BY <1>3, <2>2, <2>3 DEF AgentReceives, TypeOK, recorder
<1>4. ASSUME ChildReceives PROVE TypeOK'
  <2>1. Head(destination["outbound"]) \in Frames /\ Tail(destination["outbound"]) \in Seq(Frames)
    BY <1>4 DEF ChildReceives, TypeOK, Directions
  <2>2. child' \in [up : BOOLEAN, todo : SUBSET Frames, sent : SUBSET Nat, received : SUBSET Nat]
    BY <1>4, <2>1 DEF ChildReceives, TypeOK, Frames
  <2>3. destination' \in [Directions -> Seq(Frames)]
    BY <1>4, <2>1 DEF ChildReceives, TypeOK
  <2> QED
    BY <1>4, <2>2, <2>3 DEF ChildReceives, TypeOK, recorder
<1>5. ASSUME NEW request \in child.todo, ChildResponds(request) PROVE TypeOK'
  <2> DEFINE frame == NewFrame("response", request.key, request.call, child)
  <2>0. request \in Frames
    BY DEF TypeOK
  <2>1. frame \in Frames
    BY <2>0, NewFrameType DEF TypeOK, Kinds, Frames
  <2>2. sent' \in Nat /\ source' \in [Directions -> Seq(Frames)]
    BY <1>5, <1>w, <2>1 DEF ChildResponds, Directions
  <2>3. child' \in [up : BOOLEAN, todo : SUBSET Frames, sent : SUBSET Nat, received : SUBSET Nat]
    BY <1>5, <2>1 DEF ChildResponds, TypeOK, Frames
  <2> QED
    BY <1>5, <2>2, <2>3 DEF ChildResponds, TypeOK, recorder
<1>6. ASSUME ChildNotifies PROVE TypeOK'
  <2> DEFINE frame == NewFrame("notification", NoKey, 0, child)
  <2>1. frame \in Frames
    BY <1>0, NewFrameType DEF TypeOK, Kinds
  <2>2. sent' \in Nat /\ source' \in [Directions -> Seq(Frames)]
    BY <1>6, <1>w, <2>1 DEF ChildNotifies, Directions
  <2>3. child' \in [up : BOOLEAN, todo : SUBSET Frames, sent : SUBSET Nat, received : SUBSET Nat]
    BY <1>6, <2>1 DEF ChildNotifies, TypeOK, Frames
  <2> QED
    BY <1>6, <2>2, <2>3 DEF ChildNotifies, TypeOK, recorder
<1>7. ASSUME AgentLeaves PROVE TypeOK'
  <2>1. agent' \in [up : BOOLEAN, open : [Keys -> Nat], sent : SUBSET Nat, received : SUBSET Nat]
    BY <1>7 DEF AgentLeaves, TypeOK
  <2>2. destination' \in [Directions -> Seq(Frames)]
    BY <1>7 DEF AgentLeaves, TypeOK, Directions
  <2>3. UNCHANGED <<child, sent, source, pump, channel, nextSequence, order>>
    BY <1>7 DEF AgentLeaves, recorder
  <2> QED
    BY <2>1, <2>2, <2>3 DEF TypeOK
<1>8. ASSUME ChildExits PROVE TypeOK'
  <2>1. child' \in [up : BOOLEAN, todo : SUBSET Frames, sent : SUBSET Nat, received : SUBSET Nat]
    BY <1>8 DEF ChildExits, TypeOK
  <2>2. destination' \in [Directions -> Seq(Frames)]
    BY <1>8 DEF ChildExits, TypeOK, Directions
  <2>3. UNCHANGED <<agent, sent, source, pump, channel, nextSequence, order>>
    BY <1>8 DEF ChildExits, recorder
  <2> QED
    BY <2>1, <2>2, <2>3 DEF TypeOK
<1> QED
  BY <1>1, <1>2, <1>3, <1>4, <1>5, <1>6, <1>7, <1>8 DEF Peers

\* A pump changes itself, and appends at most one event to the channel.
LEMMA PumpType == ASSUME TypeOK, NEW d \in Directions, Pump(d) \/ ReadFails(d)
                  PROVE  TypeOK'
<1> USE DEF peers, recorder
<1>a. pump[d] \in Pumps /\ nextSequence \in Nat
  BY DEF TypeOK
<1>b. ASSUME NEW p \in Pumps, pump' = [pump EXCEPT ![d] = p]
      PROVE  pump' \in [Directions -> Pumps]
  BY <1>b DEF TypeOK
<1>1. ASSUME Reserve(d) PROVE TypeOK'
  <2> DEFINE frame == Head(source[d])
  <2>1. frame \in Frames /\ Tail(source[d]) \in Seq(Frames)
    BY <1>1 DEF Reserve, TypeOK
  <2>2. Reserved(nextSequence, d, frame) \in Events
    BY <2>1 DEF Reserved, Events, TypeOK
  <2>3. source' \in [Directions -> Seq(Frames)]
    BY <1>1, <2>1 DEF Reserve, TakeFrame, TypeOK
  <2>4. channel' \in Seq(Events)
    BY <1>1, <2>2 DEF Reserve, TakeFrame, TypeOK
  <2>5. pump' \in [Directions -> Pumps]
    <3> DEFINE p == [pump[d] EXCEPT !.pc = "forwarding", !.frame = {frame},
                                    !.sequence = nextSequence]
    <3>1. p \in Pumps
      BY <1>a, <2>1 DEF Pumps
    <3>2. pump' = [pump EXCEPT ![d] = p]
      BY <1>1 DEF Reserve, TakeFrame
    <3> QED
      BY <1>b, <3>1, <3>2
  <2>6. nextSequence' \in Nat /\ UNCHANGED <<agent, child, sent, destination, order>>
    BY <1>1 DEF Reserve, TakeFrame, TypeOK
  <2> QED
    BY <2>3, <2>4, <2>5, <2>6 DEF TypeOK
<1>2. ASSUME StopReading(d) \/ ReadFails(d) \/ ForwardFails(d) PROVE TypeOK'
  <2>1. pump' \in [Directions -> Pumps]
    <3> DEFINE p(failure) == [pump[d] EXCEPT !.pc = "finishing", !.failure = failure]
               q == [pump[d] EXCEPT !.pc = "finishing"]
    <3>1. q \in Pumps
      BY <1>a DEF Pumps
    <3>2. \A f \in {"none", "read", "write", "aborted"} : p(f) \in Pumps
      BY <1>a DEF Pumps
    <3>3. CASE StopReading(d)
      BY <1>b, <3>1, <3>3 DEF StopReading
    <3>4. CASE ReadFails(d)
      <4>1. pump' = [pump EXCEPT ![d] = p("read")]
        BY <3>4 DEF ReadFails
      <4> QED
        BY <1>b, <3>2, <4>1
    <3>5. CASE ForwardFails(d)
      <4> DEFINE f == IF ~pump[d].cancel THEN "write"
                      ELSE IF CancelVisible THEN "none" ELSE "aborted"
      <4>1. pump' = [pump EXCEPT ![d] = p(f)]
        BY <3>5 DEF ForwardFails
      <4> QED
        BY <1>b, <3>2, <4>1
    <3> QED
      BY <1>2, <3>3, <3>4, <3>5
  <2>2. UNCHANGED <<agent, child, sent, source, destination, channel, nextSequence, order>>
    BY <1>2 DEF StopReading, ReadFails, ForwardFails
  <2> QED
    BY <2>1, <2>2 DEF TypeOK
<1>3. ASSUME Forward(d) PROVE TypeOK'
  <2>1. PICK frame \in pump[d].frame :
           destination' = [destination EXCEPT ![d] = Append(@, frame)]
    BY <1>3 DEF Forward
  <2>2. frame \in Frames
    BY <2>1 DEF TypeOK, Pumps
  <2>3. destination' \in [Directions -> Seq(Frames)]
    BY <2>1, <2>2 DEF TypeOK
  <2>4. pump' \in [Directions -> Pumps]
    <3>1. [pump[d] EXCEPT !.pc = "completing"] \in Pumps
      BY <1>a DEF Pumps
    <3> QED
      BY <1>3, <1>b, <3>1 DEF Forward
  <2>5. UNCHANGED <<agent, child, sent, source, channel, nextSequence, order>>
    BY <1>3 DEF Forward
  <2> QED
    BY <2>3, <2>4, <2>5 DEF TypeOK
<1>4. ASSUME Complete(d) PROVE TypeOK'
  <2>1. Forwarded(pump[d].sequence, d) \in Events
    BY DEF Forwarded, Events, TypeOK, Pumps
  <2>2. channel' \in Seq(Events)
    BY <1>4, <2>1 DEF Complete, TypeOK
  <2>3. pump' \in [Directions -> Pumps]
    <3>1. [pump[d] EXCEPT !.pc = "reading", !.frame = {}] \in Pumps
      BY <1>a DEF Pumps
    <3> QED
      BY <1>4, <1>b, <3>1 DEF Complete
  <2>4. UNCHANGED <<agent, child, sent, source, destination, nextSequence, order>>
    BY <1>4 DEF Complete
  <2> QED
    BY <2>2, <2>3, <2>4 DEF TypeOK
<1>5. ASSUME Finish(d) PROVE TypeOK'
  <2>1. Finished(d) \in Events
    BY DEF Finished, Events, TypeOK, Pumps
  <2>2. channel' \in Seq(Events)
    BY <1>5, <2>1 DEF Finish, TypeOK
  <2>3. pump' \in [Directions -> Pumps]
    <3>1. [pump[d] EXCEPT !.pc = "done", !.frame = {}] \in Pumps
      BY <1>a DEF Pumps
    <3> QED
      BY <1>5, <1>b, <3>1 DEF Finish
  <2>4. UNCHANGED <<agent, child, sent, source, destination, nextSequence, order>>
    BY <1>5 DEF Finish
  <2> QED
    BY <2>2, <2>3, <2>4 DEF TypeOK
<1> QED
  BY <1>1, <1>2, <1>3, <1>4, <1>5 DEF Pump

-----------------------------------------------------------------------------
(* What handling an event does to the order.                                *)

\* Only finished and retired entries leave; the reserved ones stay as they are.
LEMMA ReadyWaits ==
  ASSUME NEW pending, NEW n, NEW d, Waiting(pending, n, d), n \in Nat, order.ready \in Nat
  PROVE  n \notin Ready(pending)
BY DEF Waiting, Ready

\* The step of the order: how many frames become ready is a number, the entries
\* that remain are those of Arrived, and the others keep their types.
LEMMA HandledOrder ==
  ASSUME TypeOK, NEW event \in Events, NEW next, HandleEvent(event, next)
  PROVE  /\ order'.reservation = NextReservation(event)
         /\ order'.reservation \in Nat /\ order'.ready \in Nat
         /\ order'.pending \in [DOMAIN order'.pending -> Entries]
         /\ DOMAIN order'.pending \subseteq 0 .. order'.reservation - 1
         /\ \A n, d : Waiting(Arrived(event), n, d) => Waiting(order'.pending, n, d)
         /\ channel' = Tail(channel)
         /\ UNCHANGED <<agent, child, sent, source, destination, pump, nextSequence>>
<1> DEFINE pending == Arrived(event)
<1>1. order' = [reservation |-> NextReservation(event),
                ready |-> order.ready + Cardinality(Ready(pending)),
                pending |-> [n \in DOMAIN pending \ Ready(pending) |-> pending[n]]]
  BY DEF HandleEvent
<1>2. NextReservation(event) \in Nat /\ order.reservation <= NextReservation(event)
  BY DEF TypeOK, NextReservation
<1>3. DOMAIN pending \subseteq 0 .. NextReservation(event) - 1
  <2>1. CASE event.type = "reserved" /\ Accepts(event)
    <3>1. event.sequence = order.reservation /\ NextReservation(event) = order.reservation + 1
      BY <2>1 DEF Accepts, NextReservation
    <3>2. DOMAIN pending = DOMAIN order.pending \cup {event.sequence}
      BY <2>1 DEF Arrived, Pending
    <3> QED
      BY <3>1, <3>2 DEF TypeOK
  <2>2. CASE ~(event.type = "reserved" /\ Accepts(event))
    <3>1. DOMAIN pending = DOMAIN order.pending
      BY <2>2 DEF Arrived, Pending, Events
    <3> QED
      BY <3>1, <1>2 DEF TypeOK
  <2> QED
    BY <2>1, <2>2
<1>4. ASSUME NEW n \in DOMAIN pending PROVE pending[n] \in Entries
  <2>1. ASSUME NEW i \in DOMAIN order.pending PROVE order.pending[i] \in Entries
    BY <2>1 DEF TypeOK
  <2>2. CASE ~Accepts(event)
    BY <1>4, <2>1, <2>2 DEF Arrived
  <2>3. CASE Accepts(event) /\ event.type = "reserved"
    <3>1. event.direction \in Directions /\ event.frame \in SUBSET Frames
      BY DEF Events
    <3>2. pending[n] = IF n = event.sequence THEN Entry("reserved", event.direction, event.frame)
                                             ELSE order.pending[n]
      BY <1>4, <2>3 DEF Arrived, Pending
    <3>3. n # event.sequence => n \in DOMAIN order.pending
      BY <1>4, <2>3 DEF Arrived, Pending
    <3> QED
      BY <2>1, <3>1, <3>2, <3>3 DEF Entry, Entries
  <2>4. CASE Accepts(event) /\ event.type = "forwarded"
    <3>1. pending = [order.pending EXCEPT ![event.sequence].state = "forwarded"]
      BY <2>4 DEF Arrived, Pending
    <3>2. n \in DOMAIN order.pending
      BY <1>4, <3>1
    <3>3. pending[n] \in {order.pending[n], [order.pending[n] EXCEPT !.state = "forwarded"]}
      BY <3>1, <3>2
    <3> HIDE DEF pending
    <3> QED
      BY <2>1, <3>2, <3>3 DEF Entries
  <2>5. CASE Accepts(event) /\ event.type = "finished"
    <3>1. n \in DOMAIN order.pending
      BY <1>4, <2>5 DEF Arrived, Pending
    <3>2. pending[n] \in {order.pending[n], Entry("retired", order.pending[n].direction, {})}
      BY <1>4, <2>5, <3>1 DEF Arrived, Pending
    <3> HIDE DEF pending
    <3> QED
      BY <2>1, <3>1, <3>2 DEF Entry, Entries
  <2> QED
    BY <2>2, <2>3, <2>4, <2>5 DEF Events
<1>5. order.ready \in Nat
  BY DEF TypeOK
<1> HIDE DEF pending
<1>6. Cardinality(Ready(pending)) \in Nat
  <2>1. IsFiniteSet(0 .. NextReservation(event) - 1)
    BY <1>2, FS_Interval
  <2>2. Ready(pending) \subseteq 0 .. NextReservation(event) - 1
    BY <1>3 DEF Ready
  <2> QED
    BY <2>1, <2>2, FS_Subset, FS_CardinalityType
<1>7. order'.reservation = NextReservation(event) /\ order'.ready \in Nat
  BY <1>1, <1>5, <1>6
<1>8. order'.pending = [n \in DOMAIN pending \ Ready(pending) |-> pending[n]]
  BY <1>1
<1>9. DOMAIN order'.pending = DOMAIN pending \ Ready(pending)
  BY <1>8
<1>10. order'.pending \in [DOMAIN order'.pending -> Entries]
  BY <1>4, <1>8, <1>9
<1>11. ASSUME NEW n, NEW d, Waiting(pending, n, d) PROVE Waiting(order'.pending, n, d)
  <2>1. n \in Nat
    BY <1>2, <1>3, <1>11 DEF Waiting
  <2>2. n \notin Ready(pending)
    BY <1>5, <1>11, <2>1, ReadyWaits
  <2> QED
    BY <1>8, <1>11, <2>2 DEF Waiting
<1>12. /\ channel' = Tail(channel)
       /\ UNCHANGED <<agent, child, sent, source, destination, pump, nextSequence>>
  BY DEF HandleEvent, peers
<1> QED
  BY <1>2, <1>3, <1>7, <1>9, <1>10, <1>11, <1>12 DEF pending

\* The steps of the main thread that handle the event at the head.
Handling == \E next \in {"poll", "drain", "rest"} : HandleEvent(Head(channel), next)

\* The others may ask pumps to stop, and kill the child.
LEMMA MainSteps ==
  ASSUME Main
  PROVE  \/ channel # <<>> /\ Handling
         \/ /\ UNCHANGED <<agent, sent, source, channel, nextSequence, recorder>>
            /\ child' = child \/ \E up \in BOOLEAN : child' = [child EXCEPT !.up = up]
            /\ \/ destination' = destination
               \/ destination' = [destination EXCEPT !["outbound"] = <<>>]
            /\ \/ pump' = pump
               \/ \E directions \in SUBSET Directions : pump' = Cancelled(directions)
<1> USE DEF peers, recorder
<1>1. CASE Receive \/ Drain \/ Rest
  BY <1>1 DEF Receive, Drain, Rest, Handling
<1>2. CASE Timeout \/ DrainEnds \/ RestEnds \/ Join("inbound", "joinOutput", "joinInput")
             \/ Join("outbound", "joinInput", "rest")
  BY <1>2 DEF Timeout, DrainEnds, RestEnds, Join
<1>3. CASE Stop
  <2> DEFINE stopped == {d \in Directions : IF d = "outbound" THEN ~main.inputCancelled
                            ELSE main.operationError /\ ~main.outputCancelled}
  <2>1. pump' = Cancelled(stopped) /\ stopped \in SUBSET Directions
    BY <1>3 DEF Stop
  <2> QED
    BY <1>3, <2>1 DEF Stop
<1>4. CASE Poll
  <2> DEFINE exited == main.exited \/ ~child.up
             failed == main.operationError /\ ~(exited /\ main.outputFinished)
  <2>1. pump' = Cancelled(Cancels(exited, failed)) /\ Cancels(exited, failed) \in SUBSET Directions
    BY <1>4 DEF Poll, Cancels, Directions
  <2>2. \E up \in BOOLEAN : child' = [child EXCEPT !.up = up]
    <3>1. (child.up /\ ~failed) \in BOOLEAN
      OBVIOUS
    <3> QED
      BY <1>4, <3>1 DEF Poll
  <2>3. \/ destination' = destination
        \/ destination' = [destination EXCEPT !["outbound"] = <<>>]
    BY <1>4 DEF Poll
  <2> QED
    BY <1>4, <2>1, <2>2, <2>3 DEF Poll
<1> QED
  BY <1>1, <1>2, <1>3, <1>4 DEF Main

LEMMA CancelledType ==
  ASSUME TypeOK, NEW directions \in SUBSET Directions
  PROVE  /\ Cancelled(directions) \in [Directions -> Pumps]
         /\ \A d \in Directions : /\ Cancelled(directions)[d].pc = pump[d].pc
                                  /\ Cancelled(directions)[d].sequence = pump[d].sequence
                                  /\ Cancelled(directions)[d].frame = pump[d].frame
                                  /\ Cancelled(directions)[d].failure = pump[d].failure
<1>1. ASSUME NEW d \in Directions
      PROVE  /\ [pump[d] EXCEPT !.cancel = @ \/ d \in directions] \in Pumps
             /\ [pump[d] EXCEPT !.cancel = @ \/ d \in directions].pc = pump[d].pc
             /\ [pump[d] EXCEPT !.cancel = @ \/ d \in directions].sequence = pump[d].sequence
             /\ [pump[d] EXCEPT !.cancel = @ \/ d \in directions].frame = pump[d].frame
             /\ [pump[d] EXCEPT !.cancel = @ \/ d \in directions].failure = pump[d].failure
  <2>1. pump[d] \in Pumps
    BY DEF TypeOK
  <2> QED
    BY <2>1 DEF Pumps
<1> QED
  BY <1>1 DEF Cancelled

LEMMA HeadType == TypeOK /\ channel # <<>> => /\ Head(channel) \in Events
                                              /\ Tail(channel) \in Seq(Events)
BY DEF TypeOK

LEMMA MainType == TypeOK /\ Main => TypeOK'
<1> SUFFICES ASSUME TypeOK, Main PROVE TypeOK'
  OBVIOUS
<1>1. CASE channel # <<>> /\ Handling
  <2>1. PICK next : HandleEvent(Head(channel), next)
    BY <1>1 DEF Handling
  <2>2. Head(channel) \in Events /\ Tail(channel) \in Seq(Events)
    BY <1>1, HeadType
  <2> QED
    BY <2>1, <2>2, HandledOrder DEF TypeOK
<1>2. CASE ~(channel # <<>> /\ Handling)
  <2>1. UNCHANGED <<agent, sent, source, channel, nextSequence, order>>
    BY <1>2, MainSteps DEF recorder
  <2>2. child' \in [up : BOOLEAN, todo : SUBSET Frames, sent : SUBSET Nat, received : SUBSET Nat]
    <3>1. child' = child \/ \E up \in BOOLEAN : child' = [child EXCEPT !.up = up]
      BY <1>2, MainSteps
    <3> QED
      BY <3>1 DEF TypeOK
  <2>3. destination' \in [Directions -> Seq(Frames)]
    <3>1. \/ destination' = destination
          \/ destination' = [destination EXCEPT !["outbound"] = <<>>]
      BY <1>2, MainSteps
    <3>2. destination \in [Directions -> Seq(Frames)] /\ <<>> \in Seq(Frames)
      BY DEF TypeOK
    <3> QED
      BY <3>1, <3>2
  <2>4. pump' \in [Directions -> Pumps]
    <3>1. pump' = pump \/ \E directions \in SUBSET Directions : pump' = Cancelled(directions)
      BY <1>2, MainSteps
    <3> QED
      BY <3>1, CancelledType DEF TypeOK
  <2> QED
    BY <2>1, <2>2, <2>3, <2>4 DEF TypeOK
<1> QED
  BY <1>1, <1>2

LEMMA StepType == TypeOK /\ [Next]_vars => TypeOK'
<1> SUFFICES ASSUME TypeOK, [Next]_vars PROVE TypeOK'
  OBVIOUS
<1>1. CASE UNCHANGED vars
  BY <1>1 DEF vars, TypeOK
<1>2. CASE Returned
  BY <1>2 DEF Returned, vars, TypeOK
<1> QED
  BY <1>1, <1>2, MainType, PumpType, PeersType DEF Next

\* Whatever the peers and the threads do, the shared state keeps its types, and
\* the pending frames are frames that were reserved.
THEOREM TypeCorrect == Spec => []TypeOK
BY InitType, StepType, PTL DEF Spec

-----------------------------------------------------------------------------
(* FrameOrder accepts every event.                                          *)

LEMMA InitInv == Init => IInv
<1> SUFFICES ASSUME Init PROVE IInv
  OBVIOUS
<1>1. channel = <<>> /\ Position = {} /\ nextSequence = 0 /\ order.reservation = 0
  BY DEF Init, Position
<1>2. ReservedInv /\ ForwardedInv
  BY <1>1 DEF ReservedInv, ForwardedInv
<1>3. PumpInv
  BY <1>1 DEF PumpInv, Init
<1> QED
  BY <1>2, <1>3, InitType DEF IInv

LEMMA PositionType ==
  ASSUME TypeOK
  PROVE  /\ Len(channel) \in Nat
         /\ \A k \in Position : k \in Nat /\ channel[k] \in Events
         /\ \A k \in Position : channel[k].sequence \in Nat /\ channel[k].direction \in Directions
<1>1. Len(channel) \in Nat /\ \A k \in Position : k \in Nat /\ channel[k] \in Events
  BY DEF TypeOK, Position
<1> QED
  BY <1>1 DEF Events

\* A number is reserved once, for one direction.
LEMMA OpenOnce ==
  ASSUME TypeOK, ReservedInv, NEW n, NEW d, NEW e, NEW j \in Int, NEW k \in Int,
         Open(n, d, j), Open(n, e, k)
  PROVE  d = e
<1>1. ASSUME NEW i \in Position, Event(i, "reserved"), channel[i].sequence = n
      PROVE  n \in Nat /\ n >= order.reservation /\ n \notin DOMAIN order.pending
  BY <1>1 DEF ReservedInv, TypeOK
<1>2. ASSUME NEW i \in Position, NEW h \in Position, Event(i, "reserved"), Event(h, "reserved"),
             channel[i].sequence = n, channel[h].sequence = n
      PROVE  i = h
  <2>1. i \in Nat /\ h \in Nat /\ n \in Nat
    BY <1>1, <1>2 DEF Position
  <2>2. ~(i < h) /\ ~(h < i)
    BY <1>2, <2>1 DEF ReservedInv
  <2> QED
    BY <2>1, <2>2
<1>3. CASE Waiting(order.pending, n, d)
  <2>1. Waiting(order.pending, n, e)
    BY <1>1, <1>3 DEF Open, Waiting
  <2> QED
    BY <1>3, <2>1 DEF Waiting
<1>4. CASE ~Waiting(order.pending, n, d)
  <2>1. PICK i \in Position : Event(i, "reserved") /\ channel[i].sequence = n
                                                   /\ channel[i].direction = d
    BY <1>4 DEF Open
  <2>2. ~Waiting(order.pending, n, e)
    BY <1>1, <2>1 DEF Waiting
  <2>3. PICK h \in Position : Event(h, "reserved") /\ channel[h].sequence = n
                                                   /\ channel[h].direction = e
    BY <2>2 DEF Open
  <2> QED
    BY <1>2, <2>1, <2>3
<1> QED
  BY <1>3, <1>4

\* An open number has been given out.
LEMMA OpenIsOld ==
  ASSUME TypeOK, ReservedInv, NEW n, NEW d, NEW k, Open(n, d, k)
  PROVE  n \in Nat /\ n < nextSequence
BY DEF Open, Waiting, ReservedInv, TypeOK

\* What neither touches the channel nor the order, nor lets a pump begin to
\* forward, or go on after its end, preserves the invariant.
LEMMA QuietStep ==
  ASSUME ReservedInv, ForwardedInv, PumpInv, UNCHANGED <<channel, nextSequence, order>>,
         \A d \in Directions :
            /\ pump'[d].pc # "done" => pump[d].pc # "done"
            /\ pump'[d].pc \in {"forwarding", "completing"} =>
                  /\ pump[d].pc \in {"forwarding", "completing"}
                  /\ pump'[d].sequence = pump[d].sequence
  PROVE  ReservedInv' /\ ForwardedInv' /\ PumpInv'
<1>1. ReservedInv'
  BY DEF ReservedInv, Position, Event
<1>2. ForwardedInv'
  BY DEF ForwardedInv, Position, Event, Open, Waiting
<1>3. PumpInv'
  BY DEF PumpInv, Position, Event, Open, Waiting
<1> QED
  BY <1>1, <1>2, <1>3

\* The event at the head is one FrameOrder accepts.
LEMMA HeadAccepted == IInv => EventsAccepted
<1> SUFFICES ASSUME IInv, channel # <<>> PROVE Accepts(Head(channel))
  BY DEF EventsAccepted
<1>1. 1 \in Position /\ Head(channel) = channel[1] /\ channel[1] \in Events
  BY DEF IInv, TypeOK, Position
<1>2. CASE Event(1, "reserved")
  <2>1. channel[1].sequence \in order.reservation .. nextSequence - 1
    BY <1>1, <1>2 DEF IInv, ReservedInv
  <2>2. PICK k \in Position : Event(k, "reserved") /\ channel[k].sequence = order.reservation
    <3>1. order.reservation \in order.reservation .. nextSequence - 1
      BY <2>1 DEF IInv, TypeOK
    <3> QED
      BY <3>1 DEF IInv, ReservedInv
  <2>3. k = 1 \/ 1 < k
    BY DEF Position
  <2>4. 1 < k => channel[1].sequence < channel[k].sequence
    BY <1>1, <1>2, <2>2 DEF IInv, ReservedInv
  <2>5. channel[1].sequence = order.reservation
    BY <2>1, <2>2, <2>3, <2>4 DEF IInv, TypeOK
  <2> QED
    BY <1>1, <1>2, <2>5 DEF Accepts, Event
<1>3. CASE Event(1, "forwarded")
  <2>1. Open(channel[1].sequence, channel[1].direction, 1)
    BY <1>1, <1>3 DEF IInv, ForwardedInv
  <2>2. ~ \E i \in Position : i < 1
    BY DEF Position
  <2>3. Waiting(order.pending, channel[1].sequence, channel[1].direction)
    BY <2>1, <2>2 DEF Open
  <2> QED
    BY <1>1, <1>3, <2>3 DEF Accepts, Event, Waiting
<1>4. CASE Event(1, "finished")
  BY <1>1, <1>4 DEF Accepts, Event
<1> QED
  BY <1>1, <1>2, <1>3, <1>4 DEF Event, Events

\* A pump that appends an event: the positions before it are the same.
LEMMA Appended ==
  ASSUME TypeOK, NEW event \in Events, channel' = Append(channel, event)
  PROVE  /\ Len(channel') = Len(channel) + 1
         /\ Position' = Position \cup {Len(channel) + 1}
         /\ \A k \in Position : k < Len(channel) + 1 /\ channel'[k] = channel[k]
         /\ channel'[Len(channel) + 1] = event
         /\ Len(channel) \in Nat
BY DEF TypeOK, Position

\* Open in the state after such a step.
LEMMA OpenKept ==
  ASSUME TypeOK, NEW event \in Events, channel' = Append(channel, event), order' = order,
         NEW n, NEW d, NEW k, Open(n, d, k)
  PROVE  Open(n, d, k)'
<1>1. ASSUME NEW i \in Position PROVE i \in Position' /\ channel'[i] = channel[i]
  BY Appended
<1> QED
  BY <1>1 DEF Open, Event

LEMMA OpenAtEnd ==
  ASSUME TypeOK, NEW event \in Events, channel' = Append(channel, event), order' = order,
         NEW n, NEW d, Open(n, d, Len(channel) + 1)
  PROVE  Open(n, d, Len(channel) + 1)'
<1>1. ASSUME NEW i \in Position
      PROVE  i \in Position' /\ channel'[i] = channel[i] /\ i < Len(channel') + 1
  <2>1. i \in Nat
    BY PositionType
  <2>2. i \in Position' /\ channel'[i] = channel[i] /\ i < Len(channel) + 1
    BY Appended
  <2>3. Len(channel') = Len(channel) + 1 /\ Len(channel) \in Nat
    BY Appended
  <2> QED
    BY <2>1, <2>2, <2>3
<1> QED
  BY <1>1 DEF Open, Event

LEMMA ReserveInv ==
  ASSUME IInv, NEW d \in Directions, Reserve(d)
  PROVE  ReservedInv' /\ ForwardedInv' /\ PumpInv'
<1> DEFINE event == Reserved(nextSequence, d, Head(source[d]))
           last == Len(channel) + 1
<1>1. /\ channel' = Append(channel, event) /\ order' = order
      /\ nextSequence' = nextSequence + 1
      /\ pump[d].pc = "reading"
      /\ pump' = [pump EXCEPT ![d] = [@ EXCEPT !.pc = "forwarding", !.frame = {Head(source[d])},
                                               !.sequence = nextSequence]]
  BY DEF Reserve, TakeFrame, recorder
<1>2. Head(source[d]) \in Frames
  BY DEF Reserve, IInv, TypeOK
<1>3. event \in Events /\ event.type = "reserved" /\ event.sequence = nextSequence
      /\ event.direction = d
  BY <1>2 DEF Reserved, Events, IInv, TypeOK
<1> HIDE DEF event
<1>4. /\ last \in Nat /\ Len(channel') = last /\ Position' = Position \cup {last}
      /\ \A k \in Position : k < last /\ channel'[k] = channel[k] /\ k \in Nat
      /\ channel'[last] = event
  <2>1. TypeOK
    BY DEF IInv
  <2>2. \A k \in Position : k \in Nat
    BY <2>1, PositionType
  <2>3. channel' = Append(channel, event) /\ event \in Events
    BY <1>1, <1>3
  <2>4. /\ Len(channel') = Len(channel) + 1
        /\ Position' = Position \cup {Len(channel) + 1}
        /\ \A k \in Position : k < Len(channel) + 1 /\ channel'[k] = channel[k]
        /\ channel'[Len(channel) + 1] = event
        /\ Len(channel) \in Nat
    BY <2>1, <2>3, Appended
  <2> QED
    BY <2>2, <2>4
<1>5. nextSequence \in Nat /\ order.reservation \in Nat /\ order.reservation <= nextSequence
  BY DEF IInv, TypeOK, ReservedInv
<1> HIDE DEF last
<1>6. ReservedInv'
  <2>1. order'.reservation <= nextSequence'
    BY <1>1, <1>5
  <2>2. ASSUME NEW k \in Position', Event(k, "reserved")'
        PROVE  channel'[k].sequence \in order.reservation .. nextSequence
    <3>1. CASE k = last
      BY <1>3, <1>4, <1>5, <3>1
    <3>2. CASE k # last
      BY <1>4, <1>5, <2>2, <3>2 DEF IInv, ReservedInv, Event
    <3> QED
      BY <3>1, <3>2
  <2>3. ASSUME NEW n \in order.reservation .. nextSequence
        PROVE  \E k \in Position' : Event(k, "reserved")' /\ channel'[k].sequence = n
    <3>1. CASE n = nextSequence
      BY <1>3, <1>4, <3>1 DEF Event
    <3>2. CASE n # nextSequence
      <4>1. n \in order.reservation .. nextSequence - 1
        BY <1>5, <2>3, <3>2
      <4> QED
        BY <1>4, <4>1 DEF IInv, ReservedInv, Event
    <3> QED
      BY <3>1, <3>2
  <2>4. ASSUME NEW i \in Position', NEW j \in Position', i < j,
               Event(i, "reserved")', Event(j, "reserved")'
        PROVE  channel'[i].sequence < channel'[j].sequence
    <3>1. i \in Position /\ channel'[i] = channel[i]
      BY <1>4, <2>4
    <3>2. CASE j = last
      <4>1. channel[i].sequence \in order.reservation .. nextSequence - 1
        BY <2>4, <3>1 DEF IInv, ReservedInv, Event
      <4> QED
        BY <1>3, <1>4, <1>5, <3>1, <3>2, <4>1
    <3>3. CASE j # last
      BY <1>4, <2>4, <3>1, <3>3 DEF IInv, ReservedInv, Event
    <3> QED
      BY <3>2, <3>3
  <2>5. nextSequence' - 1 = nextSequence
    BY <1>1, <1>5
  <2> QED
    BY <1>1, <2>1, <2>2, <2>3, <2>4, <2>5 DEF ReservedInv
<1>7. ForwardedInv'
  <2> SUFFICES ASSUME NEW k \in Position', Event(k, "forwarded")'
               PROVE  /\ Open(channel[k].sequence, channel[k].direction, k)'
                      /\ \A i \in Position' : Event(i, "forwarded")' /\ i # k =>
                            channel'[i].sequence # channel'[k].sequence
                      /\ \A i \in Position' : i < k =>
                            ~(Event(i, "finished")' /\ channel'[i].direction = channel'[k].direction)
    BY DEF ForwardedInv
  <2>1. k \in Position /\ channel'[k] = channel[k] /\ Event(k, "forwarded")
    BY <1>3, <1>4 DEF Event
  <2>2. Open(channel[k].sequence, channel[k].direction, k)
    BY <2>1 DEF IInv, ForwardedInv
  <2>3. Open(channel[k].sequence, channel[k].direction, k)'
    BY <1>1, <1>3, <2>1, <2>2, OpenKept DEF IInv
  <2>4. ASSUME NEW i \in Position', Event(i, "forwarded")' \/ Event(i, "finished")'
        PROVE  i \in Position /\ channel'[i] = channel[i]
    BY <1>3, <1>4, <2>4 DEF Event
  <2> QED
    BY <2>1, <2>3, <2>4 DEF IInv, ForwardedInv, Event
<1>8. PumpInv'
  <2> SUFFICES ASSUME NEW e \in Directions
               PROVE  /\ pump'[e].pc # "done" => \A k \in Position' :
                            ~(Event(k, "finished")' /\ channel'[k].direction = e)
                      /\ pump'[e].pc \in {"forwarding", "completing"} =>
                            /\ Open(pump[e].sequence, e, Len(channel) + 1)'
                            /\ \A k \in Position' : Event(k, "forwarded")' =>
                                  channel'[k].sequence # pump'[e].sequence
    BY DEF PumpInv
  <2>1. ASSUME NEW i \in Position', Event(i, "forwarded")' \/ Event(i, "finished")'
        PROVE  i \in Position /\ channel'[i] = channel[i]
    BY <1>3, <1>4, <2>1 DEF Event
  <2>2. ASSUME NEW i \in Position, Event(i, "forwarded") PROVE channel[i].sequence < nextSequence
    BY <2>2, OpenIsOld DEF IInv, ForwardedInv
  <2>3. pump[d] \in Pumps /\ pump[e] \in Pumps /\ pump \in [Directions -> Pumps]
    BY DEF IInv, TypeOK
  <2>4. CASE e = d
    <3>1. pump'[e].pc = "forwarding" /\ pump'[e].sequence = nextSequence
      BY <1>1, <2>3, <2>4 DEF Pumps
    <3>2. Open(pump[e].sequence, e, Len(channel) + 1)'
      BY <1>3, <1>4, <2>4, <3>1 DEF Open, Event
    <3>3. \A k \in Position' : ~(Event(k, "finished")' /\ channel'[k].direction = e)
      <4>1. \A k \in Position : ~(Event(k, "finished") /\ channel[k].direction = e)
        BY <1>1, <2>4 DEF IInv, PumpInv
      <4> QED
        BY <2>1, <4>1 DEF Event
    <3>4. \A k \in Position' : Event(k, "forwarded")' => channel'[k].sequence # pump'[e].sequence
      <4>1. \A k \in Position : Event(k, "forwarded") => channel[k].sequence # nextSequence
        BY <1>5, <2>2
      <4> QED
        BY <2>1, <3>1, <4>1 DEF Event
    <3> QED
      BY <3>2, <3>3, <3>4
  <2>5. CASE e # d
    <3>1. pump'[e] = pump[e]
      BY <1>1, <2>3, <2>5
    <3>2. Open(pump[e].sequence, e, last) => Open(pump[e].sequence, e, Len(channel) + 1)'
      BY <1>1, <1>3, <3>1, OpenAtEnd DEF IInv, last
    <3> QED
      BY <2>1, <3>1, <3>2 DEF IInv, PumpInv, Event, last
  <2> QED
    BY <2>4, <2>5
<1> QED
  BY <1>6, <1>7, <1>8

LEMMA CompleteInv ==
  ASSUME IInv, NEW d \in Directions, Complete(d)
  PROVE  ReservedInv' /\ ForwardedInv' /\ PumpInv'
<1> DEFINE event == Forwarded(pump[d].sequence, d)
           last == Len(channel) + 1
<1>1. /\ channel' = Append(channel, event) /\ order' = order /\ nextSequence' = nextSequence
      /\ pump[d].pc = "completing"
      /\ pump' = [pump EXCEPT ![d] = [@ EXCEPT !.pc = "reading", !.frame = {}]]
  BY DEF Complete, recorder
<1>2. TypeOK /\ pump[d] \in Pumps /\ pump \in [Directions -> Pumps]
  BY DEF IInv, TypeOK
<1>3. event \in Events /\ event.type = "forwarded" /\ event.sequence = pump[d].sequence
      /\ event.direction = d
  BY <1>2 DEF Forwarded, Events, Pumps
<1> HIDE DEF event
<1>4. /\ last \in Nat /\ Position' = Position \cup {last}
      /\ \A k \in Position : k < last /\ channel'[k] = channel[k]
      /\ channel'[last] = event
  <2>1. channel' = Append(channel, event)
    BY <1>1
  <2>2. /\ Position' = Position \cup {Len(channel) + 1}
        /\ \A k \in Position : k < Len(channel) + 1 /\ channel'[k] = channel[k]
        /\ channel'[Len(channel) + 1] = event
        /\ Len(channel) \in Nat
    BY <1>2, <1>3, <2>1, Appended
  <2> QED
    BY <2>2
<1>5. \A k \in Position : k \in Nat
  BY <1>2, PositionType
<1>6. Open(pump[d].sequence, d, last)
      /\ \A k \in Position : Event(k, "forwarded") => channel[k].sequence # pump[d].sequence
  BY <1>1 DEF IInv, PumpInv
<1>7. ReservedInv'
  <2>1. ASSUME NEW k \in Position', Event(k, "reserved")'
        PROVE  k \in Position /\ channel'[k] = channel[k] /\ Event(k, "reserved")
    BY <1>3, <1>4, <2>1 DEF Event
  <2>2. ASSUME NEW k \in Position, Event(k, "reserved")
        PROVE  k \in Position' /\ channel'[k] = channel[k] /\ Event(k, "reserved")'
    BY <1>4, <2>2 DEF Event
  <2> QED
    BY <1>1, <2>1, <2>2, ZenonT(30) DEF IInv, ReservedInv
<1>8. ASSUME NEW n, NEW e, NEW k, Open(n, e, k) PROVE Open(n, e, k)'
  BY <1>1, <1>2, <1>3, <1>8, OpenKept
<1>9. ForwardedInv'
  <2> SUFFICES ASSUME NEW k \in Position', Event(k, "forwarded")'
               PROVE  /\ Open(channel[k].sequence, channel[k].direction, k)'
                      /\ \A i \in Position' : Event(i, "forwarded")' /\ i # k =>
                            channel'[i].sequence # channel'[k].sequence
                      /\ \A i \in Position' : i < k =>
                            ~(Event(i, "finished")' /\ channel'[i].direction = channel'[k].direction)
    BY DEF ForwardedInv
  <2>1. CASE k = last
    <3>1. channel'[k].sequence = pump[d].sequence /\ channel'[k].direction = d
      BY <1>3, <1>4, <2>1
    <3>2. Open(pump[d].sequence, d, last)
      BY <1>6
    <3>3. Open(channel[k].sequence, channel[k].direction, k)'
      BY <1>8, <2>1, <3>1, <3>2 DEF last
    <3>4. \A i \in Position' : i # k => i \in Position /\ channel'[i] = channel[i]
      BY <1>4, <2>1
    <3>5. \A i \in Position : ~(Event(i, "finished") /\ channel[i].direction = d)
      BY <1>1 DEF IInv, PumpInv
    <3>6. \A i \in Position' : i < k => i # k
      BY <1>4, <1>5
    <3> QED
      BY <1>6, <3>1, <3>3, <3>4, <3>5, <3>6 DEF Event
  <2>2. CASE k # last
    <3>1. k \in Position /\ channel'[k] = channel[k] /\ Event(k, "forwarded")
      BY <1>4, <2>2 DEF Event
    <3>2. Open(channel[k].sequence, channel[k].direction, k)
      BY <3>1 DEF IInv, ForwardedInv
    <3>3. Open(channel[k].sequence, channel[k].direction, k)'
      BY <1>8, <3>1, <3>2
    <3>4. ASSUME NEW i \in Position', Event(i, "forwarded")', i # k
          PROVE  channel'[i].sequence # channel'[k].sequence
      <4>1. CASE i = last
        BY <1>3, <1>4, <1>6, <3>1, <4>1 DEF Event
      <4>2. CASE i # last
        BY <1>4, <3>1, <3>4, <4>2 DEF IInv, ForwardedInv, Event
      <4> QED
        BY <4>1, <4>2
    <3>5. ASSUME NEW i \in Position', i < k
          PROVE  ~(Event(i, "finished")' /\ channel'[i].direction = channel'[k].direction)
      <4>1. i \in Position /\ channel'[i] = channel[i]
        BY <1>4, <1>5, <3>1, <3>5
      <4> QED
        BY <3>1, <3>5, <4>1 DEF IInv, ForwardedInv, Event
    <3> QED
      BY <3>3, <3>4, <3>5
  <2> QED
    BY <2>1, <2>2
<1>10. PumpInv'
  <2> SUFFICES ASSUME NEW e \in Directions
               PROVE  /\ pump'[e].pc # "done" => \A k \in Position' :
                            ~(Event(k, "finished")' /\ channel'[k].direction = e)
                      /\ pump'[e].pc \in {"forwarding", "completing"} =>
                            /\ Open(pump[e].sequence, e, Len(channel) + 1)'
                            /\ \A k \in Position' : Event(k, "forwarded")' =>
                                  channel'[k].sequence # pump'[e].sequence
    BY DEF PumpInv
  <2>1. pump'[e].pc # "done" => pump[e].pc # "done"
    BY <1>1, <1>2 DEF Pumps
  <2>2. ASSUME pump'[e].pc # "done", NEW k \in Position'
        PROVE  ~(Event(k, "finished")' /\ channel'[k].direction = e)
    BY <1>3, <1>4, <2>1, <2>2 DEF IInv, PumpInv, Event
  <2>3. ASSUME pump'[e].pc \in {"forwarding", "completing"}
        PROVE  /\ Open(pump[e].sequence, e, Len(channel) + 1)'
               /\ \A k \in Position' : Event(k, "forwarded")' =>
                     channel'[k].sequence # pump'[e].sequence
    <3>1. e # d /\ pump'[e] = pump[e]
      BY <1>1, <1>2, <2>3 DEF Pumps
    <3>2. Open(pump[e].sequence, e, last)
          /\ \A k \in Position : Event(k, "forwarded") => channel[k].sequence # pump[e].sequence
      BY <2>3, <3>1 DEF IInv, PumpInv
    <3>3. Open(pump[e].sequence, e, Len(channel) + 1)'
      BY <1>1, <1>2, <1>3, <3>1, <3>2, OpenAtEnd DEF last
    <3>4. pump[d].sequence # pump[e].sequence
      BY <1>2, <1>4, <1>6, <3>1, <3>2, OpenOnce DEF IInv
    <3>5. ASSUME NEW k \in Position', Event(k, "forwarded")'
          PROVE  channel'[k].sequence # pump'[e].sequence
      BY <1>3, <1>4, <3>1, <3>2, <3>4, <3>5 DEF Event
    <3> QED
      BY <3>3, <3>5
  <2> QED
    BY <2>2, <2>3
<1> QED
  BY <1>7, <1>9, <1>10

LEMMA FinishInv ==
  ASSUME IInv, NEW d \in Directions, Finish(d)
  PROVE  ReservedInv' /\ ForwardedInv' /\ PumpInv'
<1> DEFINE event == Finished(d)
           last == Len(channel) + 1
<1>1. /\ channel' = Append(channel, event) /\ order' = order /\ nextSequence' = nextSequence
      /\ pump' = [pump EXCEPT ![d] = [@ EXCEPT !.pc = "done", !.frame = {}]]
  BY DEF Finish, recorder
<1>2. TypeOK /\ pump[d] \in Pumps /\ pump \in [Directions -> Pumps]
  BY DEF IInv, TypeOK
<1>3. event \in Events /\ event.type = "finished" /\ event.direction = d
  BY <1>2 DEF Finished, Events, Pumps
<1> HIDE DEF event
<1>4. /\ last \in Nat /\ Position' = Position \cup {last}
      /\ \A k \in Position : k < last /\ channel'[k] = channel[k]
      /\ channel'[last] = event
  <2>1. channel' = Append(channel, event)
    BY <1>1
  <2>2. /\ Position' = Position \cup {Len(channel) + 1}
        /\ \A k \in Position : k < Len(channel) + 1 /\ channel'[k] = channel[k]
        /\ channel'[Len(channel) + 1] = event
        /\ Len(channel) \in Nat
    BY <1>2, <1>3, <2>1, Appended
  <2> QED
    BY <2>2
<1>5. \A k \in Position : k \in Nat
  BY <1>2, PositionType
<1>6. ASSUME NEW k \in Position', Event(k, "reserved")' \/ Event(k, "forwarded")'
      PROVE  k \in Position /\ channel'[k] = channel[k]
  BY <1>3, <1>4, <1>6 DEF Event
<1>7. ReservedInv'
  <2>1. ASSUME NEW k \in Position, Event(k, "reserved")
        PROVE  k \in Position' /\ channel'[k] = channel[k] /\ Event(k, "reserved")'
    BY <1>4, <2>1 DEF Event
  <2>2. order.reservation <= nextSequence
    BY DEF IInv, ReservedInv
  <2>3. ASSUME NEW k \in Position', Event(k, "reserved")'
        PROVE  channel'[k].sequence \in order.reservation .. (nextSequence - 1)
    BY <1>6, <2>3 DEF IInv, ReservedInv, Event
  <2>4. ASSUME NEW n \in order.reservation .. (nextSequence - 1)
        PROVE  \E k \in Position' : Event(k, "reserved")' /\ channel'[k].sequence = n
    <3>1. PICK k \in Position : Event(k, "reserved") /\ channel[k].sequence = n
      BY <2>4 DEF IInv, ReservedInv
    <3> QED
      BY <2>1, <3>1
  <2>5. ASSUME NEW i \in Position', NEW j \in Position', i < j,
               Event(i, "reserved")', Event(j, "reserved")'
        PROVE  channel'[i].sequence < channel'[j].sequence
    <3>1. /\ i \in Position /\ j \in Position /\ Event(i, "reserved") /\ Event(j, "reserved")
          /\ channel'[i] = channel[i] /\ channel'[j] = channel[j]
      BY <1>6, <2>5 DEF Event
    <3>2. channel[i].sequence < channel[j].sequence
      BY <2>5, <3>1 DEF IInv, ReservedInv
    <3> QED
      BY <3>1, <3>2
  <2> QED
    BY <1>1, <2>2, <2>3, <2>4, <2>5 DEF ReservedInv
<1>8. ASSUME NEW n, NEW e, NEW k, Open(n, e, k) PROVE Open(n, e, k)'
  BY <1>1, <1>2, <1>3, <1>8, OpenKept
<1>9. ForwardedInv'
  <2> SUFFICES ASSUME NEW k \in Position', Event(k, "forwarded")'
               PROVE  /\ Open(channel[k].sequence, channel[k].direction, k)'
                      /\ \A i \in Position' : Event(i, "forwarded")' /\ i # k =>
                            channel'[i].sequence # channel'[k].sequence
                      /\ \A i \in Position' : i < k =>
                            ~(Event(i, "finished")' /\ channel'[i].direction = channel'[k].direction)
    BY DEF ForwardedInv
  <2>1. k \in Position /\ channel'[k] = channel[k] /\ Event(k, "forwarded")
    BY <1>6 DEF Event
  <2>2. Open(channel[k].sequence, channel[k].direction, k)
    BY <2>1 DEF IInv, ForwardedInv
  <2>3. Open(channel[k].sequence, channel[k].direction, k)'
    BY <1>8, <2>1, <2>2
  <2>4. ASSUME NEW i \in Position', i < k PROVE i \in Position /\ channel'[i] = channel[i]
    BY <1>4, <1>5, <2>1, <2>4
  <2> QED
    BY <1>6, <2>1, <2>3, <2>4 DEF IInv, ForwardedInv, Event
<1>10. PumpInv'
  <2> SUFFICES ASSUME NEW e \in Directions, pump'[e].pc # "done"
               PROVE  /\ \A k \in Position' :
                            ~(Event(k, "finished")' /\ channel'[k].direction = e)
                      /\ pump'[e].pc \in {"forwarding", "completing"} =>
                            /\ Open(pump[e].sequence, e, Len(channel) + 1)'
                            /\ \A k \in Position' : Event(k, "forwarded")' =>
                                  channel'[k].sequence # pump'[e].sequence
    BY DEF PumpInv
  <2>1. e # d /\ pump'[e] = pump[e]
    BY <1>1, <1>2 DEF Pumps
  <2>2. ASSUME NEW k \in Position'
        PROVE  ~(Event(k, "finished")' /\ channel'[k].direction = e)
    BY <1>3, <1>4, <2>1, <2>2 DEF IInv, PumpInv, Event
  <2>3. ASSUME pump'[e].pc \in {"forwarding", "completing"}
        PROVE  /\ Open(pump[e].sequence, e, Len(channel) + 1)'
               /\ \A k \in Position' : Event(k, "forwarded")' =>
                     channel'[k].sequence # pump'[e].sequence
    <3>1. Open(pump[e].sequence, e, last)
          /\ \A k \in Position : Event(k, "forwarded") => channel[k].sequence # pump[e].sequence
      BY <2>1, <2>3 DEF IInv, PumpInv
    <3>2. Open(pump[e].sequence, e, Len(channel) + 1)'
      BY <1>1, <1>2, <1>3, <2>1, <3>1, OpenAtEnd DEF last
    <3> QED
      BY <1>6, <2>1, <3>1, <3>2 DEF Event
  <2> QED
    BY <2>2, <2>3
<1> QED
  BY <1>7, <1>9, <1>10

\* The event at the head is handled: the positions shift, and an open
\* reservation stays open unless the event is its completion or the end of its
\* pump.
LEMMA HandleInv ==
  ASSUME IInv, channel # <<>>, NEW next, HandleEvent(Head(channel), next)
  PROVE  ReservedInv' /\ ForwardedInv' /\ PumpInv'
<1> DEFINE head == channel[1]
<1>1. /\ TypeOK /\ head = Head(channel) /\ head \in Events /\ Accepts(head)
      /\ 1 \in Position
  <2>1. TypeOK /\ 1 \in Position /\ head = Head(channel) /\ head \in Events
    BY DEF IInv, TypeOK, Position
  <2> QED
    BY <2>1, HeadAccepted DEF EventsAccepted
<1>2. /\ order'.reservation = NextReservation(head)
      /\ \A n, d : Waiting(Arrived(head), n, d) => Waiting(order'.pending, n, d)
      /\ channel' = Tail(channel) /\ pump' = pump /\ nextSequence' = nextSequence
  BY <1>1, HandledOrder
<1>3. /\ \A k \in Position' : k \in Nat /\ k + 1 \in Position /\ channel'[k] = channel[k + 1]
      /\ \A k \in Position : k \in Nat /\ (k # 1 => /\ k - 1 \in Position'
                                                    /\ channel'[k - 1] = channel[k])
      /\ Len(channel') + 1 = Len(channel) /\ Len(channel') \in Nat
  BY <1>1, <1>2 DEF TypeOK, Position
<1>4. head.type = "reserved" => /\ head.sequence = order.reservation
                                /\ order'.reservation = order.reservation + 1
  BY <1>1, <1>2 DEF Accepts, NextReservation
<1>5. head.type # "reserved" => order'.reservation = order.reservation
  BY <1>2 DEF NextReservation
<1>6. order.reservation \in Nat /\ nextSequence \in Nat
  BY <1>1 DEF TypeOK
<1>7. ASSUME NEW n, NEW d, Waiting(order.pending, n, d),
             ~(head.type = "forwarded" /\ head.sequence = n),
             ~(head.type = "finished" /\ head.direction = d)
      PROVE  Waiting(order'.pending, n, d)
  <2>1. Arrived(head) = Pending(head)
    BY <1>1 DEF Arrived
  <2>2. CASE head.type = "reserved"
    <3>1. n # head.sequence
      BY <1>4, <1>6, <1>7, <2>2 DEF IInv, TypeOK, Waiting
    <3>2. Waiting(Pending(head), n, d)
      BY <1>7, <2>2, <3>1 DEF Pending, Waiting
    <3> QED
      BY <1>2, <2>1, <3>2
  <2>3. CASE head.type = "forwarded"
    <3>1. Waiting(Pending(head), n, d)
      BY <1>7, <2>3 DEF Pending, Waiting
    <3> QED
      BY <1>2, <2>1, <3>1
  <2>4. CASE head.type = "finished"
    <3>1. Waiting(Pending(head), n, d)
      BY <1>7, <2>4 DEF Pending, Waiting, Retires
    <3> QED
      BY <1>2, <2>1, <3>1
  <2> QED
    BY <1>1, <2>2, <2>3, <2>4 DEF Events
<1>8. head.type = "reserved" => Waiting(order'.pending, head.sequence, head.direction)
  <2> SUFFICES ASSUME head.type = "reserved"
               PROVE  Waiting(order'.pending, head.sequence, head.direction)
    OBVIOUS
  <2>1. Arrived(head) = Pending(head)
    BY <1>1 DEF Arrived
  <2>2. Waiting(Pending(head), head.sequence, head.direction)
    BY DEF Pending, Waiting, Entry
  <2> QED
    BY <1>2, <2>1, <2>2
<1> HIDE DEF head
<1>9. ASSUME NEW n, NEW d, NEW k \in Nat, Open(n, d, k + 1),
             ~(head.type = "forwarded" /\ head.sequence = n),
             ~(head.type = "finished" /\ head.direction = d)
      PROVE  Open(n, d, k)'
  <2>1. CASE Waiting(order.pending, n, d)
    BY <1>7, <1>9, <2>1 DEF Open
  <2>2. CASE ~Waiting(order.pending, n, d)
    <3>1. PICK i \in Position : i < k + 1 /\ Event(i, "reserved")
                                /\ channel[i].sequence = n /\ channel[i].direction = d
      BY <1>9, <2>2 DEF Open
    <3>2. CASE i = 1
      BY <1>8, <3>1, <3>2 DEF Open, Event, head
    <3>3. CASE i # 1
      <4>1. i - 1 \in Position' /\ channel'[i - 1] = channel[i] /\ i - 1 < k
        BY <1>3, <1>9, <3>1, <3>3
      <4> QED
        BY <3>1, <4>1 DEF Open, Event
    <3> QED
      BY <3>2, <3>3
  <2> QED
    BY <2>1, <2>2
<1>10. ReservedInv'
  <2>1. order'.reservation <= nextSequence
    <3>1. head.type = "reserved" => head.sequence \in order.reservation .. nextSequence - 1
      BY <1>1 DEF IInv, ReservedInv, Event, head
    <3> QED
      BY <1>4, <1>5, <1>6, <3>1 DEF IInv, ReservedInv
  <2>2. ASSUME NEW k \in Position', Event(k, "reserved")'
        PROVE  channel'[k].sequence \in order'.reservation .. nextSequence - 1
    <3>1. k + 1 \in Position /\ channel'[k] = channel[k + 1] /\ Event(k + 1, "reserved") /\ 1 < k + 1
      BY <1>3, <2>2 DEF Event, Position
    <3>2. channel[k + 1].sequence \in order.reservation .. nextSequence - 1
      BY <3>1 DEF IInv, ReservedInv
    <3>3. head.type = "reserved" => head.sequence < channel[k + 1].sequence
      BY <1>1, <3>1 DEF IInv, ReservedInv, Event, head
    <3> QED
      BY <1>4, <1>5, <1>6, <3>1, <3>2, <3>3
  <2>3. ASSUME NEW n \in order'.reservation .. nextSequence - 1
        PROVE  \E k \in Position' : Event(k, "reserved")' /\ channel'[k].sequence = n
    <3>1. n \in order.reservation .. nextSequence - 1
          /\ (head.type = "reserved" => n # head.sequence)
      BY <1>4, <1>5, <1>6, <2>3
    <3>2. PICK k \in Position : Event(k, "reserved") /\ channel[k].sequence = n
      BY <3>1 DEF IInv, ReservedInv
    <3>3. k # 1
      BY <3>1, <3>2 DEF Event, head
    <3>4. k - 1 \in Position' /\ channel'[k - 1] = channel[k]
      BY <1>3, <3>3
    <3> QED
      BY <3>2, <3>4 DEF Event
  <2>4. ASSUME NEW i \in Position', NEW j \in Position', i < j,
               Event(i, "reserved")', Event(j, "reserved")'
        PROVE  channel'[i].sequence < channel'[j].sequence
    <3>1. /\ i + 1 \in Position /\ channel'[i] = channel[i + 1]
          /\ j + 1 \in Position /\ channel'[j] = channel[j + 1] /\ i + 1 < j + 1
      BY <1>3, <2>4
    <3> QED
      BY <2>4, <3>1 DEF IInv, ReservedInv, Event
  <2> QED
    BY <1>2, <2>1, <2>2, <2>3, <2>4 DEF ReservedInv
<1>11. ForwardedInv'
  <2> SUFFICES ASSUME NEW k \in Position', Event(k, "forwarded")'
               PROVE  /\ Open(channel[k].sequence, channel[k].direction, k)'
                      /\ \A i \in Position' : Event(i, "forwarded")' /\ i # k =>
                            channel'[i].sequence # channel'[k].sequence
                      /\ \A i \in Position' : i < k =>
                            ~(Event(i, "finished")' /\ channel'[i].direction = channel'[k].direction)
    BY DEF ForwardedInv
  <2>1. /\ k \in Nat /\ k + 1 \in Position /\ channel'[k] = channel[k + 1]
        /\ Event(k + 1, "forwarded") /\ k + 1 # 1 /\ 1 < k + 1
    BY <1>3 DEF Event, Position
  <2>2. Open(channel[k + 1].sequence, channel[k + 1].direction, k + 1)
    BY <2>1 DEF IInv, ForwardedInv
  <2>3. /\ ~(head.type = "forwarded" /\ head.sequence = channel[k + 1].sequence)
        /\ ~(head.type = "finished" /\ head.direction = channel[k + 1].direction)
    BY <1>1, <2>1 DEF IInv, ForwardedInv, Event, head
  <2>4. Open(channel[k].sequence, channel[k].direction, k)'
    BY <1>9, <2>1, <2>2, <2>3
  <2>5. ASSUME NEW i \in Position'
        PROVE  /\ i + 1 \in Position /\ channel'[i] = channel[i + 1]
               /\ i # k => i + 1 # k + 1
               /\ i < k => i + 1 < k + 1
    BY <1>3, <2>1
  <2> QED
    BY <2>1, <2>4, <2>5 DEF IInv, ForwardedInv, Event
<1>12. PumpInv'
  <2> SUFFICES ASSUME NEW e \in Directions
               PROVE  /\ pump[e].pc # "done" => \A k \in Position' :
                            ~(Event(k, "finished")' /\ channel'[k].direction = e)
                      /\ pump[e].pc \in {"forwarding", "completing"} =>
                            /\ Open(pump[e].sequence, e, Len(channel) + 1)'
                            /\ \A k \in Position' : Event(k, "forwarded")' =>
                                  channel'[k].sequence # pump[e].sequence
    BY <1>2 DEF PumpInv
  <2>1. \A k \in Position' : k + 1 \in Position /\ channel'[k] = channel[k + 1]
    BY <1>3
  <2>2. ASSUME pump[e].pc # "done"
        PROVE  \A k \in Position : ~(Event(k, "finished") /\ channel[k].direction = e)
    BY <2>2 DEF IInv, PumpInv
  <2>3. ASSUME pump[e].pc \in {"forwarding", "completing"}
        PROVE  /\ Open(pump[e].sequence, e, Len(channel) + 1)'
               /\ \A k \in Position' : Event(k, "forwarded")' =>
                     channel'[k].sequence # pump[e].sequence
    <3>1. Open(pump[e].sequence, e, Len(channel) + 1)
          /\ \A k \in Position : Event(k, "forwarded") => channel[k].sequence # pump[e].sequence
      BY <2>3 DEF IInv, PumpInv
    <3>2. /\ ~(head.type = "forwarded" /\ head.sequence = pump[e].sequence)
          /\ ~(head.type = "finished" /\ head.direction = e)
      BY <1>1, <2>2, <2>3, <3>1 DEF Event, head
    <3>3. Open(pump[e].sequence, e, Len(channel) + 1)'
      <4>1. Len(channel') + 1 \in Nat /\ Open(pump[e].sequence, e, (Len(channel') + 1) + 1)
        BY <1>3, <3>1
      <4> QED
        BY <1>2, <1>9, <3>2, <4>1
    <3> QED
      BY <2>1, <3>1, <3>3 DEF Event
  <2> QED
    BY <2>1, <2>2, <2>3 DEF Event
<1> QED
  BY <1>10, <1>11, <1>12

LEMMA StepInv == IInv /\ [Next]_vars => IInv'
<1> SUFFICES ASSUME IInv, [Next]_vars PROVE ReservedInv' /\ ForwardedInv' /\ PumpInv'
  BY StepType DEF IInv
<1>1. /\ TypeOK /\ ReservedInv /\ ForwardedInv /\ PumpInv
      /\ pump \in [Directions -> Pumps]
  BY DEF IInv, TypeOK
<1> DEFINE Inv3 == ReservedInv /\ ForwardedInv /\ PumpInv
<1>2. CASE UNCHANGED vars \/ Returned
  BY <1>1, <1>2, QuietStep DEF vars, Returned
<1>3. CASE Peers
  <2>1. UNCHANGED <<channel, nextSequence, order, pump>>
    BY <1>3 DEF Peers, AgentRequests, AgentMutters, AgentReceives, AgentLeaves, ChildReceives,
                ChildResponds, ChildNotifies, ChildExits, recorder
  <2> QED
    BY <1>1, <2>1, QuietStep
<1>4. ASSUME NEW d \in Directions,
             StopReading(d) \/ ReadFails(d) \/ Forward(d) \/ ForwardFails(d)
      PROVE  Inv3'
  <2>1. UNCHANGED <<channel, nextSequence, order>>
    BY <1>4 DEF StopReading, ReadFails, Forward, ForwardFails, recorder
  <2>2. pump[d] \in Pumps
    BY <1>1
  <2>3. ReadFails(d) =>
           /\ pump[d].pc = "reading"
           /\ pump' = [pump EXCEPT ![d] = [@ EXCEPT !.pc = "finishing", !.failure = "read"]]
    BY DEF ReadFails
  <2>4. /\ pump[d].pc # "done" /\ pump'[d].sequence = pump[d].sequence
        /\ \A e \in Directions \ {d} : pump'[e] = pump[e]
        /\ pump'[d].pc \in {"forwarding", "completing"} => pump[d].pc = "forwarding"
    BY <1>1, <1>4, <2>2, <2>3, ZenonT(30) DEF StopReading, Forward, ForwardFails, Pumps
  <2>5. \A e \in Directions :
           /\ pump'[e].pc # "done" => pump[e].pc # "done"
           /\ pump'[e].pc \in {"forwarding", "completing"} =>
                 /\ pump[e].pc \in {"forwarding", "completing"}
                 /\ pump'[e].sequence = pump[e].sequence
    BY <2>4
  <2> QED
    BY <1>1, <2>1, <2>5, QuietStep
<1>5. ASSUME NEW d \in Directions, Pump(d) \/ ReadFails(d) PROVE Inv3'
  BY <1>4, <1>5, ReserveInv, CompleteInv, FinishInv DEF Pump
<1>6. CASE Main
  <2>1. CASE channel # <<>> /\ Handling
    BY <2>1, HandleInv DEF Handling
  <2>2. CASE ~(channel # <<>> /\ Handling)
    <3>1. UNCHANGED <<channel, nextSequence, order>>
      BY <1>6, <2>2, MainSteps DEF recorder
    <3>2. pump' = pump \/ \E directions \in SUBSET Directions : pump' = Cancelled(directions)
      BY <1>6, <2>2, MainSteps
    <3>3. \A e \in Directions : pump'[e].pc = pump[e].pc /\ pump'[e].sequence = pump[e].sequence
      BY <1>1, <3>2, CancelledType
    <3> QED
      BY <1>1, <3>1, <3>3, QuietStep
  <2> QED
    BY <2>1, <2>2
<1> QED
  BY <1>2, <1>3, <1>5, <1>6 DEF Next

\* FrameOrder refuses none of the events the pumps send, whatever the peers do
\* and however reading, writing and cancelling interleave.
THEOREM NoEventRefused == Spec => []EventsAccepted
BY InitInv, StepInv, HeadAccepted, PTL DEF Spec

-----------------------------------------------------------------------------
(***************************************************************************)
(* The causal order of what the correlator sees (Shim.CausalOrder), and    *)
(* what run has recorded when it returns (Shim.StatusMeansRecorded).       *)
(*                                                                         *)
(* The two pumps number their frames under one lock, so the numbers tell   *)
(* which frame may depend on which: what a peer received was forwarded, so *)
(* it was reserved before anything that peer writes afterwards is.         *)
(* Ahead(u, n) says that frame u is handled, or reserved below n and safely *)
(* forwarded (Secured), so that the end of its pump does not retire it.  The *)
(* invariant CInv follows a frame with what it knows (known) from the pipe *)
(* (SourceInv) through its pump and its reservation (ForwardingInv,        *)
(* CarriedInv) to its receiver (DeliveredInv).                             *)
(*                                                                         *)
(* A frame that was received is handled or reserved and secured.  When run *)
(* returns both pumps are done and the channel is empty (JoinedInv); what  *)
(* is still pending waits for the end of its pump (EndingInv), so that     *)
(* nothing is; hence every received frame is handled.  Records are counted *)
(* by folding Correlate over what became ready, which needs induction over *)
(* the length of a sequence: InductionOnNat derives it from the least      *)
(* counterexample, and FoldSteps states a fold step by step.               *)
(***************************************************************************)

\* Reservation n is for this frame: its event is in the channel, or pending.
Carried(n, frame) ==
    \/ \E k \in Position : Event(k, "reserved") /\ channel[k].sequence = n
                                                /\ frame \in channel[k].frame
    \/ n \in DOMAIN order.pending /\ frame \in order.pending[n].frame

\* The frame has been written, and its completion is handled, in the channel or
\* the next thing its pump sends, so that the end of the pump cannot retire it.
Secured(n) ==
    \/ n \in DOMAIN order.pending /\ order.pending[n].state = "forwarded"
    \/ \E k \in Position : Event(k, "forwarded") /\ channel[k].sequence = n
    \/ \E d \in Directions : pump[d].pc = "completing" /\ pump[d].sequence = n

\* The frames the correlator has seen.
HandledUids == {handled[k].uid : k \in 1 .. Len(handled)}

\* The frame u is correlated, or will be before whatever reservation n is for.
Ahead(u, n) ==
    \/ u \in HandledUids
    \/ \E m \in Nat : m < n /\ Secured(m) /\ \E f \in Frames : f.uid = u /\ Carried(m, f)

\* Who writes what the pump of direction d reads.
Sender(d) == IF d = "outbound" THEN agent ELSE child

\* The frame u precedes place p of a pump's input.
Coming(d, u, p) ==
    \/ Ahead(u, nextSequence)
    \/ pump[d].pc = "forwarding" /\ \E f \in pump[d].frame : f.uid = u
    \/ \E q \in 1 .. Len(source[d]) : q < p /\ source[d][q].uid = u

\* A frame is in the event of its reservation, and pending until its pump is known
\* to have given it up; what is pending was not handled yet.
OrderInv ==
    /\ handled \in Seq(Frames)
    /\ order.ready <= order.reservation
    /\ \A n \in DOMAIN order.pending :
          /\ order.ready <= n
          /\ order.pending[n].state = "retired" => order.pending[n].frame = {}
          /\ order.pending[n].state # "retired" => \E f \in Frames : order.pending[n].frame = {f}
    /\ \A k \in Position : Event(k, "reserved") => \E f \in Frames : channel[k].frame = {f}

\* A pump writes what it has reserved.
ForwardingInv ==
    \A d \in Directions : pump[d].pc = "forwarding" =>
        \E f \in Frames : pump[d].frame = {f} /\ Carried(pump[d].sequence, f)

\* What a peer received, or finds in its pipe, is ahead of all later reservations.
DeliveredInv ==
    /\ \A u \in agent.received \cup child.received : Ahead(u, nextSequence)
    /\ \A d \in Directions : \A p \in 1 .. Len(destination[d]) :
          Ahead(destination[d][p].uid, nextSequence)

\* What a frame in a pipe knows of is ahead of it, in the pipe or in the order.
SourceInv ==
    \A d \in Directions : pump[d].pc \in {"reading", "forwarding", "completing"} =>
        /\ \A u \in Sender(d).sent : Coming(d, u, Len(source[d]) + 1)
        /\ \A p \in 1 .. Len(source[d]) : \A u \in source[d][p].known : Coming(d, u, p)

\* What a reserved frame knows of is ahead of its reservation.
CarriedInv ==
    \A n \in Nat : \A f \in Frames : Carried(n, f) => \A u \in f.known : Ahead(u, n)

CInv == OrderInv /\ ForwardingInv /\ DeliveredInv /\ SourceInv /\ CarriedInv /\ CausalOrder
-----------------------------------------------------------------------------
(* What becomes ready, and in which order it is handed on.                  *)

\* The members of a finite set of numbers, counted from the least.
Rank(W, n) == Cardinality({i \in W : i <= n})

LEMMA Ranks ==
  ASSUME NEW W \in SUBSET Nat, IsFiniteSet(W)
  PROVE  /\ Cardinality(W) \in Nat
         /\ \A n \in W : Rank(W, n) \in 1 .. Cardinality(W)
         /\ \A m, n \in W : m < n => Rank(W, m) < Rank(W, n)
         /\ \A k \in 1 .. Cardinality(W) : \E n \in W : Rank(W, n) = k
<1> DEFINE upTo(n) == {i \in W : i <= n}
<1>1. Cardinality(W) \in Nat
  BY FS_CardinalityType
<1>2. ASSUME NEW n \in W
      PROVE  /\ upTo(n) \in SUBSET W /\ n \in upTo(n)
             /\ IsFiniteSet(upTo(n)) /\ Cardinality(upTo(n)) \in 1 .. Cardinality(W)
  <2>1. upTo(n) \in SUBSET W /\ n \in upTo(n)
    OBVIOUS
  <2> HIDE DEF upTo
  <2>2. IsFiniteSet(upTo(n)) /\ Cardinality(upTo(n)) <= Cardinality(W)
    BY <2>1, FS_Subset
  <2>3. Cardinality(upTo(n)) \in Nat
    BY <2>2, FS_CardinalityType
  <2>4. Cardinality(upTo(n)) # 0
    BY <2>1, <2>2, FS_EmptySet
  <2> QED
    BY <1>1, <2>1, <2>2, <2>3, <2>4
<1>3. ASSUME NEW m \in W, NEW n \in W, m < n
      PROVE  Cardinality(upTo(m)) < Cardinality(upTo(n))
  <2>1. upTo(m) \in SUBSET upTo(n) /\ n \notin upTo(m) /\ n \in upTo(n)
    <3>1. \A i \in W : i <= m => i <= n
      BY <1>3
    <3>2. ~(n <= m) /\ n <= n
      BY <1>3
    <3> QED
      BY <3>1, <3>2
  <2> HIDE DEF upTo
  <2>2. /\ IsFiniteSet(upTo(n))
        /\ Cardinality(upTo(m)) \in Nat /\ Cardinality(upTo(n)) \in Nat
    BY <1>1, <1>2
  <2>3. /\ Cardinality(upTo(m)) <= Cardinality(upTo(n))
        /\ Cardinality(upTo(n)) = Cardinality(upTo(m)) => upTo(n) = upTo(m)
    BY <2>1, <2>2, FS_Subset
  <2> QED
    BY <2>1, <2>2, <2>3
<1> DEFINE f == [n \in W |-> Cardinality(upTo(n))]
           T == 1 .. Cardinality(W)
<1>4. f \in Injection(W, T)
  <2>1. f \in [W -> T]
    BY <1>2
  <2>2. ASSUME NEW m \in W, NEW n \in W, f[m] = f[n] PROVE m = n
    <3>1. ~(m < n) /\ ~(n < m)
      BY <1>1, <1>2, <1>3, <2>2
    <3> QED
      BY <3>1
  <2> HIDE DEF f
  <2> QED
    BY <2>1, <2>2 DEF Injection, IsInjective
<1>5. IsFiniteSet(T) /\ Cardinality(T) = Cardinality(W)
  <2>1. 1 \in Int /\ Cardinality(W) \in Int
    BY <1>1
  <2>2. /\ IsFiniteSet(T)
        /\ Cardinality(T) = IF 1 > Cardinality(W) THEN 0 ELSE Cardinality(W) - 1 + 1
    BY <2>1, FS_Interval
  <2> QED
    BY <1>1, <2>2
<1>6. f \in Surjection(W, T)
  <2> HIDE DEF f, T
  <2> QED
    BY <1>4, <1>5, FS_Injection
<1>7. \A k \in T : \E n \in W : f[n] = k
  <2> HIDE DEF f
  <2> QED
    BY <1>6 DEF Surjection
<1> QED
  BY <1>1, <1>2, <1>3, <1>7 DEF Rank

LEMMA ReadyCount ==
  ASSUME NEW pending, NEW r \in Nat, DOMAIN pending \subseteq 0 .. r - 1,
         order.ready \in Nat
  PROVE  /\ Ready(pending) \subseteq DOMAIN pending /\ Ready(pending) \subseteq Nat
         /\ IsFiniteSet(Ready(pending)) /\ Cardinality(Ready(pending)) \in Nat
         /\ \A n \in Ready(pending) : \A m \in order.ready .. n : m \in Ready(pending)
         /\ \A n \in DOMAIN pending \ Ready(pending) :
               order.ready <= n => order.ready + Cardinality(Ready(pending)) <= n
         /\ order.ready <= r => order.ready + Cardinality(Ready(pending)) <= r
         /\ LET first == order.ready + Cardinality(Ready(pending))
            IN  first \in DOMAIN pending => pending[first].state = "reserved"
<1> DEFINE R == Ready(pending)
           a == order.ready
           c == Cardinality(R)
<1>1. /\ R \subseteq DOMAIN pending /\ R \in SUBSET (0 .. r - 1)
      /\ \A n \in R : a <= n /\ \A m \in a .. n : m \in R
  BY DEF Ready
<1>2. ASSUME NEW n \in DOMAIN pending, a <= n, n \notin R
      PROVE  \E k \in a .. n : k \notin R /\ (k \in DOMAIN pending => pending[k].state = "reserved")
  BY <1>2 DEF Ready
<1>3. a \in Nat
  OBVIOUS
<1> HIDE DEF R, a
<1>4. IsFiniteSet(R) /\ c \in Nat
  <2>1. IsFiniteSet(0 .. r - 1)
    BY FS_Interval
  <2> QED
    BY <1>1, <2>1, FS_Subset, FS_CardinalityType
<1>5. ASSUME NEW n \in Nat, R \in SUBSET (a .. n - 1), a <= n PROVE a + c <= n
  <2>1. IsFiniteSet(a .. n - 1) /\ Cardinality(a .. n - 1) = n - a
    <3>1. a \in Int /\ n - 1 \in Int
      BY <1>3
    <3>2. /\ IsFiniteSet(a .. n - 1)
          /\ Cardinality(a .. n - 1) = IF a > n - 1 THEN 0 ELSE (n - 1) - a + 1
      BY <3>1, FS_Interval
    <3> QED
      BY <1>3, <1>5, <3>2
  <2>2. c <= Cardinality(a .. n - 1)
    BY <1>5, <2>1, FS_Subset
  <2> QED
    BY <1>3, <1>4, <2>1, <2>2
<1>6. ASSUME NEW n \in Nat, a <= n, n \notin R PROVE a + c <= n
  <2>1. R \in SUBSET (a .. n - 1)
    <3> SUFFICES ASSUME NEW m \in R PROVE m \in a .. n - 1
      OBVIOUS
    <3>1. m \in Nat /\ a <= m
      BY <1>1
    <3>2. ~(n <= m)
      BY <1>1, <1>3, <1>6, <3>1
    <3> QED
      BY <1>3, <3>1, <3>2
  <2> QED
    BY <1>5, <1>6, <2>1
<1>7. \A n \in DOMAIN pending \ R : a <= n => a + c <= n
  BY <1>6
<1>8. a <= r => a + c <= r
  <2>1. r \notin R
    BY <1>1
  <2> QED
    BY <1>6, <2>1
<1>9. a + c \notin R
  <2> SUFFICES ASSUME a + c \in R PROVE FALSE
    OBVIOUS
  <2>1. a .. a + c \in SUBSET R
    BY <1>1
  <2>2. Cardinality(a .. a + c) = c + 1
    <3>1. a \in Int /\ a + c \in Int
      BY <1>3, <1>4
    <3>2. Cardinality(a .. a + c) = IF a > a + c THEN 0 ELSE (a + c) - a + 1
      BY <3>1, FS_Interval
    <3> QED
      BY <1>3, <1>4, <3>2
  <2>3. Cardinality(a .. a + c) <= c
    BY <1>4, <2>1, FS_Subset
  <2> QED
    BY <1>4, <2>2, <2>3
<1>10. a + c \in DOMAIN pending => pending[a + c].state = "reserved"
  <2> SUFFICES ASSUME a + c \in DOMAIN pending PROVE pending[a + c].state = "reserved"
    OBVIOUS
  <2>1. PICK k \in a .. a + c : /\ k \notin R
                                /\ k \in DOMAIN pending => pending[k].state = "reserved"
    BY <1>2, <1>3, <1>4, <1>9
  <2>2. k \in Nat /\ a <= k /\ k <= a + c
    BY <1>3, <1>4, <2>1
  <2>3. a + c <= k
    BY <1>6, <2>1, <2>2
  <2>4. k = a + c
    BY <1>3, <1>4, <2>2, <2>3
  <2> QED
    BY <2>1, <2>4
<1> QED
  <2>1. R \subseteq Nat
    BY <1>1
  <2> QED
    BY <1>1, <1>4, <1>7, <1>8, <1>10, <2>1 DEF R, a
-----------------------------------------------------------------------------
(* One event is handled.                                                    *)

Arriving == Arrived(Head(channel))
Leaving == {n \in Ready(Arriving) : Arriving[n].state = "forwarded"}

\* The end of a pump retires no frame that was written.
LEMMA SecuredStays ==
  ASSUME IInv, channel # <<>>, NEW n, Secured(n)
  PROVE  ~(Head(channel).type = "finished" /\ Waiting(order.pending, n, Head(channel).direction))
<1> DEFINE d == channel[1].direction
<1> SUFFICES ASSUME Event(1, "finished"), Waiting(order.pending, n, d) PROVE FALSE
  BY DEF Event, IInv, TypeOK
<1>1. TypeOK /\ ReservedInv /\ 1 \in Position /\ Len(channel) \in Nat
      /\ \A k \in Position : k \in Nat
  <2>1. TypeOK /\ ReservedInv /\ 1 \in Position
    BY DEF IInv, TypeOK, Position
  <2> QED
    BY <2>1, PositionType
<1>2. CASE n \in DOMAIN order.pending /\ order.pending[n].state = "forwarded"
  BY <1>2 DEF Waiting
<1>3. ASSUME NEW k \in Position, Event(k, "forwarded"), channel[k].sequence = n PROVE FALSE
  <2>1. Open(n, channel[k].direction, k) /\ Open(n, d, k)
    BY <1>3 DEF IInv, ForwardedInv, Open
  <2>2. channel[k].direction = d
    BY <1>1, <2>1, OpenOnce
  <2>3. 1 < k
    <3>1. k # 1
      BY <1>3 DEF Event
    <3> QED
      BY <3>1 DEF Position
  <2> QED
    BY <1>1, <1>3, <2>2, <2>3 DEF IInv, ForwardedInv
<1>4. ASSUME NEW e \in Directions, pump[e].pc = "completing", pump[e].sequence = n PROVE FALSE
  <2>1. Open(n, e, Len(channel) + 1) /\ Open(n, d, Len(channel) + 1)
    BY <1>4 DEF IInv, PumpInv, Open
  <2>2. e = d
    <3>1. Len(channel) + 1 \in Int
      BY <1>1
    <3> QED
      BY <1>1, <2>1, <3>1, OpenOnce
  <2> QED
    BY <1>1, <1>4, <2>2 DEF IInv, PumpInv
<1> QED
  BY <1>2, <1>3, <1>4 DEF Secured

\* The entries once the head has arrived: whose they are, and which frames the
\* end of a pump drops.
LEMMA ArrivedFrames ==
  ASSUME IInv, OrderInv, channel # <<>>
  PROVE  /\ Arriving = Pending(Head(channel))
         /\ \A n \in DOMAIN Arriving :
               /\ n \in Nat /\ order.ready <= n
               /\ Arriving[n].state = "retired" => Arriving[n].frame = {}
               /\ Arriving[n].state # "retired" => \E f \in Frames : Arriving[n].frame = {f}
               /\ \A f \in Arriving[n].frame : Carried(n, f)
         /\ \A n, f : Carried(n, f) =>
               \/ n \in DOMAIN Arriving /\ f \in Arriving[n].frame
               \/ \E k \in Position : /\ k # 1 /\ Event(k, "reserved")
                                      /\ channel[k].sequence = n /\ f \in channel[k].frame
               \/ /\ Head(channel).type = "finished"
                  /\ Waiting(order.pending, n, Head(channel).direction)
         /\ DOMAIN order.pending \subseteq DOMAIN Arriving
         /\ \A n \in DOMAIN order.pending : order.pending[n].state = "forwarded" =>
               Arriving[n].state = "forwarded"
<1> DEFINE head == channel[1]
<1>1. /\ TypeOK /\ head = Head(channel) /\ head \in Events /\ Accepts(head)
      /\ 1 \in Position
  <2>1. TypeOK /\ 1 \in Position /\ head = Head(channel) /\ head \in Events
    BY DEF IInv, TypeOK, Position
  <2> QED
    BY <2>1, HeadAccepted DEF EventsAccepted
<1>2. Arriving = Pending(head)
  BY <1>1 DEF Arriving, Arrived
<1>3. \A n \in DOMAIN order.pending : n \in Nat /\ order.pending[n] \in Entries
  BY <1>1 DEF TypeOK
<1>4. \A n \in DOMAIN order.pending : n # order.reservation
  BY <1>1 DEF TypeOK
<1>5. /\ order.ready <= order.reservation /\ order.reservation \in Nat
      /\ \A n \in DOMAIN order.pending :
            /\ order.ready <= n
            /\ order.pending[n].state = "retired" => order.pending[n].frame = {}
            /\ order.pending[n].state # "retired" => \E f \in Frames : order.pending[n].frame = {f}
  BY <1>1 DEF OrderInv, TypeOK
<1>6. CASE head.type = "reserved"
  <2>1. head.sequence = order.reservation
    BY <1>1, <1>6 DEF Accepts
  <2>2. \E f \in Frames : head.frame = {f}
    BY <1>1, <1>6 DEF OrderInv, Event
  <2>3. /\ DOMAIN Arriving = DOMAIN order.pending \cup {head.sequence}
        /\ \A n \in DOMAIN order.pending : Arriving[n] = order.pending[n]
        /\ Arriving[head.sequence] = Entry("reserved", head.direction, head.frame)
    BY <1>2, <1>4, <1>6, <2>1 DEF Pending
  <2>4. \A f \in head.frame : Carried(head.sequence, f)
    BY <1>1, <1>6 DEF Carried, Event
  <2>5. ASSUME NEW n, NEW f, Carried(n, f)
        PROVE  \/ n \in DOMAIN Arriving /\ f \in Arriving[n].frame
               \/ \E k \in Position : /\ k # 1 /\ Event(k, "reserved")
                                      /\ channel[k].sequence = n /\ f \in channel[k].frame
    BY <2>3, <2>5 DEF Carried, Entry
  <2>6. ASSUME NEW n \in DOMAIN Arriving
        PROVE  /\ n \in Nat /\ order.ready <= n
               /\ Arriving[n].state = "retired" => Arriving[n].frame = {}
               /\ Arriving[n].state # "retired" => \E f \in Frames : Arriving[n].frame = {f}
               /\ \A f \in Arriving[n].frame : Carried(n, f)
    <3>1. CASE n = head.sequence
      BY <1>5, <2>1, <2>2, <2>3, <2>4, <3>1 DEF Entry
    <3>2. CASE n # head.sequence
      BY <1>3, <1>5, <2>3, <2>6, <3>2 DEF Carried
    <3> QED
      BY <3>1, <3>2
  <2> QED
    BY <1>1, <1>2, <2>3, <2>5, <2>6
<1>7. CASE head.type = "forwarded"
  <2>1. Arriving = [order.pending EXCEPT ![head.sequence].state = "forwarded"]
    BY <1>2, <1>7 DEF Pending
  <2>2. order.pending[head.sequence].state = "reserved"
    BY <1>1, <1>7 DEF Accepts
  <2>3. /\ DOMAIN Arriving = DOMAIN order.pending
        /\ \A n \in DOMAIN order.pending :
              /\ Arriving[n].frame = order.pending[n].frame
              /\ n # head.sequence => Arriving[n].state = order.pending[n].state
              /\ n = head.sequence => Arriving[n].state = "forwarded"
    BY <1>3, <2>1 DEF Entries
  <2>4. ASSUME NEW n, NEW f, Carried(n, f)
        PROVE  \/ n \in DOMAIN Arriving /\ f \in Arriving[n].frame
               \/ \E k \in Position : /\ k # 1 /\ Event(k, "reserved")
                                      /\ channel[k].sequence = n /\ f \in channel[k].frame
    <3>1. ~Event(1, "reserved")
      BY <1>7 DEF Event
    <3> QED
      BY <2>3, <2>4, <3>1 DEF Carried
  <2>5. ASSUME NEW n \in DOMAIN Arriving
        PROVE  /\ n \in Nat /\ order.ready <= n
               /\ Arriving[n].state = "retired" => Arriving[n].frame = {}
               /\ Arriving[n].state # "retired" => \E f \in Frames : Arriving[n].frame = {f}
               /\ \A f \in Arriving[n].frame : Carried(n, f)
    BY <1>3, <1>5, <2>2, <2>3, <2>5 DEF Carried
  <2> QED
    BY <1>1, <1>2, <2>3, <2>4, <2>5
<1>8. CASE head.type = "finished"
  <2>1. Arriving = [n \in DOMAIN order.pending |->
                      IF Retires(head, order.pending[n])
                      THEN Entry("retired", order.pending[n].direction, {})
                      ELSE order.pending[n]]
    BY <1>2, <1>8 DEF Pending
  <2>2. /\ DOMAIN Arriving = DOMAIN order.pending
        /\ \A n \in DOMAIN order.pending :
              /\ Retires(head, order.pending[n]) =>
                    Arriving[n].state = "retired" /\ Arriving[n].frame = {}
              /\ ~Retires(head, order.pending[n]) => Arriving[n] = order.pending[n]
    BY <2>1 DEF Entry
  <2>3. ASSUME NEW n, NEW f, Carried(n, f)
        PROVE  \/ n \in DOMAIN Arriving /\ f \in Arriving[n].frame
               \/ \E k \in Position : /\ k # 1 /\ Event(k, "reserved")
                                      /\ channel[k].sequence = n /\ f \in channel[k].frame
               \/ head.type = "finished" /\ Waiting(order.pending, n, head.direction)
    <3>1. ~Event(1, "reserved")
      BY <1>8 DEF Event
    <3> QED
      BY <1>8, <2>2, <2>3, <3>1 DEF Carried, Retires, Waiting
  <2>4. ASSUME NEW n \in DOMAIN Arriving
        PROVE  /\ n \in Nat /\ order.ready <= n
               /\ Arriving[n].state = "retired" => Arriving[n].frame = {}
               /\ Arriving[n].state # "retired" => \E f \in Frames : Arriving[n].frame = {f}
               /\ \A f \in Arriving[n].frame : Carried(n, f)
    BY <1>3, <1>5, <2>2, <2>4 DEF Carried
  <2>5. \A n \in DOMAIN order.pending : order.pending[n].state = "forwarded" =>
           Arriving[n].state = "forwarded"
    BY <2>2 DEF Retires
  <2> QED
    BY <1>1, <1>2, <2>2, <2>3, <2>4, <2>5
<1> QED
  BY <1>1, <1>6, <1>7, <1>8 DEF Events

\* What the step hands to the correlator: the frames of Leaving, by number.
LEMMA HandledFrames ==
  ASSUME IInv, OrderInv, channel # <<>>, NEW next, HandleEvent(Head(channel), next)
  PROVE  /\ Leaving \in SUBSET Nat /\ IsFiniteSet(Leaving)
         /\ handled' \in Seq(Frames)
         /\ Len(handled') = Len(handled) + Cardinality(Leaving)
         /\ \A i \in 1 .. Len(handled) : handled'[i] = handled[i]
         /\ \A n \in Leaving : handled'[Len(handled) + Rank(Leaving, n)] \in Arriving[n].frame
         /\ order'.ready = order.ready + Cardinality(Ready(Arriving))
         /\ order'.pending = [n \in DOMAIN Arriving \ Ready(Arriving) |-> Arriving[n]]
         /\ DOMAIN Arriving \subseteq 0 .. order'.reservation - 1
         /\ order'.reservation \in Nat /\ order.reservation <= order'.reservation
<1> DEFINE P == Arriving
           W == Leaving
           D == Drained(P)
           H == [k \in DOMAIN D |-> CHOOSE f \in D[k].frame : TRUE]
<1>1. /\ order' = [reservation |-> NextReservation(Head(channel)),
                   ready |-> order.ready + Cardinality(Ready(P)),
                   pending |-> [n \in DOMAIN P \ Ready(P) |-> P[n]]]
      /\ handled' = handled \o H
  BY DEF HandleEvent, Arriving
<1>2. /\ TypeOK /\ Head(channel) \in Events /\ handled \in Seq(Frames)
  BY HeadType DEF IInv, OrderInv
<1>3. /\ order.reservation \in Nat
      /\ NextReservation(Head(channel)) \in {order.reservation, order.reservation + 1}
  BY <1>2 DEF NextReservation, TypeOK
<1>4. /\ order'.reservation \in Nat /\ order.reservation <= order'.reservation
      /\ order'.ready = order.ready + Cardinality(Ready(P))
      /\ order'.pending = [n \in DOMAIN P \ Ready(P) |-> P[n]]
  BY <1>1, <1>3
<1>5. DOMAIN P \subseteq 0 .. order'.reservation - 1
  <2>1. Accepts(Head(channel)) /\ P = Pending(Head(channel))
    BY HeadAccepted, ArrivedFrames DEF EventsAccepted
  <2>2. DOMAIN order.pending \subseteq 0 .. order.reservation - 1
    BY <1>2 DEF TypeOK
  <2>3. CASE Head(channel).type = "reserved"
    <3>1. /\ Head(channel).sequence = order.reservation
          /\ order'.reservation = order.reservation + 1
      BY <1>1, <2>1, <2>3 DEF Accepts, NextReservation
    <3>2. DOMAIN P = DOMAIN order.pending \cup {order.reservation}
      BY <2>1, <2>3, <3>1 DEF Pending
    <3> QED
      BY <1>3, <2>2, <3>1, <3>2
  <2>4. CASE Head(channel).type # "reserved"
    <3>1. DOMAIN P = DOMAIN order.pending
      BY <1>2, <2>1, <2>4 DEF Pending, Events
    <3> QED
      BY <1>3, <1>4, <2>2, <3>1
  <2> QED
    BY <2>3, <2>4
<1>6. Ready(P) \subseteq Nat /\ IsFiniteSet(Ready(P)) /\ Ready(P) \subseteq DOMAIN P
  BY <1>2, <1>4, <1>5, ReadyCount DEF TypeOK
<1>7. W \in SUBSET Nat /\ W \in SUBSET Ready(P) /\ \A n \in W : P[n].state = "forwarded"
  BY <1>6 DEF Leaving
<1>8. IsFiniteSet(W)
  BY <1>6, <1>7, FS_Subset
<1>9. /\ Cardinality(W) \in Nat
      /\ \A n \in W : Rank(W, n) \in 1 .. Cardinality(W)
      /\ \A m, n \in W : m < n => Rank(W, m) < Rank(W, n)
      /\ \A k \in 1 .. Cardinality(W) : \E n \in W : Rank(W, n) = k
  BY <1>7, <1>8, Ranks
<1> DEFINE chosen(k) == CHOOSE n \in W : Rank(W, n) = k
<1>10. D = [k \in 1 .. Cardinality(W) |-> P[chosen(k)]]
  BY DEF Drained, Leaving, Rank
<1>11. ASSUME NEW n \in W PROVE chosen(Rank(W, n)) = n
  <2> DEFINE m == chosen(Rank(W, n))
  <2>1. m \in W /\ Rank(W, m) = Rank(W, n)
    OBVIOUS
  <2> HIDE DEF m
  <2>2. m \in Nat /\ n \in Nat /\ Rank(W, m) \in Nat /\ Rank(W, n) \in Nat
    BY <1>7, <1>9, <2>1
  <2>3. ~(m < n) /\ ~(n < m)
    BY <1>9, <2>1, <2>2
  <2>4. m = n
    BY <2>2, <2>3
  <2> QED
    BY <2>4 DEF m
<1>12. \A n \in W : \E f \in Frames : P[n].frame = {f}
  <2>1. \A n \in DOMAIN P : P[n].state # "retired" => \E f \in Frames : P[n].frame = {f}
    BY ArrivedFrames
  <2> QED
    BY <1>6, <1>7, <2>1
<1>13. /\ DOMAIN H = 1 .. Cardinality(W)
       /\ \A k \in 1 .. Cardinality(W) : \E n \in W : Rank(W, n) = k /\ H[k] \in P[n].frame
  <2>1. DOMAIN D = 1 .. Cardinality(W)
    BY <1>10
  <2>2. ASSUME NEW k \in 1 .. Cardinality(W)
        PROVE  \E n \in W : Rank(W, n) = k /\ H[k] \in P[n].frame
    <3>1. PICK n \in W : Rank(W, n) = k
      BY <1>9
    <3>2. D[k] = P[n]
      BY <1>10, <1>11, <3>1
    <3>3. H[k] = CHOOSE f \in P[n].frame : TRUE
      BY <2>1, <3>2
    <3>4. H[k] \in P[n].frame
      BY <1>12, <3>3
    <3> QED
      BY <3>1, <3>4
  <2> QED
    BY <2>1, <2>2
<1> HIDE DEF H, D, W, P, chosen
<1>14. H \in [1 .. Cardinality(W) -> Frames]
  <2>1. \A k \in 1 .. Cardinality(W) : H[k] \in Frames
    BY <1>12, <1>13
  <2>2. H = [k \in DOMAIN H |-> H[k]]
    BY DEF H
  <2> QED
    BY <1>13, <2>1, <2>2
<1>15. H \in Seq(Frames) /\ Len(H) = Cardinality(W)
  BY <1>9, <1>14
<1>16. /\ handled' \in Seq(Frames)
       /\ Len(handled') = Len(handled) + Cardinality(W)
       /\ \A i \in 1 .. Len(handled) : handled'[i] = handled[i]
       /\ \A k \in 1 .. Cardinality(W) : handled'[Len(handled) + k] = H[k]
  <2>1. handled' = handled \o H
    BY <1>1
  <2>2. Len(handled) \in Nat
    BY <1>2
  <2>3. /\ handled' \in Seq(Frames)
        /\ Len(handled') = Len(handled) + Len(H)
        /\ \A i \in 1 .. Len(handled) + Len(H) : handled'[i] =
              IF i <= Len(handled) THEN handled[i] ELSE H[i - Len(handled)]
    BY <1>2, <1>15, <2>1, ConcatProperties
  <2>4. \A i \in 1 .. Len(handled) : handled'[i] = handled[i]
    BY <1>9, <1>15, <2>2, <2>3
  <2>5. ASSUME NEW k \in 1 .. Cardinality(W) PROVE handled'[Len(handled) + k] = H[k]
    BY <1>9, <1>15, <2>2, <2>3
  <2> QED
    BY <1>15, <2>3, <2>4, <2>5
<1>17. ASSUME NEW n \in W PROVE handled'[Len(handled) + Rank(W, n)] \in P[n].frame
  <2>1. PICK m \in W : Rank(W, m) = Rank(W, n) /\ H[Rank(W, n)] \in P[m].frame
    BY <1>9, <1>13
  <2>2. m = n
    BY <1>11, <2>1
  <2> QED
    BY <1>9, <1>16, <2>1, <2>2
<1> QED
  BY <1>4, <1>5, <1>7, <1>8, <1>16, <1>17 DEF W, P

\* The positions shift when the head is taken.
LEMMA Shifted ==
  ASSUME TypeOK, channel # <<>>, channel' = Tail(channel)
  PROVE  /\ \A k \in Position' : k \in Nat /\ k + 1 \in Position /\ channel'[k] = channel[k + 1]
         /\ \A k \in Position : k \in Nat /\ (k # 1 => /\ k - 1 \in Position'
                                                      /\ channel'[k - 1] = channel[k])
         /\ 1 \in Position /\ channel[1] = Head(channel)
BY DEF TypeOK, Position

\* A frame that was written stays ahead of what it was ahead of: handling an
\* event hands it on, or leaves it where it is.
LEMMA HandleAhead ==
  ASSUME IInv, OrderInv, channel # <<>>, NEW next, HandleEvent(Head(channel), next)
  PROVE  /\ \A n, f : Carried(n, f)' => Carried(n, f)
         /\ \A n, f : Carried(n, f)
                /\ ~(/\ Head(channel).type = "finished"
                     /\ Waiting(order.pending, n, Head(channel).direction))
              => Carried(n, f)' \/ (n \in Leaving /\ f \in Arriving[n].frame)
         /\ \A n \in Leaving : \A f \in Arriving[n].frame : f.uid \in HandledUids'
         /\ HandledUids \subseteq HandledUids'
         /\ \A n : Secured(n) => Secured(n)' \/ n \in Leaving
         /\ \A u, n : Ahead(u, n) => Ahead(u, n)'
<1>1. /\ TypeOK /\ Accepts(Head(channel)) /\ channel' = Tail(channel) /\ pump' = pump
  BY HeadAccepted DEF IInv, EventsAccepted, HandleEvent
<1>2. /\ \A k \in Position' : k \in Nat /\ k + 1 \in Position /\ channel'[k] = channel[k + 1]
      /\ \A k \in Position : k \in Nat /\ (k # 1 => /\ k - 1 \in Position'
                                                   /\ channel'[k - 1] = channel[k])
      /\ 1 \in Position /\ channel[1] = Head(channel)
  BY <1>1, Shifted
<1>3. /\ DOMAIN order'.pending = DOMAIN Arriving \ Ready(Arriving)
      /\ \A n \in DOMAIN order'.pending : order'.pending[n] = Arriving[n]
  <2>1. order'.pending = [n \in DOMAIN Arriving \ Ready(Arriving) |-> Arriving[n]]
    BY HandledFrames
  <2> QED
    BY <2>1
<1>4. /\ \A n \in DOMAIN Arriving :
            /\ Arriving[n].state = "retired" => Arriving[n].frame = {}
            /\ \A f \in Arriving[n].frame : Carried(n, f)
      /\ \A n, f : Carried(n, f) =>
            \/ n \in DOMAIN Arriving /\ f \in Arriving[n].frame
            \/ \E k \in Position : /\ k # 1 /\ Event(k, "reserved")
                                   /\ channel[k].sequence = n /\ f \in channel[k].frame
            \/ /\ Head(channel).type = "finished"
               /\ Waiting(order.pending, n, Head(channel).direction)
  BY ArrivedFrames
<1>5. \A n \in Ready(Arriving) : n \in DOMAIN Arriving /\ Arriving[n].state # "reserved"
  <2>1. ASSUME NEW n \in Ready(Arriving)
        PROVE  n \in DOMAIN Arriving /\ n \in Nat /\ order.ready <= n
               /\ \A k \in order.ready .. n : Arriving[k].state # "reserved"
    BY ArrivedFrames DEF Ready
  <2>2. order.ready \in Nat
    BY <1>1 DEF TypeOK
  <2> QED
    BY <2>1, <2>2
<1>6. \A n \in Ready(Arriving) : \A f \in Arriving[n].frame : n \in Leaving
  <2>1. \A n \in DOMAIN Arriving : Arriving[n].state \in {"reserved", "forwarded", "retired"}
    <3>1. Arriving = Pending(Head(channel)) /\ Head(channel) \in Events
      BY <1>1, ArrivedFrames, HeadType
    <3>2. \A n \in DOMAIN order.pending :
             order.pending[n].state \in {"reserved", "forwarded", "retired"}
      BY <1>1 DEF TypeOK, Entries
    <3>3. CASE Head(channel).type = "reserved"
      BY <3>1, <3>2, <3>3 DEF Pending, Entry
    <3>4. CASE Head(channel).type = "forwarded"
      <4>1. Arriving = [order.pending EXCEPT ![Head(channel).sequence].state = "forwarded"]
        BY <3>1, <3>4 DEF Pending
      <4>2. \A n \in DOMAIN order.pending : order.pending[n] \in Entries
        BY <1>1 DEF TypeOK
      <4> QED
        BY <4>1, <4>2 DEF Entries
    <3>5. CASE Head(channel).type = "finished"
      BY <3>1, <3>2, <3>5 DEF Pending, Entry
    <3> QED
      BY <3>1, <3>3, <3>4, <3>5 DEF Events
  <2> QED
    BY <1>4, <1>5, <2>1 DEF Leaving
<1>7. ASSUME NEW n, NEW f, Carried(n, f)' PROVE Carried(n, f)
  <2>1. CASE \E k \in Position' : /\ Event(k, "reserved")' /\ channel'[k].sequence = n
                                  /\ f \in channel'[k].frame
    BY <1>2, <2>1 DEF Carried, Event
  <2>2. CASE n \in DOMAIN order'.pending /\ f \in order'.pending[n].frame
    BY <1>3, <1>4, <2>2
  <2> QED
    BY <1>7, <2>1, <2>2 DEF Carried
<1>8. ASSUME NEW n, NEW f, Carried(n, f),
             ~(/\ Head(channel).type = "finished"
               /\ Waiting(order.pending, n, Head(channel).direction))
      PROVE  Carried(n, f)' \/ (n \in Leaving /\ f \in Arriving[n].frame)
  <2>1. CASE n \in DOMAIN Arriving /\ f \in Arriving[n].frame
    BY <1>3, <1>6, <2>1 DEF Carried
  <2>2. ASSUME NEW k \in Position, k # 1, Event(k, "reserved"),
               channel[k].sequence = n, f \in channel[k].frame
        PROVE  Carried(n, f)'
    <3>1. k - 1 \in Position' /\ channel'[k - 1] = channel[k]
      BY <1>2, <2>2
    <3> QED
      BY <2>2, <3>1 DEF Carried, Event
  <2> QED
    BY <1>4, <1>8, <2>1, <2>2
<1>9. HandledUids \subseteq HandledUids'
      /\ \A n \in Leaving : \A f \in Arriving[n].frame : f.uid \in HandledUids'
  <2>1. /\ Leaving \in SUBSET Nat /\ IsFiniteSet(Leaving)
        /\ Len(handled') = Len(handled) + Cardinality(Leaving)
        /\ \A i \in 1 .. Len(handled) : handled'[i] = handled[i]
        /\ \A n \in Leaving : handled'[Len(handled) + Rank(Leaving, n)] \in Arriving[n].frame
    BY HandledFrames
  <2>2. /\ Cardinality(Leaving) \in Nat
        /\ \A n \in Leaving : Rank(Leaving, n) \in 1 .. Cardinality(Leaving)
    BY <2>1, Ranks
  <2>3. Len(handled) \in Nat
    BY DEF OrderInv
  <2>4. \A n \in Leaving : \E f \in Frames : Arriving[n].frame = {f}
    <3>1. \A n \in DOMAIN Arriving : Arriving[n].state # "retired" =>
             \E f \in Frames : Arriving[n].frame = {f}
      BY ArrivedFrames
    <3> QED
      BY <1>5, <3>1 DEF Leaving
  <2>5. ASSUME NEW i \in 1 .. Len(handled) PROVE handled[i].uid \in HandledUids'
    <3>1. i \in 1 .. Len(handled') /\ handled'[i] = handled[i]
      BY <2>1, <2>2, <2>3
    <3> QED
      BY <3>1 DEF HandledUids
  <2>6. ASSUME NEW n \in Leaving, NEW f \in Arriving[n].frame PROVE f.uid \in HandledUids'
    <3> DEFINE j == Len(handled) + Rank(Leaving, n)
    <3>1. handled'[j] = f
      BY <2>1, <2>4
    <3>2. j \in 1 .. Len(handled')
      BY <2>1, <2>2, <2>3
    <3> HIDE DEF j
    <3> QED
      BY <3>1, <3>2 DEF HandledUids
  <2>7. \A i \in 1 .. Len(handled) : handled[i].uid \in HandledUids'
    BY <2>5
  <2>8. HandledUids \subseteq HandledUids'
    <3> SUFFICES ASSUME NEW u \in HandledUids PROVE u \in HandledUids'
      OBVIOUS
    <3>1. PICK i \in 1 .. Len(handled) : u = handled[i].uid
      BY DEF HandledUids
    <3> QED
      BY <2>7, <3>1
  <2> QED
    BY <2>6, <2>8
<1>10. ASSUME NEW n, Secured(n) PROVE Secured(n)' \/ n \in Leaving
  <2>1. CASE n \in DOMAIN order.pending /\ order.pending[n].state = "forwarded"
    <3>1. n \in DOMAIN Arriving /\ Arriving[n].state = "forwarded"
      BY <2>1, ArrivedFrames
    <3> QED
      BY <1>3, <3>1 DEF Secured, Leaving
  <2>2. ASSUME NEW k \in Position, Event(k, "forwarded"), channel[k].sequence = n
        PROVE  Secured(n)' \/ n \in Leaving
    <3>1. CASE k = 1
      <4>1. Head(channel).type = "forwarded" /\ Head(channel).sequence = n
        BY <1>2, <2>2, <3>1 DEF Event
      <4>2. /\ n \in DOMAIN order.pending
            /\ Arriving = [order.pending EXCEPT ![n].state = "forwarded"]
        BY <1>1, <4>1, ArrivedFrames DEF Accepts, Pending
      <4>3. order.pending[n] \in Entries
        BY <1>1, <4>2 DEF TypeOK
      <4>4. n \in DOMAIN Arriving /\ Arriving[n].state = "forwarded"
        BY <4>2, <4>3 DEF Entries
      <4> QED
        BY <1>3, <4>4 DEF Secured, Leaving
    <3>2. CASE k # 1
      <4>1. k - 1 \in Position' /\ channel'[k - 1] = channel[k]
        BY <1>2, <3>2
      <4> QED
        BY <2>2, <4>1 DEF Secured, Event
    <3> QED
      BY <3>1, <3>2
  <2>3. CASE \E d \in Directions : pump[d].pc = "completing" /\ pump[d].sequence = n
    BY <1>1, <2>3 DEF Secured
  <2> QED
    BY <1>10, <2>1, <2>2, <2>3 DEF Secured
<1>11. ASSUME NEW k \in Position', Event(k, "reserved")' PROVE channel'[k].sequence \notin DOMAIN Arriving
  <2>1. channel'[k].sequence \in order'.reservation .. nextSequence' - 1
    BY <1>11, HandleInv DEF ReservedInv
  <2>2. DOMAIN Arriving \subseteq 0 .. order'.reservation - 1 /\ order'.reservation \in Nat
    BY HandledFrames
  <2>3. nextSequence' \in Nat
    BY <1>1 DEF HandleEvent, TypeOK
  <2> QED
    BY <2>1, <2>2, <2>3
<1>12. ASSUME NEW u, NEW n, Ahead(u, n) PROVE Ahead(u, n)'
  <2>1. CASE u \in HandledUids
    BY <1>9, <2>1 DEF Ahead
  <2>2. ASSUME NEW m \in Nat, m < n, Secured(m), NEW f \in Frames, f.uid = u, Carried(m, f)
        PROVE  Ahead(u, n)'
    <3>1. ~(/\ Head(channel).type = "finished"
            /\ Waiting(order.pending, m, Head(channel).direction))
      BY <2>2, SecuredStays
    <3>2. CASE m \in Leaving /\ f \in Arriving[m].frame
      BY <1>9, <2>2, <3>2 DEF Ahead
    <3>3. CASE ~(m \in Leaving /\ f \in Arriving[m].frame)
      <4>1. Carried(m, f)'
        BY <1>8, <2>2, <3>1, <3>3
      <4>2. Secured(m)'
        <5>1. m \notin Leaving
          BY <1>3, <1>11, <4>1 DEF Leaving, Ready, Carried
        <5> QED
          BY <1>10, <2>2, <5>1
      <4> QED
        BY <2>2, <4>1, <4>2 DEF Ahead
    <3> QED
      BY <3>2, <3>3
  <2> QED
    BY <1>12, <2>1, <2>2 DEF Ahead
<1> QED
  BY <1>7, <1>8, <1>9, <1>10, <1>12

LEMMA HandleOrder ==
  ASSUME IInv, OrderInv, CarriedInv, CausalOrder, channel # <<>>,
         NEW next, HandleEvent(Head(channel), next)
  PROVE  OrderInv' /\ CausalOrder'
<1>1. /\ TypeOK /\ channel' = Tail(channel) /\ order.ready \in Nat
  BY DEF IInv, TypeOK, HandleEvent
<1>2. /\ Leaving \in SUBSET Nat /\ IsFiniteSet(Leaving)
      /\ handled' \in Seq(Frames)
      /\ Len(handled') = Len(handled) + Cardinality(Leaving)
      /\ \A i \in 1 .. Len(handled) : handled'[i] = handled[i]
      /\ \A n \in Leaving : handled'[Len(handled) + Rank(Leaving, n)] \in Arriving[n].frame
      /\ order'.ready = order.ready + Cardinality(Ready(Arriving))
      /\ order'.pending = [n \in DOMAIN Arriving \ Ready(Arriving) |-> Arriving[n]]
      /\ DOMAIN Arriving \subseteq 0 .. order'.reservation - 1
      /\ order'.reservation \in Nat /\ order.reservation <= order'.reservation
  BY HandledFrames
<1>3. \A n \in DOMAIN Arriving :
         /\ n \in Nat /\ order.ready <= n
         /\ Arriving[n].state = "retired" => Arriving[n].frame = {}
         /\ Arriving[n].state # "retired" => \E f \in Frames : Arriving[n].frame = {f}
         /\ \A f \in Arriving[n].frame : Carried(n, f)
  BY ArrivedFrames
<1>4. OrderInv'
  <2>1. order'.ready <= order'.reservation
    <3>1. order.ready <= order'.reservation
      BY <1>1, <1>2 DEF OrderInv, TypeOK
    <3> QED
      BY <1>1, <1>2, <3>1, ReadyCount
  <2>2. ASSUME NEW n \in DOMAIN order'.pending
        PROVE  /\ order'.ready <= n
               /\ order'.pending[n].state = "retired" => order'.pending[n].frame = {}
               /\ order'.pending[n].state # "retired" =>
                     \E f \in Frames : order'.pending[n].frame = {f}
    <3>1. n \in DOMAIN Arriving \ Ready(Arriving) /\ order'.pending[n] = Arriving[n]
      BY <1>2, <2>2
    <3>2. order'.ready <= n
      BY <1>1, <1>2, <1>3, <3>1, ReadyCount
    <3> QED
      BY <1>3, <3>1, <3>2
  <2>3. \A k \in Position' : Event(k, "reserved")' => \E f \in Frames : channel'[k].frame = {f}
    <3>1. \A k \in Position' : k + 1 \in Position /\ channel'[k] = channel[k + 1]
      BY <1>1, Shifted
    <3> QED
      BY <3>1 DEF OrderInv, Event
  <2> QED
    BY <1>2, <2>1, <2>2, <2>3 DEF OrderInv
<1>5. /\ Len(handled) \in Nat /\ Cardinality(Leaving) \in Nat
      /\ \A n \in Leaving : Rank(Leaving, n) \in 1 .. Cardinality(Leaving)
      /\ \A m, n \in Leaving : m < n => Rank(Leaving, m) < Rank(Leaving, n)
      /\ \A k \in 1 .. Cardinality(Leaving) : \E n \in Leaving : Rank(Leaving, n) = k
  <2>1. Len(handled) \in Nat
    BY DEF OrderInv
  <2> QED
    BY <1>2, <2>1, Ranks
<1>6. \A n \in Leaving : n \in Ready(Arriving) /\ n \in DOMAIN Arriving /\ n \in Nat
  BY <1>1, <1>2, ReadyCount DEF Leaving
<1>7. ASSUME NEW n \in Leaving, NEW f \in Arriving[n].frame, NEW u \in f.known
      PROVE  \E i \in 1 .. Len(handled) + Rank(Leaving, n) - 1 : handled'[i].uid = u
  <2>1. Carried(n, f) /\ n \in Nat /\ f \in Frames
    BY <1>3, <1>6 DEF Leaving
  <2>2. Ahead(u, n)
    BY <2>1 DEF CarriedInv
  <2>3. CASE u \in HandledUids
    <3>1. PICK i \in 1 .. Len(handled) : handled[i].uid = u
      BY <2>3 DEF HandledUids
    <3>2. i \in 1 .. Len(handled) + Rank(Leaving, n) - 1 /\ handled'[i] = handled[i]
      BY <1>2, <1>5, <3>1
    <3> QED
      BY <3>1, <3>2
  <2>4. ASSUME NEW m \in Nat, m < n, Secured(m), NEW g \in Frames, g.uid = u, Carried(m, g)
        PROVE  \E i \in 1 .. Len(handled) + Rank(Leaving, n) - 1 : handled'[i].uid = u
    <3>1. ~(/\ Head(channel).type = "finished"
            /\ Waiting(order.pending, m, Head(channel).direction))
      BY <2>4, SecuredStays
    <3>2. \/ m \in DOMAIN Arriving /\ g \in Arriving[m].frame
          \/ \E k \in Position : k # 1 /\ Event(k, "reserved") /\ channel[k].sequence = m
      BY <2>4, <3>1, ArrivedFrames
    <3>3. ASSUME NEW k \in Position, k # 1, Event(k, "reserved"), channel[k].sequence = m PROVE FALSE
      <4>1. k - 1 \in Position' /\ channel'[k - 1] = channel[k]
        BY <1>1, <3>3, Shifted
      <4>2. channel'[k - 1].sequence \in order'.reservation .. nextSequence' - 1
        BY <3>3, <4>1, HandleInv DEF ReservedInv, Event
      <4>3. m >= order'.reservation
        BY <3>3, <4>1, <4>2
      <4> QED
        BY <1>2, <1>6, <2>4, <4>3
    <3>4. m \in DOMAIN Arriving /\ g \in Arriving[m].frame /\ order.ready <= m
      BY <1>3, <3>2, <3>3
    <3>5. m \in Leaving
      <4>1. \A k \in order.ready .. n : k \in DOMAIN Arriving /\ Arriving[k].state # "reserved"
        BY <1>6 DEF Ready
      <4>2. m \in order.ready .. n /\ \A k \in order.ready .. m : k \in order.ready .. n
        BY <1>1, <1>6, <2>4, <3>4
      <4>3. m \in Ready(Arriving)
        BY <3>4, <4>1, <4>2 DEF Ready
      <4>4. Carried(m, g)' \/ m \in Leaving
        BY <2>4, <3>1, HandleAhead
      <4>5. ~Carried(m, g)'
        <5>1. m \notin DOMAIN order'.pending
          BY <1>2, <4>3
        <5>2. ASSUME NEW k \in Position', Event(k, "reserved")' PROVE channel'[k].sequence # m
          <6>1. k + 1 \in Position /\ channel'[k] = channel[k + 1] /\ k + 1 # 1
            <7>1. k \in Nat /\ k + 1 \in Position /\ channel'[k] = channel[k + 1]
              BY <1>1, Shifted
            <7> QED
              BY <7>1 DEF Position
          <6> QED
            BY <3>3, <5>2, <6>1 DEF Event
        <5> QED
          BY <5>1, <5>2 DEF Carried
      <4> QED
        BY <4>4, <4>5
    <3>6. handled'[Len(handled) + Rank(Leaving, m)] = g
      <4>1. handled'[Len(handled) + Rank(Leaving, m)] \in Arriving[m].frame
        BY <1>2, <3>5
      <4>2. \E h \in Frames : Arriving[m].frame = {h}
        BY <1>3, <3>4
      <4> QED
        BY <3>4, <4>1, <4>2
    <3>7. Len(handled) + Rank(Leaving, m) \in 1 .. Len(handled) + Rank(Leaving, n) - 1
      <4>1. Rank(Leaving, m) < Rank(Leaving, n)
        BY <1>5, <2>4, <3>5
      <4>2. /\ Rank(Leaving, m) \in 1 .. Cardinality(Leaving)
            /\ Rank(Leaving, n) \in 1 .. Cardinality(Leaving)
        BY <1>5, <3>5, Zenon
      <4> QED
        BY <1>5, <4>1, <4>2
    <3> QED
      BY <2>4, <3>6, <3>7
  <2> QED
    BY <2>2, <2>3, <2>4 DEF Ahead
<1>8. CausalOrder'
  <2> SUFFICES ASSUME NEW j \in 1 .. Len(handled'), NEW u \in handled'[j].known
               PROVE  \E i \in 1 .. j - 1 : handled'[i].uid = u
    BY DEF CausalOrder
  <2>1. CASE j \in 1 .. Len(handled)
    <3>1. handled'[j] = handled[j]
      BY <1>2, <2>1
    <3>2. PICK i \in 1 .. j - 1 : handled[i].uid = u
      BY <2>1, <3>1 DEF CausalOrder
    <3>3. i \in 1 .. Len(handled)
      BY <1>5, <2>1
    <3> QED
      BY <1>2, <3>2, <3>3
  <2>2. CASE j \notin 1 .. Len(handled)
    <3>1. j - Len(handled) \in 1 .. Cardinality(Leaving)
      BY <1>2, <1>5, <2>2
    <3>2. PICK n \in Leaving : Rank(Leaving, n) = j - Len(handled)
      BY <1>5, <3>1
    <3>3. Len(handled) + Rank(Leaving, n) = j
      BY <1>5, <3>1, <3>2
    <3>4. handled'[j] \in Arriving[n].frame
      BY <1>2, <3>3
    <3>5. \E i \in 1 .. Len(handled) + Rank(Leaving, n) - 1 : handled'[i].uid = u
      BY <1>7, <3>4
    <3>6. Len(handled) + Rank(Leaving, n) - 1 = j - 1
      <4>1. Rank(Leaving, n) \in Nat /\ j \in Nat
        BY <1>5
      <4> QED
        BY <1>5, <3>3, <4>1, SMTT(30)
    <3> QED
      BY <3>5, <3>6
  <2> QED
    BY <2>1, <2>2
<1> QED
  BY <1>4, <1>8

-----------------------------------------------------------------------------
(* The other steps.                                                         *)

\* What is ahead of a reservation is ahead of the later ones.
LEMMA AheadLater ==
  ASSUME NEW u, NEW m \in Nat, NEW n \in Nat, m <= n, Ahead(u, m)
  PROVE  Ahead(u, n)
<1>1. CASE u \in HandledUids
  BY <1>1 DEF Ahead
<1>2. ASSUME NEW i \in Nat, i < m, Secured(i), \E f \in Frames : f.uid = u /\ Carried(i, f)
      PROVE  Ahead(u, n)
  <2>1. i < n
    BY <1>2
  <2> QED
    BY <1>2, <2>1 DEF Ahead
<1> QED
  BY <1>1, <1>2 DEF Ahead

\* A step that leaves the channel and the order alone.
LEMMA QuietAhead ==
  ASSUME UNCHANGED <<channel, order, handled>>,
         \A d \in Directions : pump[d].pc = "completing" =>
            pump'[d].pc = "completing" /\ pump'[d].sequence = pump[d].sequence
  PROVE  /\ \A n, f : Carried(n, f)' <=> Carried(n, f)
         /\ HandledUids' = HandledUids
         /\ \A n : Secured(n) => Secured(n)'
         /\ \A u, n : Ahead(u, n) => Ahead(u, n)'
<1>1. ASSUME NEW n, NEW f PROVE Carried(n, f)' <=> Carried(n, f)
  BY DEF Carried, Position, Event
<1>2. HandledUids' = HandledUids
  BY DEF HandledUids
<1>3. ASSUME NEW n, Secured(n) PROVE Secured(n)'
  BY <1>3 DEF Secured, Position, Event
<1>4. ASSUME NEW u, NEW n, Ahead(u, n) PROVE Ahead(u, n)'
  BY <1>1, <1>2, <1>3, <1>4 DEF Ahead
<1> QED
  BY <1>1, <1>2, <1>3, <1>4

\* A pump appends an event; a pump that was completing still is, or the event
\* is its completion.
LEMMA AppendAhead ==
  ASSUME TypeOK, NEW event \in Events, channel' = Append(channel, event),
         UNCHANGED <<order, handled>>,
         \A d \in Directions : pump[d].pc = "completing" =>
            \/ pump'[d].pc = "completing" /\ pump'[d].sequence = pump[d].sequence
            \/ event.type = "forwarded" /\ event.sequence = pump[d].sequence
  PROVE  /\ \A n, f : Carried(n, f) => Carried(n, f)'
         /\ \A n, f : Carried(n, f)' =>
               \/ Carried(n, f)
               \/ event.type = "reserved" /\ event.sequence = n /\ f \in event.frame
         /\ \A n, f : event.type = "reserved" /\ event.sequence = n /\ f \in event.frame
               => Carried(n, f)'
         /\ \A u, n : Ahead(u, n) => Ahead(u, n)'
<1> DEFINE last == Len(channel) + 1
<1>1. /\ Position' = Position \cup {last}
      /\ \A k \in Position : channel'[k] = channel[k]
      /\ channel'[last] = event
  BY Appended
<1> HIDE DEF last
<1>2. ASSUME NEW n, NEW f, Carried(n, f) PROVE Carried(n, f)'
  BY <1>1, <1>2 DEF Carried, Event
<1>3. ASSUME NEW n, NEW f, Carried(n, f)'
      PROVE  \/ Carried(n, f)
             \/ event.type = "reserved" /\ event.sequence = n /\ f \in event.frame
  BY <1>1, <1>3 DEF Carried, Event
<1>4. ASSUME NEW n, NEW f, event.type = "reserved", event.sequence = n, f \in event.frame
      PROVE  Carried(n, f)'
  BY <1>1, <1>4 DEF Carried, Event
<1>5. ASSUME NEW n, Secured(n) PROVE Secured(n)'
  <2>1. CASE \E d \in Directions : pump[d].pc = "completing" /\ pump[d].sequence = n
    BY <1>1, <2>1 DEF Secured, Event
  <2>2. CASE ~ \E d \in Directions : pump[d].pc = "completing" /\ pump[d].sequence = n
    BY <1>1, <1>5, <2>2 DEF Secured, Event
  <2> QED
    BY <2>1, <2>2
<1>6. HandledUids' = HandledUids
  BY DEF HandledUids
<1>7. ASSUME NEW u, NEW n, Ahead(u, n) PROVE Ahead(u, n)'
  BY <1>2, <1>5, <1>6, <1>7 DEF Ahead
<1> QED
  BY <1>2, <1>3, <1>4, <1>7

\* The parts about the order alone.
LEMMA QuietOrder ==
  ASSUME OrderInv, CausalOrder, CarriedInv, UNCHANGED <<channel, order, handled>>,
         \A d \in Directions : pump[d].pc = "completing" =>
            pump'[d].pc = "completing" /\ pump'[d].sequence = pump[d].sequence
  PROVE  OrderInv' /\ CausalOrder' /\ CarriedInv'
<1>1. OrderInv'
  BY DEF OrderInv, Position, Event
<1>2. CausalOrder'
  BY DEF CausalOrder
<1>3. CarriedInv'
  <2>1. ASSUME NEW n \in Nat, NEW f \in Frames, Carried(n, f)', NEW u \in f.known
        PROVE  Ahead(u, n)'
    BY <2>1, QuietAhead DEF CarriedInv
  <2> QED
    BY <2>1 DEF CarriedInv
<1> QED
  BY <1>1, <1>2, <1>3

\* Main, when it handles no event: pumps are asked to stop, and what is on its
\* way to a child that is killed is lost.
LEMMA QuietMain ==
  ASSUME IInv, CInv, Main, ~(channel # <<>> /\ Handling)
  PROVE  CInv'
<1>1. /\ UNCHANGED <<agent, sent, source, channel, nextSequence, order, handled>>
      /\ child' = child \/ \E up \in BOOLEAN : child' = [child EXCEPT !.up = up]
      /\ \/ destination' = destination
         \/ destination' = [destination EXCEPT !["outbound"] = <<>>]
      /\ \/ pump' = pump
         \/ \E directions \in SUBSET Directions : pump' = Cancelled(directions)
  BY MainSteps DEF recorder
<1>2. \A d \in Directions : /\ pump'[d].pc = pump[d].pc
                            /\ pump'[d].sequence = pump[d].sequence
                            /\ pump'[d].frame = pump[d].frame
  BY <1>1, CancelledType DEF IInv
<1>3. /\ \A n, f : Carried(n, f)' <=> Carried(n, f)
      /\ \A u, n : Ahead(u, n) => Ahead(u, n)'
  BY <1>1, <1>2, QuietAhead
<1>4. OrderInv' /\ CausalOrder' /\ CarriedInv'
  BY <1>1, <1>2, QuietOrder DEF CInv
<1>5. agent'.sent = agent.sent /\ child'.sent = child.sent
      /\ agent'.received = agent.received /\ child'.received = child.received
  BY <1>1 DEF IInv, TypeOK
<1>6. ForwardingInv'
  BY <1>2, <1>3 DEF CInv, ForwardingInv
<1>7. DeliveredInv'
  <2>1. \A d \in Directions : destination'[d] \in {destination[d], <<>>}
    BY <1>1 DEF IInv, TypeOK
  <2>2. ASSUME NEW d \in Directions, NEW p \in 1 .. Len(destination'[d])
        PROVE  Ahead(destination[d][p].uid, nextSequence)'
    <3>1. destination'[d] = destination[d]
      BY <2>1, <2>2
    <3> QED
      BY <1>1, <1>3, <2>2, <3>1 DEF CInv, DeliveredInv
  <2>3. ASSUME NEW u \in agent'.received \cup child'.received PROVE Ahead(u, nextSequence)'
    BY <1>1, <1>3, <1>5, <2>3 DEF CInv, DeliveredInv
  <2> QED
    BY <2>2, <2>3 DEF DeliveredInv
<1>8. SourceInv'
  <2>1. ASSUME NEW d \in Directions, NEW u, NEW p, Coming(d, u, p) PROVE Coming(d, u, p)'
    BY <1>1, <1>2, <1>3, <2>1 DEF Coming
  <2>2. \A d \in Directions : Sender(d)'.sent = Sender(d).sent
    BY <1>5 DEF Sender
  <2> QED
    BY <1>1, <1>2, <2>1, <2>2 DEF CInv, SourceInv
<1> QED
  BY <1>4, <1>6, <1>7, <1>8 DEF CInv

\* Main, when it handles an event: what a pump still forwards is not retired.
LEMMA HandleCausal ==
  ASSUME IInv, CInv, channel # <<>>, NEW next, HandleEvent(Head(channel), next)
  PROVE  CInv'
<1>1. /\ TypeOK /\ OrderInv
      /\ UNCHANGED <<agent, child, sent, source, destination, pump, nextSequence>>
  BY DEF IInv, CInv, HandleEvent, peers
<1>2. OrderInv' /\ CausalOrder'
  BY HandleOrder DEF CInv
<1>3. /\ \A n, f : Carried(n, f)' => Carried(n, f)
      /\ \A n, f : Carried(n, f)
             /\ ~(/\ Head(channel).type = "finished"
                  /\ Waiting(order.pending, n, Head(channel).direction))
           => Carried(n, f)' \/ (n \in Leaving /\ f \in Arriving[n].frame)
      /\ \A u, n : Ahead(u, n) => Ahead(u, n)'
  BY <1>1, HandleAhead
<1>4. CarriedInv'
  <2>1. ASSUME NEW n \in Nat, NEW f \in Frames, Carried(n, f)', NEW u \in f.known
        PROVE  Ahead(u, n)'
    BY <1>3, <2>1 DEF CInv, CarriedInv
  <2> QED
    BY <2>1 DEF CarriedInv
<1>5. ForwardingInv'
  <2> SUFFICES ASSUME NEW d \in Directions, pump[d].pc = "forwarding"
               PROVE  \E f \in Frames : pump[d].frame = {f} /\ Carried(pump[d].sequence, f)'
    BY <1>1 DEF ForwardingInv
  <2>0. PICK n : n = pump[d].sequence
    OBVIOUS
  <2>1. PICK f \in Frames : pump[d].frame = {f} /\ Carried(n, f)
    BY <2>0 DEF CInv, ForwardingInv
  <2>2. Open(n, d, Len(channel) + 1) /\ Open(n, d, Len(channel) + 1)'
    <3>1. PumpInv /\ PumpInv'
      BY HandleInv DEF IInv
    <3> QED
      BY <1>1, <2>0, <3>1 DEF PumpInv
  <2>3. ~(/\ Head(channel).type = "finished"
          /\ Waiting(order.pending, n, Head(channel).direction))
    <3> SUFFICES ASSUME Head(channel).type = "finished",
                        Waiting(order.pending, n, Head(channel).direction)
                 PROVE  FALSE
      OBVIOUS
    <3>1. Open(n, Head(channel).direction, Len(channel) + 1) /\ Len(channel) + 1 \in Int
      BY <1>1 DEF Open, TypeOK
    <3>2. Head(channel).direction = d
      BY <1>1, <2>2, <3>1, OpenOnce DEF IInv
    <3>3. 1 \in Position /\ channel[1] = Head(channel)
      BY <1>1 DEF Position, TypeOK
    <3> QED
      BY <3>2, <3>3 DEF IInv, PumpInv, Event
  <2>4. n \notin Leaving
    <3>1. /\ DOMAIN Arriving \subseteq 0 .. order'.reservation - 1
          /\ order'.reservation \in Nat
          /\ order'.pending = [m \in DOMAIN Arriving \ Ready(Arriving) |-> Arriving[m]]
      BY <1>1, HandledFrames
    <3>2. CASE Waiting(order'.pending, n, d)
      BY <3>1, <3>2 DEF Waiting, Leaving
    <3>3. ASSUME NEW k \in Position', Event(k, "reserved")', channel'[k].sequence = n
          PROVE  n \notin DOMAIN Arriving
      <4>1. n \in order'.reservation .. nextSequence' - 1
        BY <3>3, HandleInv DEF ReservedInv
      <4> QED
        BY <3>1, <4>1
    <3>4. n \in Leaving => n \in DOMAIN Arriving
      BY DEF Leaving, Ready
    <3> QED
      BY <2>2, <3>2, <3>3, <3>4 DEF Open
  <2>5. Carried(n, f)'
    BY <1>3, <2>1, <2>3, <2>4
  <2> QED
    BY <1>1, <2>0, <2>1, <2>5
<1>6. DeliveredInv'
  BY <1>1, <1>3 DEF CInv, DeliveredInv
<1>7. SourceInv'
  <2>1. ASSUME NEW d \in Directions, NEW u, NEW p, Coming(d, u, p) PROVE Coming(d, u, p)'
    BY <1>1, <1>3, <2>1 DEF Coming
  <2>2. \A d \in Directions : Sender(d)' = Sender(d)
    BY <1>1 DEF Sender
  <2> QED
    BY <1>1, <2>1, <2>2 DEF CInv, SourceInv
<1> QED
  BY <1>2, <1>4, <1>5, <1>6, <1>7 DEF CInv

\* A peer writes a frame that knows what the peer had sent and received.
LEMMA PeerWrites ==
  ASSUME IInv, CInv, NEW d \in Directions, NEW frame \in Frames, Write(d, frame),
         frame.known = Sender(d).sent \cup Sender(d).received,
         \A e \in Directions : /\ Sender(e)'.received = Sender(e).received
                               /\ Sender(e)'.sent = IF e = d THEN Sender(e).sent \cup {frame.uid}
                                                             ELSE Sender(e).sent,
         UNCHANGED <<destination, pump, channel, nextSequence, order, handled>>
  PROVE  CInv'
<1>1. /\ \A n, f : Carried(n, f)' <=> Carried(n, f)
      /\ \A u, n : Ahead(u, n) => Ahead(u, n)'
  BY QuietAhead
<1>2. OrderInv' /\ CausalOrder' /\ CarriedInv'
  BY QuietOrder DEF CInv
<1>3. ForwardingInv'
  BY <1>1 DEF CInv, ForwardingInv
<1>4. agent'.received = agent.received /\ child'.received = child.received
  BY DEF Sender, Directions
<1>5. DeliveredInv'
  BY <1>1, <1>4 DEF CInv, DeliveredInv
<1>6. /\ \A e \in Directions : e # d => source'[e] = source[e]
      /\ Len(source'[d]) = Len(source[d]) + 1 /\ Len(source[d]) \in Nat
      /\ \A q \in 1 .. Len(source[d]) : source'[d][q] = source[d][q]
      /\ source'[d][Len(source[d]) + 1] = frame
  <2>1. source' = [source EXCEPT ![d] = Append(@, frame)] /\ source[d] \in Seq(Frames)
        /\ source \in [Directions -> Seq(Frames)]
    BY DEF Write, IInv, TypeOK
  <2>2. source'[d] = Append(source[d], frame)
    BY <2>1
  <2>3. \A e \in Directions : e # d => source'[e] = source[e]
    BY <2>1
  <2> QED
    BY <2>1, <2>2, <2>3
<1>7. ASSUME NEW e \in Directions, NEW u, NEW p, Coming(e, u, p) PROVE Coming(e, u, p)'
  <2>1. ASSUME NEW q \in 1 .. Len(source[e]), q < p, source[e][q].uid = u
        PROVE  Coming(e, u, p)'
    <3>1. q \in 1 .. Len(source'[e]) /\ source'[e][q] = source[e][q]
      BY <1>6, <2>1
    <3> QED
      BY <2>1, <3>1 DEF Coming
  <2> QED
    BY <1>1, <1>7, <2>1 DEF Coming
<1>8. SourceInv'
  <2> SUFFICES ASSUME NEW e \in Directions,
                      pump[e].pc \in {"reading", "forwarding", "completing"}
               PROVE  /\ \A u \in Sender(e)'.sent : Coming(e, u, Len(source[e]) + 1)'
                      /\ \A p \in 1 .. Len(source'[e]) : \A u \in source'[e][p].known :
                            Coming(e, u, p)'
    BY DEF SourceInv
  <2>1. /\ \A u \in Sender(e).sent : Coming(e, u, Len(source[e]) + 1)
        /\ \A p \in 1 .. Len(source[e]) : \A u \in source[e][p].known : Coming(e, u, p)
    BY DEF CInv, SourceInv
  <2>2. CASE e # d
    BY <1>6, <1>7, <2>1, <2>2
  <2>3. CASE e = d
    <3>0. PICK last \in Nat : last = Len(source[d]) + 2
      BY <1>6
    <3>1. ASSUME NEW u, Coming(d, u, Len(source[d]) + 1) PROVE Coming(d, u, last)
      <4>1. \A q \in 1 .. Len(source[d]) : q < last
        BY <1>6, <3>0
      <4> QED
        BY <3>1, <4>1 DEF Coming
    <3>2. ASSUME NEW u \in Sender(d)'.sent PROVE Coming(d, u, Len(source[d]) + 1)'
      <4>1. CASE u = frame.uid
        <5>1. /\ Len(source[d]) + 1 \in 1 .. Len(source'[d])
              /\ Len(source[d]) + 1 < Len(source'[d]) + 1
          BY <1>6
        <5> QED
          BY <1>6, <4>1, <5>1 DEF Coming
      <4>2. CASE u \in Sender(d).sent
        <5>1. Coming(d, u, last)'
          BY <1>7, <2>1, <2>3, <3>1, <4>2
        <5>2. last = Len(source'[d]) + 1
          BY <1>6, <3>0
        <5> QED
          BY <5>1, <5>2 DEF Coming
      <4> QED
        BY <3>2, <4>1, <4>2
    <3>3. ASSUME NEW p \in 1 .. Len(source'[d]), NEW u \in source'[d][p].known
          PROVE  Coming(d, u, p)'
      <4>1. CASE p \in 1 .. Len(source[d])
        BY <1>6, <1>7, <2>1, <2>3, <3>3, <4>1
      <4>2. CASE p = Len(source[d]) + 1
        <5>1. u \in Sender(d).sent \/ u \in Sender(d).received
          BY <1>6, <3>3, <4>2
        <5>2. u \in Sender(d).received => Coming(d, u, p)
          BY DEF CInv, DeliveredInv, Sender, Coming
        <5>3. Coming(d, u, p)
          BY <2>1, <2>3, <4>2, <5>1, <5>2
        <5> QED
          BY <1>7, <5>3
      <4> QED
        BY <1>6, <3>3, <4>1, <4>2
    <3> QED
      BY <2>3, <3>2, <3>3
  <2> QED
    BY <2>2, <2>3
<1> QED
  BY <1>2, <1>3, <1>5, <1>8 DEF CInv

\* A peer reads a frame, or leaves: everything it received had been written.
LEMMA PeerReads ==
  ASSUME IInv, CInv,
         UNCHANGED <<source, pump, channel, nextSequence, order, handled>>,
         agent'.sent = agent.sent, child'.sent = child.sent,
         \A d \in Directions : \A p \in 1 .. Len(destination'[d]) :
            \E q \in 1 .. Len(destination[d]) : destination[d][q] = destination'[d][p],
         \A u \in agent'.received \cup child'.received :
            \/ u \in agent.received \cup child.received
            \/ \E d \in Directions : \E q \in 1 .. Len(destination[d]) : u = destination[d][q].uid
  PROVE  CInv'
<1>1. /\ \A n, f : Carried(n, f)' <=> Carried(n, f)
      /\ \A u, n : Ahead(u, n) => Ahead(u, n)'
  BY QuietAhead
<1>2. OrderInv' /\ CausalOrder' /\ CarriedInv'
  BY QuietOrder DEF CInv
<1>3. ForwardingInv'
  BY <1>1 DEF CInv, ForwardingInv
<1>4. DeliveredInv'
  <2>1. \A u : Ahead(u, nextSequence) => Ahead(u, nextSequence)'
    BY <1>1
  <2>2. \A u \in agent'.received \cup child'.received : Ahead(u, nextSequence)
    BY DEF CInv, DeliveredInv
  <2>3. \A d \in Directions : \A p \in 1 .. Len(destination'[d]) :
           Ahead(destination'[d][p].uid, nextSequence)
    BY DEF CInv, DeliveredInv
  <2> QED
    BY <2>1, <2>2, <2>3 DEF DeliveredInv
<1>5. SourceInv'
  <2>1. ASSUME NEW d \in Directions, NEW u, NEW p, Coming(d, u, p) PROVE Coming(d, u, p)'
    BY <1>1, <2>1 DEF Coming
  <2>2. \A d \in Directions : Sender(d)'.sent = Sender(d).sent
    BY DEF Sender
  <2> QED
    BY <2>1, <2>2 DEF CInv, SourceInv
<1> QED
  BY <1>2, <1>3, <1>4, <1>5 DEF CInv

LEMMA PeersCausal == ASSUME IInv, CInv, Peers PROVE CInv'
<1> USE DEF recorder
<1>0. /\ TypeOK /\ NoKey \in Keys /\ sent + 1 \in Nat
      /\ agent.sent \subseteq Nat /\ agent.received \subseteq Nat
      /\ child.sent \subseteq Nat /\ child.received \subseteq Nat
  BY ShimAssumption DEF IInv, TypeOK, NoKey
<1>1. ASSUME NEW key \in Keys, AgentRequests(key) PROVE CInv'
  <2> DEFINE frame == NewFrame("request", key, sent + 1, agent)
  <2>1. frame \in Frames /\ frame.known = agent.sent \cup agent.received
    BY <1>0, NewFrameType DEF Kinds, NewFrame
  <2>2. /\ Write("outbound", frame)
        /\ agent' = [agent EXCEPT !.open[key] = frame.call, !.sent = @ \cup {frame.uid}]
        /\ UNCHANGED <<child, destination, pump, channel, nextSequence, order, handled>>
    BY <1>1 DEF AgentRequests
  <2> HIDE DEF frame
  <2>3. agent'.received = agent.received /\ agent'.sent = agent.sent \cup {frame.uid}
    BY <1>0, <2>2 DEF TypeOK
  <2>4. \A e \in Directions : /\ Sender(e)'.received = Sender(e).received
                              /\ Sender(e)'.sent = IF e = "outbound"
                                                   THEN Sender(e).sent \cup {frame.uid}
                                                   ELSE Sender(e).sent
    BY <2>2, <2>3 DEF Sender
  <2>5. frame.known = Sender("outbound").sent \cup Sender("outbound").received
    BY <2>1 DEF Sender
  <2> QED
    BY <2>1, <2>2, <2>4, <2>5, PeerWrites DEF Directions
<1>2. ASSUME AgentMutters PROVE CInv'
  <2> DEFINE frame == NewFrame("unparsed", NoKey, 0, agent)
  <2>1. frame \in Frames /\ frame.known = agent.sent \cup agent.received
    BY <1>0, NewFrameType DEF Kinds, NewFrame
  <2>2. /\ Write("outbound", frame)
        /\ agent' = [agent EXCEPT !.sent = @ \cup {frame.uid}]
        /\ UNCHANGED <<child, destination, pump, channel, nextSequence, order, handled>>
    BY <1>2 DEF AgentMutters
  <2> HIDE DEF frame
  <2>3. agent'.received = agent.received /\ agent'.sent = agent.sent \cup {frame.uid}
    BY <1>0, <2>2 DEF TypeOK
  <2>4. \A e \in Directions : /\ Sender(e)'.received = Sender(e).received
                              /\ Sender(e)'.sent = IF e = "outbound"
                                                   THEN Sender(e).sent \cup {frame.uid}
                                                   ELSE Sender(e).sent
    BY <2>2, <2>3 DEF Sender
  <2>5. frame.known = Sender("outbound").sent \cup Sender("outbound").received
    BY <2>1 DEF Sender
  <2> QED
    BY <2>1, <2>2, <2>4, <2>5, PeerWrites DEF Directions
<1>3. ASSUME NEW request \in child.todo, ChildResponds(request) PROVE CInv'
  <2> DEFINE frame == NewFrame("response", request.key, request.call, child)
  <2>0. request.key \in Keys /\ request.call \in Nat
    BY <1>0 DEF TypeOK, Frames
  <2>1. frame \in Frames /\ frame.known = child.sent \cup child.received
    BY <1>0, <2>0, NewFrameType DEF Kinds, NewFrame
  <2>2. /\ Write("inbound", frame)
        /\ child' = [child EXCEPT !.todo = @ \ {request}, !.sent = @ \cup {frame.uid}]
        /\ UNCHANGED <<agent, destination, pump, channel, nextSequence, order, handled>>
    BY <1>3 DEF ChildResponds
  <2> HIDE DEF frame
  <2>3. child'.received = child.received /\ child'.sent = child.sent \cup {frame.uid}
    BY <1>0, <2>2 DEF TypeOK
  <2>4. \A e \in Directions : /\ Sender(e)'.received = Sender(e).received
                              /\ Sender(e)'.sent = IF e = "inbound"
                                                   THEN Sender(e).sent \cup {frame.uid}
                                                   ELSE Sender(e).sent
    BY <2>2, <2>3 DEF Sender, Directions
  <2>5. frame.known = Sender("inbound").sent \cup Sender("inbound").received
    BY <2>1 DEF Sender
  <2> QED
    BY <2>1, <2>2, <2>4, <2>5, PeerWrites DEF Directions
<1>4. ASSUME ChildNotifies PROVE CInv'
  <2> DEFINE frame == NewFrame("notification", NoKey, 0, child)
  <2>1. frame \in Frames /\ frame.known = child.sent \cup child.received
    BY <1>0, NewFrameType DEF Kinds, NewFrame
  <2>2. /\ Write("inbound", frame)
        /\ child' = [child EXCEPT !.sent = @ \cup {frame.uid}]
        /\ UNCHANGED <<agent, destination, pump, channel, nextSequence, order, handled>>
    BY <1>4 DEF ChildNotifies
  <2> HIDE DEF frame
  <2>3. child'.received = child.received /\ child'.sent = child.sent \cup {frame.uid}
    BY <1>0, <2>2 DEF TypeOK
  <2>4. \A e \in Directions : /\ Sender(e)'.received = Sender(e).received
                              /\ Sender(e)'.sent = IF e = "inbound"
                                                   THEN Sender(e).sent \cup {frame.uid}
                                                   ELSE Sender(e).sent
    BY <2>2, <2>3 DEF Sender, Directions
  <2>5. frame.known = Sender("inbound").sent \cup Sender("inbound").received
    BY <2>1 DEF Sender
  <2> QED
    BY <2>1, <2>2, <2>4, <2>5, PeerWrites DEF Directions
<1>5. ASSUME NEW d \in Directions, destination[d] # <<>>,
             destination' = [destination EXCEPT ![d] = Tail(@)]
      PROVE  /\ \A e \in Directions : \A p \in 1 .. Len(destination'[e]) :
                   \E q \in 1 .. Len(destination[e]) : destination[e][q] = destination'[e][p]
             /\ Head(destination[d]) = destination[d][1] /\ 1 \in 1 .. Len(destination[d])
  <2>1. destination \in [Directions -> Seq(Frames)] /\ destination[d] \in Seq(Frames)
    BY <1>0 DEF TypeOK
  <2>2. destination'[d] = Tail(destination[d])
        /\ \A e \in Directions : e # d => destination'[e] = destination[e]
    BY <1>5, <2>1
  <2>3. ASSUME NEW p \in 1 .. Len(destination'[d])
        PROVE  \E q \in 1 .. Len(destination[d]) : destination[d][q] = destination'[d][p]
    <3>1. p + 1 \in 1 .. Len(destination[d]) /\ destination'[d][p] = destination[d][p + 1]
      BY <1>5, <2>1, <2>2, <2>3
    <3> QED
      BY <3>1
  <2> QED
    BY <1>5, <2>1, <2>2, <2>3
<1>6. ASSUME AgentReceives PROVE CInv'
  <2>1. /\ UNCHANGED <<child, source, pump, channel, nextSequence, order, handled>>
        /\ destination["inbound"] # <<>>
        /\ destination' = [destination EXCEPT !["inbound"] = Tail(@)]
    BY <1>6 DEF AgentReceives
  <2>2. /\ agent'.sent = agent.sent
        /\ agent'.received = agent.received \cup {Head(destination["inbound"]).uid}
    BY <1>0, <1>6 DEF AgentReceives, TypeOK
  <2>3. "inbound" \in Directions
    BY DEF Directions
  <2>4. \E q \in 1 .. Len(destination["inbound"]) :
           Head(destination["inbound"]) = destination["inbound"][q]
    BY <1>5, <2>1, <2>3
  <2> QED
    BY <1>5, <2>1, <2>2, <2>3, <2>4, PeerReads
<1>7. ASSUME ChildReceives PROVE CInv'
  <2>1. /\ UNCHANGED <<agent, source, pump, channel, nextSequence, order, handled>>
        /\ destination["outbound"] # <<>>
        /\ destination' = [destination EXCEPT !["outbound"] = Tail(@)]
    BY <1>7 DEF ChildReceives
  <2>2. /\ child'.sent = child.sent
        /\ child'.received = child.received \cup {Head(destination["outbound"]).uid}
    BY <1>0, <1>7 DEF ChildReceives, TypeOK
  <2>3. "outbound" \in Directions
    BY DEF Directions
  <2>4. \E q \in 1 .. Len(destination["outbound"]) :
           Head(destination["outbound"]) = destination["outbound"][q]
    BY <1>5, <2>1, <2>3
  <2> QED
    BY <1>5, <2>1, <2>2, <2>3, <2>4, PeerReads
<1>8. ASSUME AgentLeaves \/ ChildExits PROVE CInv'
  <2>1. /\ UNCHANGED <<source, pump, channel, nextSequence, order, handled>>
        /\ agent'.sent = agent.sent /\ agent'.received = agent.received
        /\ child'.sent = child.sent /\ child'.received = child.received
    BY <1>0, <1>8 DEF AgentLeaves, ChildExits, TypeOK
  <2>2. \A d \in Directions : destination'[d] \in {destination[d], <<>>}
    BY <1>0, <1>8 DEF AgentLeaves, ChildExits, TypeOK, Directions
  <2>3. \A d \in Directions : \A p \in 1 .. Len(destination'[d]) :
           \E q \in 1 .. Len(destination[d]) : destination[d][q] = destination'[d][p]
    <3> SUFFICES ASSUME NEW d \in Directions, NEW p \in 1 .. Len(destination'[d])
                 PROVE  destination'[d] = destination[d]
      OBVIOUS
    <3> QED
      BY <2>2
  <2> QED
    BY <2>1, <2>3, PeerReads
<1> QED
  BY <1>1, <1>2, <1>3, <1>4, <1>6, <1>7, <1>8 DEF Peers

\* A frame is reserved: what its sender knew is ahead of the number it gets.
LEMMA ReserveCausal == ASSUME IInv, CInv, NEW d \in Directions, Reserve(d) PROVE CInv'
<1> DEFINE frame == Head(source[d])
           event == Reserved(nextSequence, d, frame)
<1>1. /\ TypeOK /\ nextSequence \in Nat /\ pump \in [Directions -> Pumps] /\ pump[d] \in Pumps
      /\ source \in [Directions -> Seq(Frames)] /\ source[d] \in Seq(Frames)
  BY DEF IInv, TypeOK
<1>2. /\ pump[d].pc = "reading" /\ source[d] # <<>>
      /\ source' = [source EXCEPT ![d] = Tail(@)]
      /\ channel' = Append(channel, event)
      /\ nextSequence' = nextSequence + 1
      /\ pump' = [pump EXCEPT ![d] = [@ EXCEPT !.pc = "forwarding", !.frame = {frame},
                                               !.sequence = nextSequence]]
      /\ UNCHANGED <<agent, child, destination, order, handled>>
  BY DEF Reserve, TakeFrame, peers, recorder
<1>3. /\ frame \in Frames /\ frame = source[d][1]
      /\ event \in Events /\ event.type = "reserved" /\ event.sequence = nextSequence
      /\ event.frame = {frame}
  <2>1. frame \in Frames /\ frame = source[d][1]
    BY <1>1, <1>2
  <2> QED
    BY <1>1, <2>1 DEF Reserved, Events
<1>4. /\ Len(source[d]) \in Nat /\ 1 \in 1 .. Len(source[d])
      /\ Len(source'[d]) + 1 = Len(source[d]) /\ Len(source'[d]) \in Nat
      /\ \A q \in 1 .. Len(source'[d]) : source'[d][q] = source[d][q + 1]
      /\ \A e \in Directions : e # d => source'[e] = source[e]
  <2>1. source'[d] = Tail(source[d]) /\ \A e \in Directions : e # d => source'[e] = source[e]
    BY <1>1, <1>2
  <2> QED
    BY <1>1, <1>2, <2>1
<1> HIDE DEF event, frame
<1>5. /\ pump'[d].pc = "forwarding" /\ pump'[d].frame = {frame}
      /\ pump'[d].sequence = nextSequence
      /\ \A e \in Directions : e # d => pump'[e] = pump[e]
  BY <1>1, <1>2 DEF Pumps
<1>6. /\ \A n, f : Carried(n, f) => Carried(n, f)'
      /\ \A n, f : Carried(n, f)' => Carried(n, f) \/ (n = nextSequence /\ f = frame)
      /\ \A n, f : n = nextSequence /\ f = frame => Carried(n, f)'
      /\ \A u, n : Ahead(u, n) => Ahead(u, n)'
  <2>1. \A e \in Directions : pump[e].pc = "completing" =>
           pump'[e].pc = "completing" /\ pump'[e].sequence = pump[e].sequence
    BY <1>2, <1>5
  <2>2. channel' = Append(channel, event) /\ event \in Events /\ UNCHANGED <<order, handled>>
    BY <1>2, <1>3
  <2>3. /\ \A n, f : Carried(n, f) => Carried(n, f)'
        /\ \A n, f : Carried(n, f)' =>
              \/ Carried(n, f)
              \/ event.type = "reserved" /\ event.sequence = n /\ f \in event.frame
        /\ \A n, f : event.type = "reserved" /\ event.sequence = n /\ f \in event.frame
              => Carried(n, f)'
        /\ \A u, n : Ahead(u, n) => Ahead(u, n)'
    BY <1>1, <2>1, <2>2, AppendAhead
  <2> QED
    BY <1>3, <2>3
<1>7. OrderInv'
  <2>1. /\ Position' = Position \cup {Len(channel) + 1}
        /\ \A k \in Position : channel'[k] = channel[k]
        /\ channel'[Len(channel) + 1] = event
    BY <1>1, <1>2, <1>3, Appended
  <2>2. \A k \in Position' : Event(k, "reserved")' => \E f \in Frames : channel'[k].frame = {f}
    BY <1>3, <2>1 DEF CInv, OrderInv, Event
  <2> QED
    BY <1>2, <2>2 DEF CInv, OrderInv
<1>8. CausalOrder'
  BY <1>2 DEF CInv, CausalOrder
<1>9. ASSUME NEW u, Ahead(u, nextSequence) PROVE Ahead(u, nextSequence)'
  <2>1. nextSequence + 1 \in Nat /\ nextSequence <= nextSequence + 1
    BY <1>1
  <2>2. PICK m \in Nat : m = nextSequence + 1
    BY <2>1
  <2>3. Ahead(u, m)
    BY <1>1, <1>9, <2>1, <2>2, AheadLater
  <2>4. Ahead(u, m)'
    BY <1>6, <2>3
  <2> QED
    BY <1>2, <2>2, <2>4
<1>10. ForwardingInv'
  <2> SUFFICES ASSUME NEW e \in Directions, pump'[e].pc = "forwarding"
               PROVE  \E f \in Frames : pump'[e].frame = {f} /\ Carried(pump[e].sequence, f)'
    BY DEF ForwardingInv
  <2>1. CASE e = d
    BY <1>3, <1>5, <1>6, <2>1
  <2>2. CASE e # d
    BY <1>5, <1>6, <2>2 DEF CInv, ForwardingInv
  <2> QED
    BY <2>1, <2>2
<1>11. DeliveredInv'
  BY <1>2, <1>9 DEF CInv, DeliveredInv
<1>12. /\ \A u \in Sender(d).sent : Coming(d, u, Len(source[d]) + 1)
       /\ \A p \in 1 .. Len(source[d]) : \A u \in source[d][p].known : Coming(d, u, p)
  BY <1>2 DEF CInv, SourceInv
<1>13. CarriedInv'
  <2> SUFFICES ASSUME NEW n \in Nat, NEW f \in Frames, Carried(n, f)', NEW u \in f.known
               PROVE  Ahead(u, n)'
    BY DEF CarriedInv
  <2>1. CASE Carried(n, f)
    BY <1>6, <2>1 DEF CInv, CarriedInv
  <2>2. CASE n = nextSequence /\ f = frame
    <3>1. Coming(d, u, 1)
      BY <1>3, <1>4, <1>12, <2>2
    <3>2. ~ \E q \in 1 .. Len(source[d]) : q < 1
      OBVIOUS
    <3>3. Ahead(u, n)
      BY <1>2, <2>2, <3>1, <3>2 DEF Coming
    <3> QED
      BY <1>6, <3>3
  <2> QED
    BY <1>6, <2>1, <2>2
<1>14. SourceInv'
  <2>1. ASSUME NEW u, NEW p \in Nat, Coming(d, u, p + 1) PROVE Coming(d, u, p)'
    <3>1. CASE Ahead(u, nextSequence)
      BY <1>9, <3>1 DEF Coming
    <3>2. ASSUME NEW q \in 1 .. Len(source[d]), q < p + 1, source[d][q].uid = u
          PROVE  Coming(d, u, p)'
      <4>1. CASE q = 1
        BY <1>3, <1>5, <3>2, <4>1 DEF Coming
      <4>2. CASE q # 1
        <5>1. q - 1 \in 1 .. Len(source'[d]) /\ q - 1 < p
          BY <1>4, <3>2, <4>2
        <5>2. source'[d][q - 1] = source[d][(q - 1) + 1] /\ (q - 1) + 1 = q
          BY <1>4, <5>1
        <5>3. source'[d][q - 1].uid = u
          BY <3>2, <5>2
        <5> QED
          BY <5>1, <5>3 DEF Coming
      <4> QED
        BY <4>1, <4>2
    <3> QED
      BY <1>2, <2>1, <3>1, <3>2 DEF Coming
  <2>2. ASSUME NEW e \in Directions, e # d, NEW u, NEW p, Coming(e, u, p) PROVE Coming(e, u, p)'
    BY <1>4, <1>5, <1>9, <2>2 DEF Coming
  <2> SUFFICES ASSUME NEW e \in Directions,
                      pump'[e].pc \in {"reading", "forwarding", "completing"}
               PROVE  /\ \A u \in Sender(e).sent : Coming(e, u, Len(source[e]) + 1)'
                      /\ \A p \in 1 .. Len(source'[e]) : \A u \in source'[e][p].known :
                            Coming(e, u, p)'
    BY <1>2 DEF SourceInv, Sender
  <2>3. CASE e = d
    <3>1. ASSUME NEW u \in Sender(d).sent PROVE Coming(d, u, Len(source[d]) + 1)'
      <4>1. PICK p \in Nat : p = Len(source'[d]) + 1
        BY <1>4
      <4>2. Coming(d, u, p + 1)
        BY <1>4, <1>12, <4>1
      <4>3. Coming(d, u, p)'
        BY <2>1, <4>2
      <4> QED
        BY <4>1, <4>3
    <3>2. ASSUME NEW p \in 1 .. Len(source'[d]), NEW u \in source'[d][p].known
          PROVE  Coming(d, u, p)'
      <4>1. p \in Nat /\ p + 1 \in 1 .. Len(source[d]) /\ source'[d][p] = source[d][p + 1]
        BY <1>4
      <4>2. Coming(d, u, p + 1)
        BY <1>12, <3>2, <4>1
      <4> QED
        BY <2>1, <4>1, <4>2
    <3> QED
      BY <2>3, <3>1, <3>2
  <2>4. CASE e # d
    <3>1. source'[e] = source[e] /\ pump'[e] = pump[e]
      BY <1>4, <1>5, <2>4
    <3>2. /\ \A u \in Sender(e).sent : Coming(e, u, Len(source[e]) + 1)
          /\ \A p \in 1 .. Len(source[e]) : \A u \in source[e][p].known : Coming(e, u, p)
      BY <3>1 DEF CInv, SourceInv
    <3>3. ASSUME NEW u \in Sender(e).sent PROVE Coming(e, u, Len(source[e]) + 1)'
      <4>1. PICK p : p = Len(source[e]) + 1
        OBVIOUS
      <4> QED
        BY <2>2, <2>4, <3>1, <3>2, <4>1
    <3> QED
      BY <2>2, <2>4, <3>1, <3>2, <3>3
  <2> QED
    BY <2>3, <2>4
<1> QED
  BY <1>7, <1>8, <1>10, <1>11, <1>13, <1>14 DEF CInv

\* A pump that neither reserves nor sends.
LEMMA PumpQuiet ==
  ASSUME IInv, CInv, NEW d \in Directions,
         StopReading(d) \/ ReadFails(d) \/ Forward(d) \/ ForwardFails(d)
  PROVE  CInv'
<1>1. /\ TypeOK /\ pump \in [Directions -> Pumps] /\ pump[d] \in Pumps
      /\ destination \in [Directions -> Seq(Frames)] /\ destination[d] \in Seq(Frames)
      /\ nextSequence \in Nat
  BY DEF IInv, TypeOK
<1>2. UNCHANGED <<agent, child, source, channel, nextSequence, order, handled>>
  BY DEF StopReading, ReadFails, Forward, ForwardFails, peers, recorder
<1>3. /\ pump[d].pc \in {"reading", "forwarding"}
      /\ pump'[d].sequence = pump[d].sequence
      /\ \A e \in Directions : e # d => pump'[e] = pump[e]
      /\ \/ pump'[d].pc = "finishing"
         \/ Forward(d) /\ pump[d].pc = "forwarding" /\ pump'[d].pc = "completing"
  <2>1. PICK p \in Pumps : pump' = [pump EXCEPT ![d] = p] /\ p.sequence = pump[d].sequence
           /\ \/ p.pc = "finishing" /\ pump[d].pc \in {"reading", "forwarding"}
              \/ Forward(d) /\ pump[d].pc = "forwarding" /\ p.pc = "completing"
    <3>1. CASE StopReading(d)
      <4>1. [pump[d] EXCEPT !.pc = "finishing"] \in Pumps
        BY <1>1 DEF Pumps
      <4> QED
        BY <1>1, <3>1, <4>1 DEF StopReading, Pumps
    <3>2. CASE ReadFails(d)
      <4>1. [pump[d] EXCEPT !.pc = "finishing", !.failure = "read"] \in Pumps
        BY <1>1 DEF Pumps
      <4> QED
        BY <1>1, <3>2, <4>1 DEF ReadFails, Pumps
    <3>3. CASE ForwardFails(d)
      <4>1. PICK failure \in {"none", "write", "aborted"} :
               pump' = [pump EXCEPT ![d] = [@ EXCEPT !.pc = "finishing", !.failure = failure]]
        BY <3>3 DEF ForwardFails
      <4>2. [pump[d] EXCEPT !.pc = "finishing", !.failure = failure] \in Pumps
        BY <1>1 DEF Pumps
      <4> QED
        BY <1>1, <3>3, <4>1, <4>2 DEF ForwardFails, Pumps
    <3>4. CASE Forward(d)
      <4>1. [pump[d] EXCEPT !.pc = "completing"] \in Pumps
        BY <1>1 DEF Pumps
      <4> QED
        BY <1>1, <3>4, <4>1 DEF Forward, Pumps
    <3> QED
      BY <3>1, <3>2, <3>3, <3>4
  <2> QED
    BY <1>1, <2>1
<1>4. /\ \A n, f : Carried(n, f)' <=> Carried(n, f)
      /\ \A u, n : Ahead(u, n) => Ahead(u, n)'
      /\ OrderInv' /\ CausalOrder' /\ CarriedInv'
  <2>1. \A e \in Directions : pump[e].pc = "completing" =>
           pump'[e].pc = "completing" /\ pump'[e].sequence = pump[e].sequence
    BY <1>3
  <2> QED
    BY <1>2, <2>1, QuietAhead, QuietOrder DEF CInv
<1>5. ForwardingInv'
  <2> SUFFICES ASSUME NEW e \in Directions, pump'[e].pc = "forwarding"
               PROVE  \E f \in Frames : pump'[e].frame = {f} /\ Carried(pump[e].sequence, f)'
    BY DEF ForwardingInv
  <2>1. pump'[e] = pump[e]
    BY <1>3
  <2> QED
    BY <1>4, <2>1 DEF CInv, ForwardingInv
<1>6. ASSUME Forward(d), NEW f \in pump[d].frame PROVE Ahead(f.uid, nextSequence)'
  <2>1. pump[d].pc = "forwarding"
    BY <1>6 DEF Forward
  <2>2. f \in Frames /\ Carried(pump[d].sequence, f)
    BY <1>6, <2>1 DEF CInv, ForwardingInv
  <2>3. pump[d].sequence \in Nat /\ pump[d].sequence < nextSequence
    BY <2>1, OpenIsOld DEF IInv, PumpInv
  <2>4. Secured(pump[d].sequence)' /\ Carried(pump[d].sequence, f)'
    <3>1. pump'[d].pc = "completing"
      BY <1>1, <1>6 DEF Forward, Pumps
    <3> QED
      BY <1>3, <1>4, <2>2, <3>1 DEF Secured
  <2> QED
    BY <1>2, <1>3, <2>2, <2>3, <2>4 DEF Ahead
<1>7. DeliveredInv'
  <2>1. \A u \in agent.received \cup child.received : Ahead(u, nextSequence)'
    BY <1>2, <1>4 DEF CInv, DeliveredInv
  <2>2. ASSUME NEW e \in Directions, NEW p \in 1 .. Len(destination'[e])
        PROVE  Ahead(destination[e][p].uid, nextSequence)'
    <3>1. CASE destination' = destination
      BY <1>2, <1>4, <2>2, <3>1 DEF CInv, DeliveredInv
    <3>2. CASE Forward(d)
      <4>1. PICK f \in pump[d].frame : destination' = [destination EXCEPT ![d] = Append(@, f)]
        BY <3>2 DEF Forward
      <4>2. f \in Frames
        BY <1>1, <4>1 DEF Pumps
      <4>3. CASE e = d
        <5>1. destination'[e] = Append(destination[e], f)
          BY <1>1, <4>1, <4>3
        <5>2. \/ p \in 1 .. Len(destination[e]) /\ destination'[e][p] = destination[e][p]
              \/ destination'[e][p] = f
          BY <1>1, <2>2, <4>2, <4>3, <5>1
        <5> QED
          BY <1>2, <1>4, <1>6, <3>2, <5>2 DEF CInv, DeliveredInv
      <4>4. CASE e # d
        <5>1. destination'[e] = destination[e]
          BY <1>1, <4>1, <4>4
        <5> QED
          BY <1>2, <1>4, <2>2, <5>1 DEF CInv, DeliveredInv
      <4> QED
        BY <4>3, <4>4
    <3> QED
      BY <3>1, <3>2 DEF StopReading, ReadFails, ForwardFails
  <2> QED
    BY <1>2, <2>1, <2>2 DEF DeliveredInv
<1>8. SourceInv'
  <2> SUFFICES ASSUME NEW e \in Directions,
                      pump'[e].pc \in {"reading", "forwarding", "completing"}
               PROVE  /\ \A u \in Sender(e).sent : Coming(e, u, Len(source[e]) + 1)'
                      /\ \A p \in 1 .. Len(source[e]) : \A u \in source[e][p].known :
                            Coming(e, u, p)'
    BY <1>2 DEF SourceInv, Sender
  <2>1. pump[e].pc \in {"reading", "forwarding", "completing"}
    BY <1>3
  <2>2. ASSUME NEW u, NEW p, Coming(e, u, p) PROVE Coming(e, u, p)'
    <3>1. CASE e # d
      BY <1>2, <1>3, <1>4, <2>2, <3>1 DEF Coming
    <3>2. CASE e = d
      <4>1. Forward(d)
        BY <1>3, <3>2
      <4> QED
        BY <1>2, <1>4, <1>6, <2>2, <3>2, <4>1 DEF Coming
    <3> QED
      BY <3>1, <3>2
  <2>3. PICK last : last = Len(source[e]) + 1
    OBVIOUS
  <2>4. \A u \in Sender(e).sent : Coming(e, u, last)'
    BY <2>1, <2>2, <2>3 DEF CInv, SourceInv
  <2> QED
    BY <1>2, <2>1, <2>2, <2>3, <2>4 DEF CInv, SourceInv
<1> QED
  BY <1>4, <1>5, <1>7, <1>8 DEF CInv

\* A pump reports a completion, or its end.
LEMMA PumpReports ==
  ASSUME IInv, CInv, NEW d \in Directions, Complete(d) \/ Finish(d)
  PROVE  CInv'
<1>1. /\ TypeOK /\ pump \in [Directions -> Pumps] /\ pump[d] \in Pumps
  BY DEF IInv, TypeOK
<1> DEFINE event == IF pump[d].pc = "completing" THEN Forwarded(pump[d].sequence, d)
                                                 ELSE Finished(d)
<1>2. /\ channel' = Append(channel, event)
      /\ UNCHANGED <<agent, child, source, destination, nextSequence, order, handled>>
  BY DEF Complete, Finish, peers, recorder
<1>3. /\ pump'[d].pc \in {"reading", "done"}
      /\ pump'[d].pc = "reading" => pump[d].pc = "completing"
      /\ \A e \in Directions : e # d => pump'[e] = pump[e]
  BY <1>1, ZenonT(30) DEF Complete, Finish, Pumps
<1>4. /\ event \in Events /\ event.type # "reserved"
      /\ pump[d].pc = "completing" => event.type = "forwarded"
                                       /\ event.sequence = pump[d].sequence
  BY <1>1 DEF Forwarded, Finished, Events, Pumps
<1> HIDE DEF event
<1>5. /\ \A n, f : Carried(n, f)' <=> Carried(n, f)
      /\ \A u, n : Ahead(u, n) => Ahead(u, n)'
  <2>1. \A e \in Directions : pump[e].pc = "completing" =>
           \/ pump'[e].pc = "completing" /\ pump'[e].sequence = pump[e].sequence
           \/ event.type = "forwarded" /\ event.sequence = pump[e].sequence
    BY <1>3, <1>4
  <2>2. UNCHANGED <<order, handled>>
    BY <1>2
  <2> QED
    BY <1>1, <1>2, <1>4, <2>1, <2>2, AppendAhead
<1>6. OrderInv'
  <2>1. /\ Position' = Position \cup {Len(channel) + 1}
        /\ \A k \in Position : channel'[k] = channel[k]
        /\ channel'[Len(channel) + 1] = event
    BY <1>1, <1>2, <1>4, Appended
  <2>2. \A k \in Position' : Event(k, "reserved")' => \E f \in Frames : channel'[k].frame = {f}
    BY <1>4, <2>1 DEF CInv, OrderInv, Event
  <2> QED
    BY <1>2, <2>2 DEF CInv, OrderInv
<1>7. CausalOrder'
  BY <1>2 DEF CInv, CausalOrder
<1>8. CarriedInv'
  <2>1. ASSUME NEW n \in Nat, NEW f \in Frames, Carried(n, f)', NEW u \in f.known
        PROVE  Ahead(u, n)'
    BY <1>5, <2>1 DEF CInv, CarriedInv
  <2> QED
    BY <2>1 DEF CarriedInv
<1>9. ForwardingInv'
  <2> SUFFICES ASSUME NEW e \in Directions, pump'[e].pc = "forwarding"
               PROVE  \E f \in Frames : pump'[e].frame = {f} /\ Carried(pump[e].sequence, f)'
    BY DEF ForwardingInv
  <2>1. pump'[e] = pump[e]
    BY <1>3
  <2> QED
    BY <1>5, <2>1 DEF CInv, ForwardingInv
<1>10. DeliveredInv'
  BY <1>2, <1>5 DEF CInv, DeliveredInv
<1>11. SourceInv'
  <2> SUFFICES ASSUME NEW e \in Directions,
                      pump'[e].pc \in {"reading", "forwarding", "completing"}
               PROVE  /\ \A u \in Sender(e).sent : Coming(e, u, Len(source[e]) + 1)'
                      /\ \A p \in 1 .. Len(source[e]) : \A u \in source[e][p].known :
                            Coming(e, u, p)'
    BY <1>2 DEF SourceInv, Sender
  <2>1. pump[e].pc \in {"reading", "forwarding", "completing"}
    BY <1>3
  <2>2. ASSUME NEW u, NEW p, Coming(e, u, p) PROVE Coming(e, u, p)'
    <3>1. pump[e].pc = "forwarding" => pump'[e] = pump[e]
      BY <1>3
    <3> QED
      BY <1>2, <1>5, <2>2, <3>1 DEF Coming
  <2>3. PICK last : last = Len(source[e]) + 1
    OBVIOUS
  <2>4. \A u \in Sender(e).sent : Coming(e, u, last)'
    BY <2>1, <2>2, <2>3 DEF CInv, SourceInv
  <2> QED
    BY <1>2, <2>1, <2>2, <2>3, <2>4 DEF CInv, SourceInv
<1> QED
  BY <1>6, <1>7, <1>8, <1>9, <1>10, <1>11 DEF CInv

LEMMA InitCausal == Init => CInv
<1> SUFFICES ASSUME Init PROVE CInv
  OBVIOUS
<1>1. /\ channel = <<>> /\ Position = {} /\ handled = <<>> /\ order.pending = <<>>
      /\ DOMAIN order.pending = {} /\ order.ready = 0 /\ order.reservation = 0
      /\ \A d \in Directions : pump[d].pc = "reading" /\ source[d] = <<>> /\ destination[d] = <<>>
      /\ agent.sent = {} /\ agent.received = {} /\ child.sent = {} /\ child.received = {}
  BY DEF Init, Position
<1>2. \A n, f : ~Carried(n, f)
  BY <1>1 DEF Carried
<1> QED
  BY <1>1, <1>2 DEF CInv, OrderInv, ForwardingInv, DeliveredInv, SourceInv, CarriedInv,
                    CausalOrder, Sender

LEMMA StepCausal == IInv /\ CInv /\ [Next]_vars => CInv'
<1> SUFFICES ASSUME IInv, CInv, [Next]_vars PROVE CInv'
  OBVIOUS
<1>1. CASE UNCHANGED vars \/ Returned
  <2>1. UNCHANGED vars
    BY <1>1 DEF Returned
  <2>2. UNCHANGED <<source, pump, channel, nextSequence, order, handled, agent, child, destination>>
    BY <2>1 DEF vars
  <2> QED
    BY <2>2, PeerReads
<1>2. ASSUME NEW d \in Directions, Pump(d) \/ ReadFails(d) PROVE CInv'
  BY <1>2, ReserveCausal, PumpQuiet, PumpReports DEF Pump
<1>3. CASE Main
  BY <1>3, HandleCausal, QuietMain DEF Handling
<1> QED
  BY <1>1, <1>2, <1>3, PeersCausal DEF Next

\* Whatever the threads interleave, and wherever the peers leave or a read or a
\* write fails, the frames reach the correlator in an order in which everything
\* the sender of a frame had sent or received comes before it.
THEOREM CorrelatedInCausalOrder == Spec => []CausalOrder
<1>1. CInv => CausalOrder
  BY DEF CInv
<1> QED
  BY <1>1, InitInv, StepInv, InitCausal, StepCausal, PTL DEF Spec

-----------------------------------------------------------------------------
(* What run does, until it returns.                                         *)

Places == {"poll", "receive", "drain", "stop", "joinOutput", "joinInput", "rest", "done"}

\* What is left of direction d is on its way to the end of its pump.
Ending(d, k) ==
    pump[d].pc # "done" \/ \E i \in Position : k < i /\ Event(i, "finished")
                                                     /\ channel[i].direction = d

MainInv ==
    main \in [pc : Places, exited : BOOLEAN, outputFinished : BOOLEAN, operationError : BOOLEAN,
              recordingError : BOOLEAN, inputCancelled : BOOLEAN, outputCancelled : BOOLEAN]

\* run goes on to the rest of the channel when no pump adds to it any more.
JoinedInv ==
    /\ main.pc \in {"joinInput", "rest", "done"} => pump["inbound"].pc = "done"
    /\ main.pc \in {"rest", "done"} => pump["outbound"].pc = "done"
    /\ main.pc = "done" => channel = <<>>

\* Whatever is reserved will be completed or retired, and what is first in the
\* order waits for that.
EndingInv ==
    /\ \A n, d : Waiting(order.pending, n, d) => Ending(d, 0)
    /\ \A k \in Position : Event(k, "reserved") => Ending(channel[k].direction, k)
    /\ DOMAIN order.pending = order.ready .. order.reservation - 1
    /\ order.ready \in DOMAIN order.pending => order.pending[order.ready].state = "reserved"

Records == [seq : Nat, method : {"call", "notification", "unparsed"}, call : Nat, answer : Nat]

\* The correlator counts the records it makes.
CountedInv ==
    /\ correlator \in [seq : Nat, pending : [Keys -> Nat]]
    /\ journal \in Seq(Records)
    /\ ~main.recordingError => Len(journal) = correlator.seq

RInv == MainInv /\ JoinedInv /\ EndingInv /\ CountedInv

-----------------------------------------------------------------------------
(* Folding over the frames that became ready.                               *)

\* Induction over the numbers: the least counterexample has a predecessor.
LEMMA InductionOnNat ==
  ASSUME NEW S, 0 \in S, \A n \in Nat : n \in S => n + 1 \in S
  PROVE  \A n \in Nat : n \in S
<1> DEFINE T == Nat \ S
<1> SUFFICES ASSUME T # {} PROVE FALSE
  OBVIOUS
<1>1. IsWellFoundedOn(OpToRel(<, Nat), Nat)
  BY NatLessThanWellFounded, Zenon
<1>2. PICK x \in T : \A y \in T : ~(<<y, x>> \in OpToRel(<, Nat))
  <2> HIDE DEF T
  <2>1. T \subseteq Nat
    BY DEF T
  <2> QED
    BY <1>1, <2>1, WFMin, Zenon
<1>3. x \in Nat /\ x # 0
  BY <1>2
<1>4. x - 1 \in Nat /\ x - 1 < x /\ (x - 1) + 1 = x
  BY <1>3
<1>5. x - 1 \notin T
  BY <1>2, <1>3, <1>4 DEF OpToRel
<1> QED
  BY <1>2, <1>4, <1>5

\* The function FoldLeft evaluates: what has been folded for a set of positions.
Folds(g, base, s, n) ==
    g = [t \in SUBSET (1 .. n) |->
           IF t = {} THEN base ELSE Correlate(g[t \ {Max(t)}], s[Max(t)])]

\* There is such a function, whatever is folded.
LEMMA FoldExists ==
  ASSUME NEW base, NEW s, NEW n \in Nat
  PROVE  \E g : Folds(g, base, s, n)
<1> DEFINE Good(m, g) == /\ Folds(g, base, s, m)
                         /\ \A t \in SUBSET (1 .. m) : t # {} => Max(t) \in t
           S == {m \in Nat : \E g : Good(m, g)}
<1>1. 0 \in S
  <2>1. SUBSET (1 .. 0) = {{}}
    OBVIOUS
  <2>2. Good(0, [t \in {{}} |-> base])
    BY <2>1 DEF Folds
  <2> QED
    BY <2>2
<1>2. ASSUME NEW m \in Nat, m \in S PROVE m + 1 \in S
  <2>1. PICK g : Good(m, g)
    BY <1>2
  <2> DEFINE V(t) == IF m + 1 \in t THEN Correlate(g[t \ {m + 1}], s[m + 1]) ELSE g[t]
             h == [t \in SUBSET (1 .. m + 1) |-> V(t)]
  <2>2. ASSUME NEW t \in SUBSET (1 .. m + 1)
        PROVE  IF m + 1 \in t THEN /\ Max(t) = m + 1
                                   /\ t \ {m + 1} \in SUBSET (1 .. m)
                                   /\ m + 1 \notin t \ {m + 1}
               ELSE t \in SUBSET (1 .. m)
    <3>1. CASE m + 1 \in t
      <4>1. \A y \in t : y \in Nat /\ m + 1 >= y
        BY <1>2
      <4>2. \A x \in t : (\A y \in t : x >= y) => x = m + 1
        BY <3>1, <4>1
      <4>3. Max(t) = m + 1
        BY <3>1, <4>1, <4>2 DEF Max
      <4> QED
        BY <1>2, <3>1, <4>3
    <3>2. CASE m + 1 \notin t
      BY <1>2, <3>2
    <3> QED
      BY <3>1, <3>2
  <2>3. ASSUME NEW t \in SUBSET (1 .. m + 1), t # {} PROVE Max(t) \in t
    BY <2>1, <2>2, <2>3
  <2>4. ASSUME NEW t \in SUBSET (1 .. m + 1)
        PROVE  h[t] = IF t = {} THEN base ELSE Correlate(h[t \ {Max(t)}], s[Max(t)])
    <3>0. h[t] = V(t)
      OBVIOUS
    <3>1. CASE m + 1 \in t
      <4>1. h[t \ {m + 1}] = g[t \ {m + 1}]
        BY <2>2, <3>1
      <4> HIDE DEF h
      <4> QED
        BY <2>2, <3>0, <3>1, <4>1
    <3>2. CASE m + 1 \notin t
      <4>1. t \in SUBSET (1 .. m)
        BY <2>2, <3>2
      <4>2. g[t] = IF t = {} THEN base ELSE Correlate(g[t \ {Max(t)}], s[Max(t)])
        BY <2>1, <4>1 DEF Folds
      <4>3. t # {} => t \ {Max(t)} \in SUBSET (1 .. m + 1) /\ m + 1 \notin t \ {Max(t)}
        BY <2>3, <3>2
      <4>4. t # {} => h[t \ {Max(t)}] = g[t \ {Max(t)}]
        BY <4>3
      <4> HIDE DEF h
      <4> QED
        BY <3>0, <3>2, <4>2, <4>4
    <3> QED
      BY <3>1, <3>2
  <2>5. Folds(h, base, s, m + 1)
    <3>1. DOMAIN h = SUBSET (1 .. m + 1) /\ h = [t \in DOMAIN h |-> h[t]]
      OBVIOUS
    <3> HIDE DEF h
    <3> QED
      BY <2>4, <3>1 DEF Folds
  <2>6. Good(m + 1, h)
    <3> HIDE DEF h
    <3> QED
      BY <2>3, <2>5
  <2> HIDE DEF Good, h
  <2> QED
    BY <1>2, <2>6
<1>3. n \in S
  <2> HIDE DEF S
  <2> QED
    BY <1>1, <1>2, InductionOnNat
<1> QED
  BY <1>3

\* The states FoldLeft goes through, one entry at a time.
LEMMA FoldSteps ==
  ASSUME NEW base, NEW s, NEW n \in Nat, DOMAIN s = 1 .. n
  PROVE  \E h : /\ h[0] = base
                /\ \A k \in 1 .. n : h[k] = Correlate(h[k - 1], s[k])
                /\ h[n] = FoldLeft(Correlate, base, s)
<1> DEFINE E(g) == g = [t \in SUBSET (1 .. n) |->
           IF t = {} THEN base ELSE Correlate(g[t \ {Max(t)}], s[Max(t)])]
           G == CHOOSE g : E(g)
           h == [k \in 0 .. n |-> G[1 .. k]]
<1>1. FoldLeft(Correlate, base, s) = (CHOOSE g : E(g))[1 .. n]
  BY SMT DEF FoldLeft, MapThenFoldSet
<1>2. E(G)
  <2>1. \E g : E(g)
    <3>1. PICK g : Folds(g, base, s, n)
      BY FoldExists, Zenon
    <3>2. E(g)
      BY <3>1, Zenon DEF Folds
    <3> HIDE DEF E
    <3> QED
      BY <3>2, Zenon
  <2> HIDE DEF E
  <2> QED
    BY <2>1
<1> HIDE DEF G
<1>3. \A t \in SUBSET (1 .. n) :
         G[t] = IF t = {} THEN base ELSE Correlate(G[t \ {Max(t)}], s[Max(t)])
  BY <1>2
<1>4. h[0] = base
  <2>1. 1 .. 0 = {} /\ h[0] = G[1 .. 0] /\ {} \in SUBSET (1 .. n)
    OBVIOUS
  <2> QED
    BY <1>3, <2>1
<1>5. ASSUME NEW k \in 1 .. n PROVE h[k] = Correlate(h[k - 1], s[k])
  <2>1. h[k] = G[1 .. k] /\ h[k - 1] = G[1 .. k - 1]
    OBVIOUS
  <2>2. Max(1 .. k) = k
    <3>1. \A x \in 1 .. k : (\A y \in 1 .. k : x >= y) => x = k
      OBVIOUS
    <3>2. k \in 1 .. k /\ \A y \in 1 .. k : k >= y
      OBVIOUS
    <3> QED
      BY <3>1, <3>2 DEF Max
  <2>3. 1 .. k # {} /\ 1 .. k \in SUBSET (1 .. n) /\ (1 .. k) \ {k} = 1 .. k - 1
    OBVIOUS
  <2> HIDE DEF h
  <2> QED
    BY <1>3, <2>1, <2>2, <2>3
<1>6. h[n] = FoldLeft(Correlate, base, s)
  BY <1>1 DEF G
<1> QED
  BY <1>4, <1>5, <1>6

-----------------------------------------------------------------------------
(* What the correlator does with the frames that became ready.              *)

CorrelatorStates == [seq : Nat, pending : [Keys -> Nat]]

TheFrame(entry) == CHOOSE f \in entry.frame : TRUE

\* One frame.
LEMMA CorrelateType ==
  ASSUME NEW c, c.state \in CorrelatorStates, c.records \in Seq(Records),
         NEW entry, TheFrame(entry) \in Frames
  PROVE  LET n == Correlate(c, entry)
         IN  /\ n.state \in CorrelatorStates /\ n.records \in Seq(Records)
             /\ n.state.seq = c.state.seq + (Len(n.records) - Len(c.records))
<1> DEFINE frame == TheFrame(entry)
           s == c.state
           news == Recorded(s, frame)
<1>1. /\ frame \in Frames /\ frame.key \in Keys /\ frame.call \in Nat
      /\ s \in CorrelatorStates /\ s.seq \in Nat /\ s.pending \in [Keys -> Nat]
      /\ Len(c.records) \in Nat
  BY DEF Frames, CorrelatorStates
<1> HIDE DEF frame, s
<1>2. CASE entry.direction = "outbound" /\ frame.kind # "unparsed"
  <2>1. Correlate(c, entry) = [state |-> OnOutbound(s, frame), records |-> c.records]
    BY <1>2 DEF Correlate, TheFrame, frame, s
  <2>2. OnOutbound(s, frame) \in CorrelatorStates /\ OnOutbound(s, frame).seq = s.seq
    <3>1. CASE frame.kind = "request"
      <4>1. OnOutbound(s, frame) = [s EXCEPT !.pending = [s.pending EXCEPT ![frame.key] = frame.call]]
        BY <3>1 DEF OnOutbound
      <4>2. [s.pending EXCEPT ![frame.key] = frame.call] \in [Keys -> Nat]
        BY <1>1
      <4> QED
        BY <1>1, <4>1, <4>2 DEF CorrelatorStates
    <3>2. CASE frame.kind # "request"
      BY <1>1, <3>2 DEF OnOutbound
    <3> QED
      BY <3>1, <3>2
  <2> QED
    BY <1>1, <2>1, <2>2 DEF s
<1>3. CASE ~(entry.direction = "outbound" /\ frame.kind # "unparsed")
  <2>1. Correlate(c, entry) = [state |-> OnInbound(s, frame), records |-> c.records \o news]
    BY <1>3 DEF Correlate, TheFrame, frame, s
  <2>2. news \in Seq(Records)
    <3>1. \A m \in {"call", "notification", "unparsed"} : \A x, y \in Nat :
             CallRecord(s, m, x, y) \in Records
      BY <1>1 DEF CallRecord, Records
    <3>2. s.pending[frame.key] \in Nat
      BY <1>1
    <3> QED
      BY <1>1, <3>1, <3>2 DEF Recorded
  <2>3. Len(news) \in Nat
    BY <2>2
  <2>4. c.records \o news \in Seq(Records) /\ Len(c.records \o news) = Len(c.records) + Len(news)
    BY <2>2, ConcatProperties
  <2>5. OnInbound(s, frame) \in CorrelatorStates /\ OnInbound(s, frame).seq = s.seq + Len(news)
    <3>1. [s.pending EXCEPT ![frame.key] = 0] \in [Keys -> Nat]
      BY <1>1
    <3> QED
      BY <1>1, <2>3, <3>1 DEF OnInbound, CorrelatorStates
  <2> HIDE DEF news
  <2> QED
    BY <1>1, <2>1, <2>3, <2>4, <2>5 DEF s
<1> QED
  BY <1>2, <1>3

\* All of them.
LEMMA FoldType ==
  ASSUME NEW s \in CorrelatorStates, NEW entries, NEW m \in Nat, DOMAIN entries = 1 .. m,
         \A k \in 1 .. m : TheFrame(entries[k]) \in Frames
  PROVE  LET result == FoldLeft(Correlate, [state |-> s, records |-> <<>>], entries)
         IN  /\ result.state \in CorrelatorStates /\ result.records \in Seq(Records)
             /\ result.state.seq = s.seq + Len(result.records)
<1> DEFINE base == [state |-> s, records |-> <<>>]
           Good(c) == /\ c.state \in CorrelatorStates /\ c.records \in Seq(Records)
                      /\ c.state.seq = s.seq + Len(c.records)
<1>1. PICK h : /\ h[0] = base
               /\ \A k \in 1 .. m : h[k] = Correlate(h[k - 1], entries[k])
               /\ h[m] = FoldLeft(Correlate, base, entries)
  <2> HIDE DEF base
  <2> QED
    BY FoldSteps
<1> DEFINE S == {k \in Nat : k <= m => Good(h[k])}
<1>2. 0 \in S
  <2>1. Good(base)
    BY DEF CorrelatorStates
  <2> QED
    BY <1>1, <2>1
<1>3. ASSUME NEW k \in Nat, k \in S PROVE k + 1 \in S
  <2> SUFFICES ASSUME k + 1 <= m PROVE Good(h[k + 1])
    OBVIOUS
  <2>1. Good(h[k])
    BY <1>3
  <2>2. k + 1 \in 1 .. m /\ (k + 1) - 1 = k
    BY <1>3
  <2>3. h[k + 1] = Correlate(h[k], entries[k + 1]) /\ TheFrame(entries[k + 1]) \in Frames
    BY <1>1, <2>2
  <2>4. /\ h[k + 1].state \in CorrelatorStates /\ h[k + 1].records \in Seq(Records)
        /\ h[k + 1].state.seq = h[k].state.seq + (Len(h[k + 1].records) - Len(h[k].records))
    BY <2>1, <2>3, CorrelateType
  <2>5. /\ s.seq \in Nat /\ Len(h[k].records) \in Nat /\ Len(h[k + 1].records) \in Nat
    BY <2>1, <2>4, SMTT(30) DEF CorrelatorStates
  <2>6. \A a, b, c \in Nat : (a + b) + (c - b) = a + c
    OBVIOUS
  <2>7. h[k + 1].state.seq =
           (s.seq + Len(h[k].records)) + (Len(h[k + 1].records) - Len(h[k].records))
    BY <2>1, <2>4, Zenon
  <2>8. h[k + 1].state.seq = s.seq + Len(h[k + 1].records)
    BY <2>5, <2>6, <2>7, Zenon
  <2> QED
    BY <2>4, <2>8
<1>4. m \in S
  <2> HIDE DEF S
  <2> QED
    BY <1>2, <1>3, InductionOnNat
<1>5. Good(h[m])
  BY <1>4
<1> QED
  BY <1>1, <1>5

\* The entries drained are those of Leaving, one for each frame handed on.
LEMMA HandledEntries ==
  ASSUME IInv, OrderInv, channel # <<>>, NEW next, HandleEvent(Head(channel), next)
  PROVE  LET m == Cardinality(Leaving)
             entries == Drained(Arriving)
         IN  /\ m \in Nat /\ DOMAIN entries = 1 .. m
             /\ Len(handled') = Len(handled) + m
             /\ \A k \in 1 .. m : /\ handled'[Len(handled) + k] \in Frames
                                  /\ entries[k].frame = {handled'[Len(handled) + k]}
                                  /\ \E n \in Leaving : entries[k] = Arriving[n]
<1> DEFINE W == Leaving
           m == Cardinality(W)
           entries == Drained(Arriving)
           chosen(k) == CHOOSE n \in W : Rank(W, n) = k
<1>1. /\ W \in SUBSET Nat /\ IsFiniteSet(W)
      /\ Len(handled') = Len(handled) + m
      /\ \A n \in W : handled'[Len(handled) + Rank(W, n)] \in Arriving[n].frame
  BY HandledFrames
<1>2. /\ m \in Nat
      /\ \A k \in 1 .. m : \E n \in W : Rank(W, n) = k
  BY <1>1, Ranks
<1>3. entries = [k \in 1 .. m |-> Arriving[chosen(k)]]
  BY DEF Drained, Leaving, Rank
<1>4. \A n \in W : \E f \in Frames : Arriving[n].frame = {f}
  BY ArrivedFrames DEF Leaving, Ready
<1>5. ASSUME NEW k \in 1 .. m
      PROVE  /\ handled'[Len(handled) + k] \in Frames
             /\ entries[k].frame = {handled'[Len(handled) + k]}
             /\ \E n \in W : entries[k] = Arriving[n]
  <2>1. PICK n : n = chosen(k)
    OBVIOUS
  <2>2. n \in W /\ Rank(W, n) = k
    BY <1>2, <2>1
  <2>3. entries[k] = Arriving[n]
    BY <1>3, <2>1
  <2>4. PICK f \in Frames : Arriving[n].frame = {f}
    BY <1>4, <2>2
  <2>5. handled'[Len(handled) + k] \in Arriving[n].frame
    BY <1>1, <2>2
  <2>6. handled'[Len(handled) + k] = f
    BY <2>4, <2>5
  <2> QED
    BY <2>2, <2>3, <2>4, <2>6
<1>6. DOMAIN entries = 1 .. m
  BY <1>3
<1> QED
  BY <1>1, <1>2, <1>5, <1>6, Zenon

\* Main handles an event: what it appends are records, and none is forgotten.
LEMMA HandleCounted ==
  ASSUME IInv, OrderInv, MainInv, CountedInv, channel # <<>>,
         NEW next \in Places, HandleEvent(Head(channel), next)
  PROVE  MainInv' /\ CountedInv' /\ main'.pc = next
<1> DEFINE entries == Drained(Arriving)
           m == Cardinality(Leaving)
<1>1. PICK result : result = FoldLeft(Correlate, [state |-> correlator, records |-> <<>>], entries)
  OBVIOUS
<1>2. PICK failed \in {FALSE, habits.fails /\ result.records # <<>>} :
         /\ journal' = IF failed THEN journal ELSE journal \o result.records
         /\ main' = [main EXCEPT
               !.pc = next,
               !.outputFinished = @ \/ (Head(channel).type = "finished" /\ Head(channel).direction = "inbound"),
               !.operationError = @ \/ Head(channel).failed \/ ~Accepts(Head(channel)),
               !.recordingError = @ \/ failed]
  BY <1>1 DEF HandleEvent, Arriving
<1>3. correlator' = result.state
  BY <1>1 DEF HandleEvent, Arriving
<1>4. correlator \in CorrelatorStates /\ correlator.seq \in Nat /\ journal \in Seq(Records)
  BY DEF CountedInv, CorrelatorStates
<1>5. /\ result.state \in CorrelatorStates /\ result.records \in Seq(Records)
      /\ result.state.seq = correlator.seq + Len(result.records)
  <2>1. m \in Nat /\ DOMAIN entries = 1 .. m
        /\ \A k \in 1 .. m : /\ handled'[Len(handled) + k] \in Frames
                             /\ entries[k].frame = {handled'[Len(handled) + k]}
    BY HandledEntries
  <2> HIDE DEF m, entries
  <2>2. \A k \in 1 .. m : TheFrame(entries[k]) \in Frames
    BY <2>1 DEF TheFrame
  <2> QED
    BY <1>1, <1>4, <2>1, <2>2, FoldType
<1>6. MainInv'
  <2>1. failed \in BOOLEAN
    BY <1>2
  <2> QED
    BY <1>2, <2>1 DEF MainInv
<1>7. main'.pc = next /\ (~main'.recordingError => ~main.recordingError /\ ~failed)
  BY <1>2 DEF MainInv
<1>8. CountedInv'
  <2>1. journal \o result.records \in Seq(Records)
        /\ Len(journal \o result.records) = Len(journal) + Len(result.records)
    BY <1>4, <1>5, ConcatProperties
  <2>2. journal' \in Seq(Records)
    BY <1>2, <1>4, <2>1
  <2>3. ASSUME ~main'.recordingError PROVE Len(journal') = correlator'.seq
    <3>1. Len(journal) = correlator.seq /\ journal' = journal \o result.records
      BY <1>2, <1>7, <2>3 DEF CountedInv
    <3> QED
      BY <1>3, <1>5, <2>1, <3>1
  <2> QED
    BY <1>3, <1>5, <2>2, <2>3 DEF CountedInv, CorrelatorStates
<1> QED
  BY <1>6, <1>7, <1>8

-----------------------------------------------------------------------------
(* The end of a run.                                                        *)

\* An event leaves the pending frames gapless, the first of them waiting.
LEMMA HandleDense ==
  ASSUME IInv, OrderInv, EndingInv, channel # <<>>, NEW next, HandleEvent(Head(channel), next)
  PROVE  /\ DOMAIN order'.pending = order'.ready .. order'.reservation - 1
         /\ order'.ready \in DOMAIN order'.pending =>
               order'.pending[order'.ready].state = "reserved"
<1> DEFINE R == Ready(Arriving)
           c == Cardinality(R)
<1>1. /\ order'.ready = order.ready + c
      /\ order'.pending = [n \in DOMAIN Arriving \ R |-> Arriving[n]]
      /\ DOMAIN Arriving \subseteq 0 .. order'.reservation - 1
      /\ order'.reservation \in Nat /\ order.reservation <= order'.reservation
  BY HandledFrames
<1>2. /\ TypeOK /\ Accepts(Head(channel)) /\ Head(channel) \in Events
      /\ order.ready \in Nat /\ order.reservation \in Nat /\ order.ready <= order.reservation
  BY HeadAccepted, HeadType DEF IInv, EventsAccepted, OrderInv, TypeOK
<1>3. order'.reservation = NextReservation(Head(channel))
  BY DEF HandleEvent
<1>4. DOMAIN Arriving = order.ready .. order'.reservation - 1
  <2>1. DOMAIN order.pending = order.ready .. order.reservation - 1
    BY DEF EndingInv
  <2>2. Arriving = Pending(Head(channel))
    BY ArrivedFrames
  <2>3. CASE Head(channel).type = "reserved"
    <3>1. /\ Head(channel).sequence = order.reservation
          /\ order'.reservation = order.reservation + 1
      BY <1>2, <1>3, <2>3 DEF Accepts, NextReservation
    <3>2. DOMAIN Arriving = DOMAIN order.pending \cup {order.reservation}
      BY <2>2, <2>3, <3>1 DEF Pending
    <3> QED
      BY <1>2, <2>1, <3>1, <3>2
  <2>4. CASE Head(channel).type # "reserved"
    <3>1. DOMAIN Arriving = DOMAIN order.pending
      BY <1>2, <2>2, <2>4 DEF Pending, Events
    <3>2. order'.reservation = order.reservation
      BY <1>3, <2>4 DEF NextReservation
    <3> QED
      BY <2>1, <3>1, <3>2
  <2> QED
    BY <2>3, <2>4
<1>5. /\ R \subseteq DOMAIN Arriving /\ R \subseteq Nat /\ c \in Nat
      /\ \A n \in R : \A k \in order.ready .. n : k \in R
      /\ \A n \in DOMAIN Arriving \ R : order.ready <= n => order.ready + c <= n
      /\ order.ready + c \in DOMAIN Arriving => Arriving[order.ready + c].state = "reserved"
  BY <1>1, <1>2, ReadyCount
<1> DEFINE first == order.ready + c
<1>6. first \notin R
  <2>1. first \in order.ready .. first
    BY <1>2, <1>5
  <2>2. first \in R => Arriving[first].state # "reserved"
    BY <2>1 DEF Ready
  <2> QED
    BY <1>5, <2>2
<1>7. ASSUME NEW n \in R PROVE n < first
  <2>1. n \in Nat /\ order.ready <= n /\ first \in Nat
    BY <1>2, <1>4, <1>5
  <2>2. first \notin order.ready .. n
    BY <1>5, <1>6
  <2> QED
    BY <1>2, <1>5, <2>1, <2>2
<1>8. DOMAIN order'.pending = DOMAIN Arriving \ R
      /\ \A n \in DOMAIN order'.pending : order'.pending[n] = Arriving[n]
  BY <1>1
<1>9. DOMAIN order'.pending = first .. order'.reservation - 1
  <2> HIDE DEF R, c
  <2> QED
    BY <1>1, <1>2, <1>4, <1>5, <1>7, <1>8
<1> QED
  BY <1>1, <1>5, <1>8, <1>9

\* What waits will end, as no pump adds anything after its end.
LEMMA HandleEnding ==
  ASSUME IInv, OrderInv, EndingInv, channel # <<>>, NEW next, HandleEvent(Head(channel), next)
  PROVE  EndingInv'
<1>1. /\ TypeOK /\ channel' = Tail(channel) /\ pump' = pump
      /\ Head(channel) \in Events /\ Arriving = Pending(Head(channel))
  BY HeadType, ArrivedFrames DEF IInv, HandleEvent
<1>2. /\ \A k \in Position' : k \in Nat /\ k + 1 \in Position /\ channel'[k] = channel[k + 1]
      /\ \A k \in Position : k \in Nat /\ (k # 1 => /\ k - 1 \in Position'
                                                   /\ channel'[k - 1] = channel[k])
      /\ 1 \in Position /\ channel[1] = Head(channel)
  BY <1>1, Shifted
<1>3. ASSUME NEW d, NEW k \in Nat, Ending(d, k + 1) PROVE Ending(d, k)'
  <2>1. CASE pump[d].pc # "done"
    BY <1>1, <2>1 DEF Ending
  <2>2. ASSUME NEW i \in Position, k + 1 < i, Event(i, "finished"), channel[i].direction = d
        PROVE  Ending(d, k)'
    <3>1. i \in Nat /\ i # 1 /\ k < i - 1
      BY <1>2, <2>2
    <3> QED
      BY <1>2, <2>2, <3>1 DEF Ending, Event
  <2> QED
    BY <1>3, <2>1, <2>2 DEF Ending
<1>4. ASSUME NEW k \in Position', Event(k, "reserved")' PROVE Ending(channel[k].direction, k)'
  <2>1. Ending(channel[k + 1].direction, k + 1)
    BY <1>2, <1>4 DEF EndingInv, Event
  <2> QED
    BY <1>2, <1>3, <2>1
<1>5. ASSUME NEW n, NEW d, Waiting(order'.pending, n, d) PROVE Ending(d, 0)'
  <2>1. order'.pending = [i \in DOMAIN Arriving \ Ready(Arriving) |-> Arriving[i]]
    BY HandledFrames
  <2>2. Waiting(Arriving, n, d)
    BY <1>5, <2>1 DEF Waiting
  <2>3. CASE Head(channel).type = "reserved" /\ n = Head(channel).sequence
    <3>1. d = channel[1].direction
      BY <1>1, <1>2, <2>2, <2>3 DEF Pending, Waiting, Entry
    <3>2. Ending(d, 0 + 1)
      BY <1>2, <2>3, <3>1 DEF EndingInv, Event
    <3> QED
      BY <1>3, <3>2
  <2>4. CASE ~(Head(channel).type = "reserved" /\ n = Head(channel).sequence)
    <3>1. /\ Waiting(order.pending, n, d)
          /\ Head(channel).type = "finished" => Head(channel).direction # d
      <4>1. CASE Head(channel).type = "reserved"
        BY <1>1, <2>2, <2>4, <4>1 DEF Pending, Waiting
      <4>2. CASE Head(channel).type = "forwarded"
        BY <1>1, <2>2, <4>2 DEF Pending, Waiting
      <4>3. CASE Head(channel).type = "finished"
        BY <1>1, <2>2, <4>3 DEF Pending, Waiting, Retires, Entry
      <4> QED
        BY <1>1, <4>1, <4>2, <4>3 DEF Events
    <3>2. Ending(d, 0)
      BY <3>1 DEF EndingInv
    <3>3. Ending(d, 0 + 1)
      <4>1. ASSUME NEW i \in Position, 0 < i, Event(i, "finished"), channel[i].direction = d
            PROVE  0 + 1 < i
        <5>1. i # 1
          BY <1>2, <3>1, <4>1 DEF Event
        <5> QED
          BY <1>2, <4>1, <5>1
      <4> QED
        BY <3>2, <4>1 DEF Ending
    <3> QED
      BY <1>3, <3>3
  <2> QED
    BY <2>3, <2>4
<1>6. /\ DOMAIN order'.pending = order'.ready .. order'.reservation - 1
      /\ order'.ready \in DOMAIN order'.pending =>
            order'.pending[order'.ready].state = "reserved"
  BY HandleDense
<1> QED
  BY <1>4, <1>5, <1>6 DEF EndingInv

\* A step that leaves the recorder and the channel alone, ends no pump and
\* begins none again.
LEMMA QuietEnding ==
  ASSUME EndingInv, UNCHANGED <<channel, order>>,
         \A d \in Directions : pump'[d].pc = "done" <=> pump[d].pc = "done",
         TypeOK
  PROVE  EndingInv'
<1>1. ASSUME NEW d \in Directions, NEW k, Ending(d, k) PROVE Ending(d, k)'
  BY <1>1 DEF Ending, Position, Event
<1>2. ASSUME NEW n, NEW d, Waiting(order.pending, n, d) PROVE Ending(d, 0)'
  <2>1. d \in Directions
    <3>1. order.pending[n] \in Entries
      BY <1>2 DEF TypeOK, Waiting
    <3> QED
      BY <1>2, <3>1 DEF Entries, Waiting
  <2> QED
    BY <1>1, <1>2, <2>1 DEF EndingInv
<1>3. ASSUME NEW k \in Position, Event(k, "reserved") PROVE Ending(channel[k].direction, k)'
  BY <1>1, <1>3, PositionType DEF EndingInv
<1> QED
  BY <1>2, <1>3 DEF EndingInv, Position, Event

\* A pump that is not done appends an event, and ends if that tells its end.
LEMMA AppendEnding ==
  ASSUME TypeOK, EndingInv, NEW d \in Directions, NEW event \in Events,
         channel' = Append(channel, event), order' = order, event.direction = d,
         \A e \in Directions \ {d} : pump'[e] = pump[e],
         pump'[d].pc = "done" => event.type = "finished"
  PROVE  EndingInv'
<1>1. /\ Position' = Position \cup {Len(channel) + 1}
      /\ \A k \in Position : k < Len(channel) + 1 /\ channel'[k] = channel[k]
      /\ channel'[Len(channel) + 1] = event
  BY Appended
<1>0. PICK last : last = Len(channel) + 1
  OBVIOUS
<1>2. ASSUME NEW e \in Directions, NEW k, k < last, Ending(e, k) PROVE Ending(e, k)'
  <2>1. CASE e = d /\ pump'[d].pc = "done"
    <3>1. last \in Position' /\ Event(last, "finished")' /\ channel'[last].direction = e
      BY <1>0, <1>1, <2>1 DEF Event
    <3> QED
      BY <1>2, <3>1 DEF Ending
  <2>2. CASE ~(e = d /\ pump'[d].pc = "done")
    <3>1. pump[e].pc # "done" => pump'[e].pc # "done"
      BY <2>2
    <3>2. ASSUME NEW i \in Position, k < i, Event(i, "finished"), channel[i].direction = e
          PROVE  Ending(e, k)'
      BY <1>1, <3>2 DEF Ending, Event
    <3> QED
      BY <1>2, <3>1, <3>2 DEF Ending
  <2> QED
    BY <2>1, <2>2
<1>3. ASSUME NEW n, NEW e, Waiting(order.pending, n, e) PROVE Ending(e, 0)'
  <2>1. e \in Directions
    <3>1. order.pending[n] \in Entries
      BY <1>3 DEF TypeOK, Waiting
    <3> QED
      BY <1>3, <3>1 DEF Entries, Waiting
  <2>2. 0 < last
    BY <1>0, PositionType
  <2> QED
    BY <1>2, <1>3, <2>1, <2>2 DEF EndingInv
<1>4. ASSUME NEW k \in Position', Event(k, "reserved")' PROVE Ending(channel[k].direction, k)'
  <2>1. CASE k \in Position
    <3>1. Ending(channel[k].direction, k) /\ channel[k].direction \in Directions /\ k < last
      BY <1>0, <1>1, <1>4, <2>1, PositionType DEF EndingInv, Event
    <3> QED
      BY <1>1, <1>2, <2>1, <3>1
  <2>2. CASE k = last
    <3>1. event.type = "reserved"
      BY <1>0, <1>1, <1>4, <2>2 DEF Event
    <3>2. pump'[d].pc # "done"
      BY <3>1
    <3> QED
      BY <1>0, <1>1, <2>2, <3>2 DEF Ending
  <2> QED
    BY <1>0, <1>1, <1>4, <2>1, <2>2
<1>5. UNCHANGED order
  OBVIOUS
<1> QED
  BY <1>3, <1>4, <1>5 DEF EndingInv

\* run joins the pumps one after the other and returns when the channel is empty.
LEMMA MainJoined ==
  ASSUME TypeOK, MainInv, JoinedInv, Main
  PROVE  JoinedInv'
<1>1. ASSUME NEW next, HandleEvent(Head(channel), next), main.pc = next, channel # <<>>,
             next # "done"
      PROVE  main'.pc = next /\ pump' = pump
  BY <1>1 DEF HandleEvent, MainInv
<1>2. CASE Rest
  <2>1. main'.pc = "rest" /\ pump' = pump /\ main.pc = "rest"
    BY <1>1, <1>2 DEF Rest
  <2> QED
    BY <2>1 DEF JoinedInv
<1>3. CASE Receive \/ Drain
  <2>1. main'.pc \in {"poll", "drain"}
    BY <1>3 DEF Receive, Drain, HandleEvent, MainInv
  <2> QED
    BY <2>1 DEF JoinedInv
<1>4. CASE Poll \/ Timeout \/ DrainEnds \/ Stop
  <2>1. main'.pc \in {"poll", "receive", "drain", "stop", "joinOutput"}
    BY <1>4 DEF Poll, Timeout, DrainEnds, Stop, MainInv
  <2> QED
    BY <2>1 DEF JoinedInv
<1>5. CASE Join("inbound", "joinOutput", "joinInput")
  <2>1. main'.pc = "joinInput" /\ pump' = pump /\ pump["inbound"].pc = "done"
    BY <1>5 DEF Join, MainInv
  <2> QED
    BY <2>1 DEF JoinedInv
<1>6. CASE Join("outbound", "joinInput", "rest")
  <2>1. main'.pc = "rest" /\ main.pc = "joinInput" /\ pump' = pump /\ pump["outbound"].pc = "done"
    BY <1>6 DEF Join, MainInv
  <2> QED
    BY <2>1 DEF JoinedInv
<1>7. CASE RestEnds
  <2>1. main'.pc = "done" /\ main.pc = "rest" /\ pump' = pump /\ channel' = channel
        /\ channel = <<>>
    BY <1>7 DEF RestEnds, MainInv
  <2> QED
    BY <2>1 DEF JoinedInv
<1> QED
  BY <1>2, <1>3, <1>4, <1>5, <1>6, <1>7 DEF Main

\* A pump that changes only itself ends no sooner than it reports its end.
LEMMA PumpRecord ==
  ASSUME TypeOK, RInv, NEW d \in Directions, Pump(d) \/ ReadFails(d)
  PROVE  RInv'
<1>1. /\ pump \in [Directions -> Pumps] /\ pump[d] \in Pumps
      /\ pump[d].pc # "done" /\ ~(d = "inbound" /\ main.pc \in {"joinInput", "rest", "done"})
      /\ main.pc # "done"
  <2>1. pump[d].pc # "done"
    BY DEF Pump, ReadFails, Reserve, StopReading, Forward, ForwardFails, Complete, Finish
  <2> QED
    BY <2>1 DEF TypeOK, RInv, JoinedInv, Directions
<1>2. /\ UNCHANGED <<order, correlator, journal, main>>
      /\ \A e \in Directions \ {d} : pump'[e] = pump[e]
  BY <1>1 DEF Pump, ReadFails, Reserve, TakeFrame, StopReading, Forward, ForwardFails, Complete,
              Finish, recorder
<1>3. MainInv' /\ CountedInv'
  BY <1>2 DEF RInv, MainInv, CountedInv
<1>4. JoinedInv'
  BY <1>1, <1>2 DEF RInv, JoinedInv, Directions
<1>5. CASE StopReading(d) \/ ReadFails(d) \/ Forward(d) \/ ForwardFails(d)
  <2>1. channel' = channel
    BY <1>5 DEF StopReading, ReadFails, Forward, ForwardFails
  <2>2. pump'[d].pc # "done"
    <3>1. CASE StopReading(d)
      BY <1>1, <3>1 DEF StopReading, Pumps
    <3>2. CASE ReadFails(d)
      BY <1>1, <3>2 DEF ReadFails, Pumps
    <3>3. CASE Forward(d)
      BY <1>1, <3>3 DEF Forward, Pumps
    <3>4. CASE ForwardFails(d)
      BY <1>1, <3>4 DEF ForwardFails, Pumps
    <3> QED
      BY <1>5, <3>1, <3>2, <3>3, <3>4
  <2>3. \A e \in Directions : pump'[e].pc = "done" <=> pump[e].pc = "done"
    BY <1>1, <1>2, <2>2
  <2> QED
    BY <1>2, <1>3, <1>4, <2>1, <2>3, QuietEnding DEF RInv
<1>6. ASSUME NEW event \in Events, channel' = Append(channel, event), event.direction = d,
             pump'[d].pc = "done" => event.type = "finished"
      PROVE  RInv'
  BY <1>2, <1>3, <1>4, <1>6, AppendEnding DEF RInv
<1>7. CASE Reserve(d)
  <2> DEFINE event == Reserved(nextSequence, d, Head(source[d]))
  <2>1. Head(source[d]) \in Frames
    BY <1>7 DEF Reserve, TypeOK
  <2>2. event \in Events /\ event.direction = d
    BY <2>1 DEF Reserved, Events, TypeOK
  <2>3. channel' = Append(channel, event) /\ pump'[d].pc # "done"
    BY <1>1, <1>7 DEF Reserve, TakeFrame, Pumps
  <2> HIDE DEF event
  <2> QED
    BY <1>6, <2>2, <2>3
<1>8. CASE Complete(d)
  <2> DEFINE event == Forwarded(pump[d].sequence, d)
  <2>2. event \in Events /\ event.direction = d
    BY <1>1 DEF Forwarded, Events, Pumps
  <2>3. channel' = Append(channel, event) /\ pump'[d].pc # "done"
    BY <1>1, <1>8 DEF Complete, Pumps
  <2> HIDE DEF event
  <2> QED
    BY <1>6, <2>2, <2>3
<1>9. CASE Finish(d)
  <2> DEFINE event == Finished(d)
  <2>2. event \in Events /\ event.direction = d /\ event.type = "finished"
    BY <1>1 DEF Finished, Events, Pumps
  <2>3. channel' = Append(channel, event)
    BY <1>9 DEF Finish
  <2> HIDE DEF event
  <2> QED
    BY <1>6, <2>2, <2>3
<1> QED
  BY <1>5, <1>7, <1>8, <1>9 DEF Pump

\* Main.
LEMMA MainRecord ==
  ASSUME IInv, CInv, RInv, Main
  PROVE  RInv'
<1>1. JoinedInv' /\ TypeOK
  BY MainJoined DEF RInv, IInv
<1>2. CASE channel # <<>> /\ Handling
  <2>1. PICK next \in Places : HandleEvent(Head(channel), next)
    BY <1>2 DEF Handling, Places
  <2> QED
    BY <1>1, <1>2, <2>1, HandleCounted, HandleEnding DEF RInv, CInv
<1>3. CASE ~(channel # <<>> /\ Handling)
  <2>1. /\ UNCHANGED <<channel, order, correlator, journal>>
        /\ \/ pump' = pump
           \/ \E directions \in SUBSET Directions : pump' = Cancelled(directions)
    BY <1>3, MainSteps DEF recorder
  <2>2. \A d \in Directions : pump'[d].pc = pump[d].pc
    BY <1>1, <2>1, CancelledType
  <2>3. EndingInv'
    BY <1>1, <2>1, <2>2, QuietEnding DEF RInv
  <2>4. ~Receive /\ ~Drain /\ ~Rest
    BY <1>3 DEF Receive, Drain, Rest, Handling
  <2>5. MainInv' /\ main'.recordingError = main.recordingError
    <3>1. CASE Poll
      BY <1>1, <3>1, ZenonT(30) DEF Poll, RInv, MainInv, Places, TypeOK
    <3>2. CASE Timeout \/ DrainEnds \/ Stop \/ RestEnds
      BY <3>2 DEF Timeout, DrainEnds, Stop, RestEnds, RInv, MainInv, Places
    <3>3. CASE Join("inbound", "joinOutput", "joinInput") \/ Join("outbound", "joinInput", "rest")
      BY <3>3 DEF Join, RInv, MainInv, Places
    <3> QED
      BY <2>4, <3>1, <3>2, <3>3 DEF Main
  <2>6. CountedInv'
    BY <2>1, <2>5 DEF RInv, CountedInv
  <2> QED
    BY <1>1, <2>3, <2>5, <2>6 DEF RInv
<1> QED
  BY <1>2, <1>3

LEMMA InitRecord == Init => RInv
<1> SUFFICES ASSUME Init PROVE RInv
  OBVIOUS
<1>1. /\ channel = <<>> /\ Position = {} /\ order.pending = <<>> /\ journal = <<>>
      /\ order.ready = 0 /\ order.reservation = 0
  BY DEF Init, Position
<1>2. MainInv /\ JoinedInv
  BY DEF Init, MainInv, JoinedInv, Places
<1>3. EndingInv
  <2>1. DOMAIN order.pending = {} /\ 0 .. 0 - 1 = {}
    BY <1>1
  <2> QED
    BY <1>1, <2>1 DEF EndingInv, Waiting
<1>4. CountedInv
  BY <1>1 DEF Init, CountedInv, NoPending
<1> QED
  BY <1>2, <1>3, <1>4 DEF RInv

LEMMA StepRecord == IInv /\ CInv /\ RInv /\ [Next]_vars => RInv'
<1> SUFFICES ASSUME IInv, CInv, RInv, [Next]_vars PROVE RInv'
  OBVIOUS
<1>1. CASE Peers \/ Returned \/ UNCHANGED vars
  <2>1. UNCHANGED <<pump, channel, order, correlator, journal, main>>
    BY <1>1 DEF Peers, AgentRequests, AgentMutters, AgentReceives, AgentLeaves, ChildReceives,
                ChildResponds, ChildNotifies, ChildExits, Returned, vars, recorder
  <2>2. MainInv' /\ CountedInv' /\ JoinedInv'
    BY <2>1 DEF RInv, MainInv, CountedInv, JoinedInv
  <2> QED
    BY <2>1, <2>2, QuietEnding DEF RInv, IInv
<1>2. ASSUME NEW d \in Directions, Pump(d) \/ ReadFails(d) PROVE RInv'
  BY <1>2, PumpRecord DEF IInv
<1> QED
  BY <1>1, <1>2, MainRecord DEF Next

\* When run returns, no frame is anywhere but handled.
LEMMA ReturnedRecorded == TypeOK /\ CInv /\ RInv => StatusMeansRecorded
<1> SUFFICES ASSUME TypeOK, CInv, RInv, main.pc = "done", ~main.recordingError
             PROVE  /\ agent.received \cup child.received \subseteq HandledUids
                    /\ Len(journal) = correlator.seq
  BY DEF StatusMeansRecorded, HandledUids
<1>1. /\ channel = <<>> /\ Position = {}
      /\ pump["inbound"].pc = "done" /\ pump["outbound"].pc = "done"
  BY DEF RInv, JoinedInv, Position
<1>2. \A n, d : ~Waiting(order.pending, n, d)
  <2> SUFFICES ASSUME NEW n, NEW d, Waiting(order.pending, n, d) PROVE FALSE
    OBVIOUS
  <2>1. d \in Directions
    <3>1. order.pending[n] \in Entries
      BY DEF TypeOK, Waiting
    <3> QED
      BY <3>1 DEF Entries, Waiting
  <2> QED
    BY <1>1, <2>1 DEF RInv, EndingInv, Ending, Directions
<1>3. DOMAIN order.pending = {}
  <2>1. order.ready \notin DOMAIN order.pending
    BY <1>2 DEF RInv, EndingInv, Waiting
  <2>2. DOMAIN order.pending = order.ready .. order.reservation - 1
    BY DEF RInv, EndingInv
  <2>3. order.ready \in Nat /\ order.reservation \in Nat
    BY DEF TypeOK
  <2> QED
    BY <2>1, <2>2, <2>3
<1>4. \A n, f : ~Carried(n, f)
  BY <1>1, <1>3 DEF Carried
<1>5. ASSUME NEW u \in agent.received \cup child.received PROVE u \in HandledUids
  <2>1. Ahead(u, nextSequence)
    BY <1>5 DEF CInv, DeliveredInv
  <2> QED
    BY <1>4, <2>1 DEF Ahead
<1> QED
  BY <1>5 DEF RInv, CountedInv

\* When run returns the status of the child, no frame that a peer received is
\* missing from what was correlated, and the journal has every record of it,
\* wherever the shutdown found the pumps.
THEOREM NothingIsLost == Spec => []StatusMeansRecorded
<1>1. IInv => TypeOK
  BY DEF IInv
<1> QED
  BY <1>1, InitInv, StepInv, InitCausal, StepCausal, InitRecord, StepRecord, ReturnedRecorded, PTL
     DEF Spec

-----------------------------------------------------------------------------
(***************************************************************************)
(* Calls are paired with their own answers (Shim.CallsPaired).             *)
(*                                                                         *)
(* That the agent reuses the key of a request only once it has the answer, *)
(* and that the server answers a request once, are facts about frames      *)
(* (Pairs): a later request under a key knows the answer to the earlier one. *)
(* The invariant FInv keeps them for all frames anywhere in the system, with *)
(* what the peers expect (PeerInv), that a stream delivers each frame once *)
(* and in order (StreamInv), and that a frame is reserved and handled once *)
(* (OnceInv).  Since the frames are handled in causal order, the table of the *)
(* correlator then holds no request whose answer has passed (Outstanding), *)
(* and a response finds its request (RightRequest, FoldPaired).            *)
(***************************************************************************)

-----------------------------------------------------------------------------
(* Which frames belong together.                                            *)

\* The frame named u, if it is among F, answers the request named c.
Settles(u, c, F) == \A r \in F : r.uid = u => r.kind = "response" /\ r.call = c

\* A response answers a request whose key it has, and is the only one; a key is
\* used again by who has the answer to its last use.
Pairs(F) ==
    /\ \A f, g \in F : f.uid = g.uid => f = g
    /\ \A f \in F : f.kind = "request" => f.call = f.uid
    /\ \A f \in F : f.kind = "response" => f.call \in f.known
    /\ \A f, q \in F : f.kind = "response" /\ q.uid = f.call =>
          q.kind = "request" /\ q.key = f.key
    /\ \A f, g \in F : f.kind = "response" /\ g.kind = "response" /\ f.call = g.call => f = g
    /\ \A f, g \in F : f.kind = "request" /\ g.kind = "request" /\ f.key = g.key
                       /\ f.uid < g.uid => \E u \in g.known : Settles(u, f.uid, F)

\* What the kind of a frame tells of its direction.
Goes(frame, d) == IF d = "outbound" THEN frame.kind \in {"request", "unparsed"}
                                    ELSE frame.kind \in {"response", "notification"}

\* Each once, each after what it knows.
Ordered(hs) ==
    /\ hs \in Seq(Frames)
    /\ \A i, j \in 1 .. Len(hs) : hs[i].uid = hs[j].uid => i = j
    /\ \A j \in 1 .. Len(hs) : \A u \in hs[j].known : \E i \in 1 .. j - 1 : hs[i].uid = u
    /\ \A j \in 1 .. Len(hs) : hs[j].uid # 0

\* A request that is pending after the first n frames is among them, and no
\* answer to it.
Outstanding(c, hs, n) ==
    \A k \in Keys : c.pending[k] # 0 =>
        /\ \E i \in 1 .. n : hs[i].kind = "request" /\ hs[i].key = k /\ hs[i].uid = c.pending[k]
        /\ \A j \in 1 .. n : hs[j].kind = "response" => hs[j].call # c.pending[k]

Paired(records) ==
    \A k \in 1 .. Len(records) :
        records[k].method = "call" => records[k].call = records[k].answer

\* A response finds the request it answers, if any, under its key.
LEMMA RightRequest ==
  ASSUME NEW hs, Ordered(hs), Pairs({hs[i] : i \in 1 .. Len(hs)}),
         NEW c \in CorrelatorStates, NEW n \in Nat, n + 1 <= Len(hs), Outstanding(c, hs, n),
         hs[n + 1].kind = "response", c.pending[hs[n + 1].key] # 0
  PROVE  c.pending[hs[n + 1].key] = hs[n + 1].call
<1> DEFINE F == {hs[i] : i \in 1 .. Len(hs)}
<1>1. PICK f : f = hs[n + 1]
  OBVIOUS
<1>2. PICK p : p = c.pending[f.key]
  OBVIOUS
<1>3. /\ Len(hs) \in Nat /\ n + 1 \in 1 .. Len(hs)
      /\ \A i \in 1 .. Len(hs) : hs[i] \in F /\ hs[i] \in Frames
  BY DEF Ordered
<1>4. /\ f \in F /\ f \in Frames /\ f.key \in Keys /\ f.call \in Nat /\ f.kind = "response" /\ p # 0
      /\ p \in Nat
  BY <1>1, <1>2, <1>3 DEF Frames, CorrelatorStates
<1>5. PICK i \in 1 .. n : hs[i].kind = "request" /\ hs[i].key = f.key /\ hs[i].uid = p
  BY <1>2, <1>4 DEF Outstanding
<1>6. \A j \in 1 .. n : hs[j].kind = "response" => hs[j].call # p
  BY <1>2, <1>4 DEF Outstanding
<1>7. PICK a \in 1 .. n : hs[a].uid = f.call
  <2>1. f.call \in f.known
    BY <1>4 DEF Pairs
  <2>2. PICK a \in 1 .. (n + 1) - 1 : hs[a].uid = f.call
    BY <1>1, <1>3, <2>1 DEF Ordered
  <2> QED
    BY <2>2
<1>8. i \in 1 .. Len(hs) /\ a \in 1 .. Len(hs)
  BY <1>3
<1>9. hs[a].kind = "request" /\ hs[a].key = f.key
  BY <1>3, <1>4, <1>7, <1>8, Zenon DEF Pairs
<1>10. ASSUME NEW x \in 1 .. n, NEW y \in 1 .. n, hs[x].kind = "request", hs[y].kind = "request",
              hs[x].key = hs[y].key, hs[x].uid < hs[y].uid
       PROVE  \E b \in 1 .. n : hs[b].kind = "response" /\ hs[b].call = hs[x].uid
  <2>1. x \in 1 .. Len(hs) /\ y \in 1 .. Len(hs)
    BY <1>3
  <2>2. PICK u \in hs[y].known : Settles(u, hs[x].uid, F)
    BY <1>3, <1>10, <2>1, Zenon DEF Pairs
  <2>3. PICK b \in 1 .. y - 1 : hs[b].uid = u
    BY <2>1, <2>2 DEF Ordered
  <2>4. b \in 1 .. n /\ b \in 1 .. Len(hs)
    BY <1>3
  <2> QED
    BY <1>3, <2>2, <2>3, <2>4 DEF Settles
<1>11. ~(p < f.call)
  BY <1>5, <1>6, <1>7, <1>9, <1>10
<1>12. ~(f.call < p)
  <2> SUFFICES ASSUME f.call < p PROVE FALSE
    OBVIOUS
  <2>1. PICK b \in 1 .. n : hs[b].kind = "response" /\ hs[b].call = f.call
    BY <1>5, <1>7, <1>9, <1>10
  <2>2. hs[b] = f
    BY <1>3, <1>4, <2>1, SMTT(30) DEF Pairs
  <2>3. b = n + 1
    BY <1>1, <1>3, <2>2 DEF Ordered
  <2> QED
    BY <2>3
<1> QED
  BY <1>1, <1>2, <1>4, <1>11, <1>12

\* One frame keeps what is pending right, and what it makes a record of.
LEMMA CorrelatePaired ==
  ASSUME NEW hs, Ordered(hs), Pairs({hs[i] : i \in 1 .. Len(hs)}),
         NEW n \in Nat, n + 1 <= Len(hs),
         NEW c, c.state \in CorrelatorStates, c.records \in Seq(Records),
         Outstanding(c.state, hs, n), Paired(c.records),
         NEW entry, entry.frame = {hs[n + 1]}, Goes(hs[n + 1], entry.direction)
  PROVE  LET next == Correlate(c, entry)
         IN  Outstanding(next.state, hs, n + 1) /\ Paired(next.records)
<1>1. PICK f : f = hs[n + 1]
  OBVIOUS
<1>2. PICK s : s = c.state
  OBVIOUS
<1>3. /\ TheFrame(entry) = f /\ f \in Frames /\ f.key \in Keys /\ f.call \in Nat
      /\ s \in CorrelatorStates /\ s.pending \in [Keys -> Nat] /\ Len(c.records) \in Nat
      /\ n + 1 \in 1 .. Len(hs) /\ Len(hs) \in Nat
  <2>1. hs \in Seq(Frames) /\ n + 1 \in 1 .. Len(hs) /\ Len(hs) \in Nat
    BY DEF Ordered
  <2>2. f \in Frames
    BY <1>1, <2>1
  <2> QED
    <3>1. TheFrame(entry) = f
      BY <1>1 DEF TheFrame
    <3>2. f.key \in Keys /\ f.call \in Nat
      BY <2>2 DEF Frames
    <3>3. s \in CorrelatorStates /\ s.pending \in [Keys -> Nat]
      BY <1>2 DEF CorrelatorStates
    <3>4. Len(c.records) \in Nat
      OBVIOUS
    <3> QED
      BY <2>1, <2>2, <3>1, <3>2, <3>3, <3>4
<1>4. 1 .. n + 1 = 1 .. n \cup {n + 1}
  OBVIOUS
<1>5. f.kind = "unparsed" \/ f.kind = "request" \/ f.kind = "response" \/ f.kind = "notification"
  BY <1>3 DEF Frames, Kinds
<1>6. CASE f.kind = "request"
  <2>1. entry.direction = "outbound"
    BY <1>1, <1>6 DEF Goes
  <2>2. Correlate(c, entry) = [state |-> [s EXCEPT !.pending[f.key] = f.call], records |-> c.records]
    BY <1>2, <1>3, <1>6, <2>1 DEF Correlate, TheFrame, OnOutbound
  <2> DEFINE next == [s EXCEPT !.pending[f.key] = f.call]
  <2>3. next.pending[f.key] = f.uid /\ \A k \in Keys \ {f.key} : next.pending[k] = s.pending[k]
    <3>1. f.call = f.uid
      BY <1>1, <1>3, <1>6 DEF Pairs
    <3> QED
      BY <1>3, <3>1 DEF CorrelatorStates
  <2> HIDE DEF next
  <2>4. ASSUME NEW j \in 1 .. n + 1, hs[j].kind = "response" PROVE hs[j].call # f.uid
    <3> SUFFICES ASSUME hs[j].call = f.uid PROVE FALSE
      OBVIOUS
    <3>1. j \in 1 .. Len(hs)
      BY <1>3
    <3>2. f.uid \in hs[j].known
      BY <2>4, <3>1 DEF Pairs
    <3>3. PICK i \in 1 .. j - 1 : hs[i].uid = f.uid
      BY <3>1, <3>2 DEF Ordered
    <3>4. i \in 1 .. Len(hs)
      BY <1>3, <3>1
    <3>5. i = n + 1
      BY <1>1, <1>3, <3>3, <3>4 DEF Ordered
    <3> QED
      BY <3>5
  <2>5. ASSUME NEW k \in Keys, next.pending[k] # 0
        PROVE  /\ \E i \in 1 .. n + 1 : hs[i].kind = "request" /\ hs[i].key = k
                                        /\ hs[i].uid = next.pending[k]
               /\ \A j \in 1 .. n + 1 : hs[j].kind = "response" => hs[j].call # next.pending[k]
    <3>1. CASE k = f.key
      BY <1>1, <1>4, <1>6, <2>3, <2>4, <3>1
    <3>2. CASE k # f.key
      BY <1>1, <1>2, <1>4, <1>6, <2>3, <2>5, <3>2 DEF Outstanding
    <3> QED
      BY <3>1, <3>2
  <2>6. Outstanding(next, hs, n + 1)
    BY <2>5 DEF Outstanding
  <2> QED
    BY <2>2, <2>6 DEF next
<1>7. CASE f.kind # "request"
  <2>1. Correlate(c, entry) = [state |-> OnInbound(s, f), records |-> c.records \o Recorded(s, f)]
    <3>1. ~(entry.direction = "outbound" /\ f.kind # "unparsed")
      BY <1>1, <1>7 DEF Goes
    <3> QED
      BY <1>2, <1>3, <3>1 DEF Correlate, TheFrame
  <2>2. /\ Recorded(s, f) \in Seq(Records)
        /\ \A k \in 1 .. Len(Recorded(s, f)) : LET r == Recorded(s, f)[k]
                                               IN  r.method = "call" => r.call = r.answer
    <3>1. \A m \in {"call", "notification", "unparsed"} : \A x, y \in Nat :
             CallRecord(s, m, x, y) \in Records
      BY <1>3 DEF CallRecord, Records, CorrelatorStates
    <3>2. CASE Answers(s, f)
      <4>1. s.pending[f.key] = f.call
        <5>1. f.kind = "response" /\ s.pending[f.key] # 0
          BY <3>2 DEF Answers
        <5>2. Outstanding(s, hs, n)
          BY <1>2
        <5> QED
          BY <1>1, <1>3, <5>1, <5>2, RightRequest
      <4>2. Recorded(s, f) = <<CallRecord(s, "call", f.call, f.call)>>
        BY <3>2, <4>1 DEF Recorded
      <4> QED
        BY <1>3, <3>1, <4>2 DEF CallRecord
    <3>3. CASE ~Answers(s, f)
      BY <3>1, <3>3 DEF Recorded, CallRecord
    <3> QED
      BY <3>2, <3>3
  <2> DEFINE news == Recorded(s, f)
  <2>3. Paired(c.records \o news)
    <3> HIDE DEF news
    <3>1. /\ Len(news) \in Nat
          /\ \A k \in 1 .. Len(news) : news[k].method = "call" => news[k].call = news[k].answer
      BY <2>2 DEF news
    <3>2. /\ Len(c.records \o news) = Len(c.records) + Len(news)
          /\ \A k \in 1 .. Len(c.records) + Len(news) : (c.records \o news)[k] =
                IF k <= Len(c.records) THEN c.records[k] ELSE news[k - Len(c.records)]
      BY <2>2, ConcatProperties DEF news
    <3>3. ASSUME NEW k \in 1 .. Len(c.records) + Len(news), (c.records \o news)[k].method = "call"
          PROVE  (c.records \o news)[k].call = (c.records \o news)[k].answer
      <4>1. CASE k <= Len(c.records)
        BY <1>3, <3>2, <3>3, <4>1 DEF Paired
      <4>2. CASE ~(k <= Len(c.records))
        <5>1. k - Len(c.records) \in 1 .. Len(news)
          BY <1>3, <3>1, <4>2, SMTT(30)
        <5> QED
          BY <3>1, <3>2, <3>3, <4>2, <5>1
      <4> QED
        BY <4>1, <4>2
    <3> QED
      BY <3>2, <3>3 DEF Paired
  <2>4. ASSUME NEW k \in Keys, OnInbound(s, f).pending[k] # 0
        PROVE  /\ OnInbound(s, f).pending[k] = s.pending[k]
               /\ f.kind = "response" => k # f.key
    BY <1>3, <2>4 DEF OnInbound, Answers
  <2>5. ASSUME NEW k \in Keys, s.pending[k] # 0, f.kind = "response", k # f.key
        PROVE  f.call # s.pending[k]
    <3>1. PICK i \in 1 .. n : hs[i].key = k /\ hs[i].uid = s.pending[k]
      BY <1>2, <2>5 DEF Outstanding
    <3>2. i \in 1 .. Len(hs)
      BY <1>3
    <3> QED
      BY <1>1, <1>3, <2>5, <3>1, <3>2 DEF Pairs
  <2>6. Outstanding(OnInbound(s, f), hs, n + 1)
    <3> SUFFICES ASSUME NEW k \in Keys, OnInbound(s, f).pending[k] # 0
                 PROVE  /\ \E i \in 1 .. n + 1 : hs[i].kind = "request" /\ hs[i].key = k
                                                 /\ hs[i].uid = s.pending[k]
                        /\ \A j \in 1 .. n + 1 : hs[j].kind = "response" => hs[j].call # s.pending[k]
      BY <2>4 DEF Outstanding
    <3> QED
      BY <1>1, <1>2, <1>4, <2>4, <2>5 DEF Outstanding
  <2> QED
    BY <2>1, <2>3, <2>6
<1> QED
  BY <1>6, <1>7

\* All that became ready.
LEMMA FoldPaired ==
  ASSUME NEW hs, Ordered(hs), Pairs({hs[i] : i \in 1 .. Len(hs)}),
         NEW n \in Nat, NEW m \in Nat, n + m = Len(hs),
         NEW s \in CorrelatorStates, Outstanding(s, hs, n),
         NEW entries, DOMAIN entries = 1 .. m,
         \A k \in 1 .. m : /\ entries[k].frame = {hs[n + k]}
                           /\ Goes(hs[n + k], entries[k].direction)
  PROVE  LET result == FoldLeft(Correlate, [state |-> s, records |-> <<>>], entries)
         IN  Outstanding(result.state, hs, n + m) /\ Paired(result.records)
<1> DEFINE base == [state |-> s, records |-> <<>>]
           Good(c, k) == /\ c.state \in CorrelatorStates /\ c.records \in Seq(Records)
                         /\ Outstanding(c.state, hs, n + k) /\ Paired(c.records)
<1>1. PICK h : /\ h[0] = base
               /\ \A k \in 1 .. m : h[k] = Correlate(h[k - 1], entries[k])
               /\ h[m] = FoldLeft(Correlate, base, entries)
  <2> HIDE DEF base
  <2> QED
    BY FoldSteps
<1> DEFINE S == {k \in Nat : k <= m => Good(h[k], k)}
<1>2. 0 \in S
  <2>1. Good(base, 0)
    <3>1. n + 0 = n
      OBVIOUS
    <3> QED
      BY <3>1 DEF Paired
  <2> QED
    BY <1>1, <2>1
<1>3. ASSUME NEW k \in Nat, k \in S PROVE k + 1 \in S
  <2> SUFFICES ASSUME k + 1 <= m PROVE Good(h[k + 1], k + 1)
    OBVIOUS
  <2>1. Good(h[k], k)
    BY <1>3
  <2>2. k + 1 \in 1 .. m /\ (k + 1) - 1 = k /\ n + k \in Nat
        /\ n + (k + 1) = (n + k) + 1 /\ (n + k) + 1 <= Len(hs)
    BY <1>3
  <2>3. h[k + 1] = Correlate(h[k], entries[k + 1])
    BY <1>1, <2>2
  <2>4. /\ entries[k + 1].frame = {hs[(n + k) + 1]}
        /\ Goes(hs[(n + k) + 1], entries[k + 1].direction)
        /\ TheFrame(entries[k + 1]) \in Frames
    <3>1. /\ entries[k + 1].frame = {hs[(n + k) + 1]}
          /\ Goes(hs[(n + k) + 1], entries[k + 1].direction)
      BY <2>2
    <3>2. (n + k) + 1 \in 1 .. Len(hs)
      BY <2>2
    <3> QED
      BY <3>1, <3>2 DEF Ordered, TheFrame
  <2>5. h[k + 1].state \in CorrelatorStates /\ h[k + 1].records \in Seq(Records)
    BY <2>1, <2>3, <2>4, CorrelateType
  <2>6. Outstanding(h[k + 1].state, hs, (n + k) + 1) /\ Paired(h[k + 1].records)
    <3>1. PICK j : j = n + k
      OBVIOUS
    <3>2. PICK c : c = h[k]
      OBVIOUS
    <3>3. PICK entry : entry = entries[k + 1]
      OBVIOUS
    <3>4. /\ j \in Nat /\ j + 1 <= Len(hs) /\ entry.frame = {hs[j + 1]}
          /\ Goes(hs[j + 1], entry.direction)
      BY <2>2, <2>4, <3>1, <3>3
    <3>5. /\ c.state \in CorrelatorStates /\ c.records \in Seq(Records)
          /\ Outstanding(c.state, hs, j) /\ Paired(c.records)
      BY <2>1, <3>1, <3>2
    <3>6. Outstanding(Correlate(c, entry).state, hs, j + 1) /\ Paired(Correlate(c, entry).records)
      BY <3>4, <3>5, CorrelatePaired
    <3> QED
      BY <2>3, <3>1, <3>2, <3>3, <3>6
  <2> QED
    BY <2>2, <2>5, <2>6
<1>4. m \in S
  <2> HIDE DEF S
  <2> QED
    BY <1>2, <1>3, InductionOnNat
<1>5. Good(h[m], m)
  BY <1>4
<1> QED
  BY <1>1, <1>5

-----------------------------------------------------------------------------
(* The frames of the system.                                                *)

Input(d, f) == \E p \in 1 .. Len(source[d]) : source[d][p] = f
Output(d, f) == \E p \in 1 .. Len(destination[d]) : destination[d][p] = f

\* The frames that are somewhere.
AllFrames ==
    {f \in Frames :
        \/ \E d \in Directions : Input(d, f) \/ Output(d, f)
        \/ \E n : Carried(n, f)
        \/ \E i \in 1 .. Len(handled) : handled[i] = f
        \/ f \in child.todo}

Received(d) == IF d = "outbound" THEN child.received ELSE agent.received

KindInv ==
    /\ \A d \in Directions : \A f \in Frames : Input(d, f) \/ Output(d, f) => Goes(f, d)
    /\ \A k \in Position : \A f \in channel[k].frame : Goes(f, channel[k].direction)
    /\ \A n \in DOMAIN order.pending : \A f \in order.pending[n].frame :
          Goes(f, order.pending[n].direction)
    /\ \A d \in Directions : pump[d].pc = "forwarding" => \A f \in pump[d].frame : Goes(f, d)

NameInv ==
    /\ \A f \in AllFrames : f.uid \in 1 .. sent /\ f.known \subseteq 1 .. sent
    /\ agent.received \cup child.received \subseteq 1 .. sent
    /\ agent.sent \cup child.sent \subseteq 1 .. sent

\* A pump takes the frames in the order they were written, and a peer receives
\* each of them once.
StreamInv ==
    \A d \in Directions :
        /\ \A p, q \in 1 .. Len(source[d]) : p < q => source[d][p].uid < source[d][q].uid
        /\ \A p, q \in 1 .. Len(destination[d]) :
              p < q => destination[d][p].uid < destination[d][q].uid
        /\ \A p \in 1 .. Len(destination[d]) : \A u \in Received(d) : u < destination[d][p].uid
        /\ \A q \in 1 .. Len(source[d]) :
              /\ \A p \in 1 .. Len(destination[d]) : destination[d][p].uid < source[d][q].uid
              /\ \A u \in Received(d) : u < source[d][q].uid
              /\ pump[d].pc = "forwarding" => \A f \in pump[d].frame : f.uid < source[d][q].uid
        /\ pump[d].pc = "forwarding" => \A f \in pump[d].frame :
              /\ \A p \in 1 .. Len(destination[d]) : destination[d][p].uid < f.uid
              /\ \A u \in Received(d) : u < f.uid

\* A frame is reserved once and handled once.
OnceInv ==
    /\ \A i, j \in 1 .. Len(handled) : handled[i].uid = handled[j].uid => i = j
    /\ \A n, f : Carried(n, f) => f.uid \notin HandledUids
    /\ \A m, n, f : Carried(m, f) /\ Carried(n, f) => m = n
    /\ \A d \in Directions : \A f \in Frames : Input(d, f) =>
          f.uid \notin HandledUids /\ \A n : ~Carried(n, f)

\* What the agent waits for, and the server has to do.
PeerInv ==
    /\ \A f \in AllFrames : f.kind = "request" /\ f.uid # agent.open[f.key] =>
          \E u \in agent.received : Settles(u, f.uid, AllFrames)
    /\ \A f \in AllFrames : f.kind = "response" => f.call \in child.received
    /\ \A t \in child.todo : /\ t.kind = "request" /\ t.uid \in child.received
                             /\ \A f \in AllFrames : f.kind = "response" => f.call # t.uid

FInv == KindInv /\ NameInv /\ StreamInv /\ OnceInv /\ Pairs(AllFrames) /\ PeerInv
        /\ Outstanding(correlator, handled, Len(handled)) /\ Paired(journal)

\* A frame that is reserved, or that was received, is somewhere.
LEMMA CarriedFrames ==
  ASSUME TypeOK, NEW n, NEW f, Carried(n, f)
  PROVE  f \in Frames /\ f \in AllFrames
<1>1. CASE \E k \in Position : f \in channel[k].frame
  <2>1. PICK k \in Position : f \in channel[k].frame
    BY <1>1
  <2>2. channel[k] \in Events
    BY PositionType
  <2>3. f \in Frames
    BY <2>1, <2>2 DEF Events
  <2> QED
    BY <2>3 DEF AllFrames
<1>2. CASE n \in DOMAIN order.pending /\ f \in order.pending[n].frame
  <2>1. order.pending[n] \in Entries
    BY <1>2 DEF TypeOK
  <2>2. f \in Frames
    BY <1>2, <2>1 DEF Entries
  <2> QED
    BY <2>2 DEF AllFrames
<1> QED
  BY <1>1, <1>2 DEF Carried

LEMMA AheadFrame ==
  ASSUME handled \in Seq(Frames), NEW u, NEW n, Ahead(u, n)
  PROVE  \E f \in AllFrames : f.uid = u
<1>1. CASE u \in HandledUids
  <2>1. PICK k \in 1 .. Len(handled) : handled[k].uid = u
    BY <1>1 DEF HandledUids
  <2>2. handled[k] \in AllFrames
    <3>1. handled[k] \in Frames
      BY <2>1
    <3> QED
      BY <2>1, <3>1 DEF AllFrames
  <2> QED
    BY <2>1, <2>2
<1>2. CASE \E m : \E f \in Frames : f.uid = u /\ Carried(m, f)
  BY <1>2 DEF AllFrames
<1> QED
  BY <1>1, <1>2 DEF Ahead

LEMMA FewerPairs ==
  ASSUME NEW F, NEW G, G \subseteq F, Pairs(F)
  PROVE  Pairs(G) /\ \A u, c : Settles(u, c, F) => Settles(u, c, G)
<1>1. \A u, c : Settles(u, c, F) => Settles(u, c, G)
  BY DEF Settles
<1>2. ASSUME NEW f \in G, NEW g \in G, f.kind = "request", g.kind = "request", f.key = g.key,
             f.uid < g.uid
      PROVE  \E u \in g.known : Settles(u, f.uid, G)
  <2>1. \E u \in g.known : Settles(u, f.uid, F)
    BY <1>2 DEF Pairs
  <2> QED
    BY <1>1, <2>1
<1>3. /\ \A f, g \in G : f.uid = g.uid => f = g
      /\ \A f \in G : f.kind = "request" => f.call = f.uid
      /\ \A f \in G : f.kind = "response" => f.call \in f.known
      /\ \A f, q \in G : f.kind = "response" /\ q.uid = f.call =>
            q.kind = "request" /\ q.key = f.key
      /\ \A f, g \in G : f.kind = "response" /\ g.kind = "response" /\ f.call = g.call => f = g
  BY Zenon DEF Pairs
<1> QED
  BY <1>1, <1>2, <1>3 DEF Pairs

\* A new frame, which no other knows of.
LEMMA NewPairs ==
  ASSUME NEW F, NEW new, NEW n \in Nat, Pairs(F),
         \A f \in F : f.uid \in 1 .. n /\ f.known \subseteq 1 .. n,
         new.uid = n + 1, new.known \subseteq 1 .. n,
         new.kind = "request" =>
            /\ new.call = new.uid
            /\ \A f \in F : f.kind = "request" /\ f.key = new.key =>
                  \E u \in new.known : Settles(u, f.uid, F),
         new.kind = "response" =>
            /\ new.call \in new.known
            /\ \A q \in F : q.uid = new.call => q.kind = "request" /\ q.key = new.key
            /\ \A g \in F : g.kind = "response" => g.call # new.call
  PROVE  /\ Pairs(F \cup {new})
         /\ \A u \in 1 .. n : \A c : Settles(u, c, F) => Settles(u, c, F \cup {new})
<1> DEFINE G == F \cup {new}
<1>1. \A u \in 1 .. n : u # new.uid
  OBVIOUS
<1>2. \A u \in 1 .. n : \A c : Settles(u, c, F) => Settles(u, c, G)
  BY <1>1 DEF Settles
<1>3. \A f, g \in G : f.uid = g.uid => f = g
  <2>1. \A f, g \in F : f.uid = g.uid => f = g
    BY DEF Pairs
  <2>2. \A f \in F : f.uid # new.uid
    BY <1>1
  <2> QED
    BY <2>1, <2>2
<1>4. \A f \in G : f.kind = "request" => f.call = f.uid
  BY DEF Pairs
<1>5. \A f \in G : f.kind = "response" => f.call \in f.known /\ f.call \in 1 .. n
  BY DEF Pairs
<1>6. \A f, q \in G : f.kind = "response" /\ q.uid = f.call =>
            q.kind = "request" /\ q.key = f.key
  <2>1. \A f \in G : f.kind = "response" => f.call # new.uid
    BY <1>1, <1>5
  <2>2. \A f, q \in F : f.kind = "response" /\ q.uid = f.call =>
            q.kind = "request" /\ q.key = f.key
    BY DEF Pairs
  <2> QED
    BY <2>1, <2>2
<1>7. \A f, g \in G : f.kind = "response" /\ g.kind = "response" /\ f.call = g.call => f = g
  <2>1. \A f, g \in F : f.kind = "response" /\ g.kind = "response" /\ f.call = g.call => f = g
    BY DEF Pairs
  <2> QED
    BY <2>1
<1>8. ASSUME NEW f \in G, NEW g \in G, f.kind = "request", g.kind = "request", f.key = g.key,
             f.uid < g.uid
      PROVE  \E u \in g.known : Settles(u, f.uid, G)
  <2>1. f \in F
    <3>1. g.uid <= new.uid /\ g.uid \in Nat
      OBVIOUS
    <3>2. f.uid # new.uid
      BY <1>8, <3>1
    <3> QED
      BY <3>2
  <2>2. \E u \in g.known : Settles(u, f.uid, F)
    <3>1. CASE g \in F
      BY <1>8, <2>1, <3>1 DEF Pairs
    <3>2. CASE g = new
      BY <1>8, <2>1, <3>2
    <3> QED
      BY <3>1, <3>2
  <2>3. g.known \subseteq 1 .. n
    OBVIOUS
  <2> QED
    BY <1>2, <2>2, <2>3
<1> QED
  <2> HIDE DEF G
  <2>1. Pairs(G)
    BY <1>3, <1>4, <1>5, <1>6, <1>7, <1>8 DEF Pairs
  <2> QED
    BY <1>2, <2>1 DEF G

\* Where frames only move or are lost, and no peer acts.
LEMMA FramesStay ==
  ASSUME NameInv, Pairs(AllFrames), PeerInv, AllFrames' \subseteq AllFrames, sent' = sent,
         agent'.open = agent.open, agent'.received = agent.received, agent'.sent = agent.sent,
         child'.todo = child.todo, child'.received = child.received, child'.sent = child.sent
  PROVE  NameInv' /\ Pairs(AllFrames)' /\ PeerInv'
<1>1. Pairs(AllFrames') /\ \A u, c : Settles(u, c, AllFrames) => Settles(u, c, AllFrames')
  BY FewerPairs
<1>2. NameInv'
  BY DEF NameInv
<1>3. PeerInv'
  <2>1. ASSUME NEW f \in AllFrames', f.kind = "request", f.uid # agent.open[f.key]
        PROVE  \E u \in agent.received : Settles(u, f.uid, AllFrames')
    BY <1>1, <2>1 DEF PeerInv
  <2>2. \A f \in AllFrames' : f.kind = "response" => f.call \in child.received
    BY DEF PeerInv
  <2>3. \A t \in child.todo : /\ t.kind = "request" /\ t.uid \in child.received
                              /\ \A f \in AllFrames' : f.kind = "response" => f.call # t.uid
    BY DEF PeerInv
  <2> QED
    BY <2>1, <2>2, <2>3 DEF PeerInv
<1> QED
  BY <1>1, <1>2, <1>3

-----------------------------------------------------------------------------
(* The peers.                                                               *)

\* Nothing but the inputs and the peers changes.
Still == UNCHANGED <<destination, pump, channel, order, handled, correlator, journal>>

LEMMA WrittenFrames ==
  ASSUME TypeOK, NEW d \in Directions, NEW new \in Frames, Write(d, new), Still,
         child'.todo \subseteq child.todo
  PROVE  /\ AllFrames' \subseteq AllFrames \cup {new}
         /\ source'[d] = Append(source[d], new)
         /\ \A e \in Directions \ {d} : source'[e] = source[e]
         /\ \A e, f : Input(e, f)' /\ e \in Directions => Input(e, f) \/ (e = d /\ f = new)
         /\ \A e, f : Output(e, f)' <=> Output(e, f)
         /\ \A n, f : Carried(n, f)' <=> Carried(n, f)
         /\ sent' = sent + 1 /\ HandledUids' = HandledUids
<1>1. /\ source'[d] = Append(source[d], new) /\ sent' = sent + 1
      /\ \A e \in Directions \ {d} : source'[e] = source[e]
  BY DEF Write, TypeOK
<1>2. ASSUME NEW e \in Directions, NEW f, Input(e, f)' PROVE Input(e, f) \/ (e = d /\ f = new)
  <2>1. CASE e = d
    <3>1. source[d] \in Seq(Frames)
      BY DEF TypeOK
    <3>2. PICK p \in 1 .. Len(source'[d]) : source'[d][p] = f
      BY <1>2, <2>1 DEF Input
    <3>3. CASE p = Len(source[d]) + 1
      BY <1>1, <2>1, <3>1, <3>2, <3>3
    <3>4. CASE p # Len(source[d]) + 1
      BY <1>1, <2>1, <3>1, <3>2, <3>4 DEF Input
    <3> QED
      BY <3>3, <3>4
  <2>2. CASE e # d
    BY <1>1, <1>2, <2>2 DEF Input
  <2> QED
    BY <2>1, <2>2
<1>3. \A e, f : Output(e, f)' <=> Output(e, f)
  BY DEF Output, Still
<1>4. \A n, f : Carried(n, f)' <=> Carried(n, f)
  BY DEF Carried, Position, Event, Still
<1>5. handled' = handled /\ HandledUids' = HandledUids
  BY DEF HandledUids, Still
<1>6. AllFrames' \subseteq AllFrames \cup {new}
  BY <1>2, <1>3, <1>4, <1>5 DEF AllFrames
<1> QED
  BY <1>1, <1>2, <1>3, <1>4, <1>5, <1>6

\* A new frame is behind all others.
LEMMA WriteFrame ==
  ASSUME IInv, CInv, FInv, NEW d \in Directions, NEW new \in Frames, Write(d, new), Still,
         new.uid = sent + 1, Goes(new, d), child'.todo \subseteq child.todo,
         agent'.received = agent.received, child'.received = child.received
  PROVE  /\ KindInv' /\ StreamInv' /\ OnceInv'
         /\ Outstanding(correlator, handled, Len(handled))' /\ Paired(journal)'
<1>1. /\ TypeOK /\ handled \in Seq(Frames) /\ KindInv /\ NameInv /\ StreamInv /\ OnceInv
      /\ sent \in Nat
  BY DEF IInv, CInv, OrderInv, FInv, TypeOK
<1>2. /\ source'[d] = Append(source[d], new)
      /\ \A e \in Directions \ {d} : source'[e] = source[e]
      /\ \A e, f : Input(e, f)' /\ e \in Directions => Input(e, f) \/ (e = d /\ f = new)
      /\ \A e, f : Output(e, f)' <=> Output(e, f)
      /\ \A n, f : Carried(n, f)' <=> Carried(n, f)
      /\ HandledUids' = HandledUids
  BY <1>1, WrittenFrames
<1>3. KindInv'
  BY <1>1, <1>2 DEF KindInv, Still, Position
<1>4. OnceInv'
  <2>1. new.uid \notin HandledUids
    <3>1. ASSUME NEW k \in 1 .. Len(handled) PROVE handled[k].uid # new.uid
      <4>1. handled[k] \in AllFrames
        <5>1. handled[k] \in Frames
          BY <1>1
        <5> QED
          BY <5>1 DEF AllFrames
      <4>2. handled[k].uid \in 1 .. sent
        BY <1>1, <4>1 DEF NameInv
      <4> QED
        BY <1>1, <4>2
    <3> QED
      BY <3>1 DEF HandledUids
  <2>2. \A n : ~Carried(n, new)
    <3> SUFFICES ASSUME NEW n, Carried(n, new) PROVE FALSE
      OBVIOUS
    <3>1. new \in AllFrames
      BY <1>1, CarriedFrames
    <3>2. new.uid \in 1 .. sent
      BY <1>1, <3>1 DEF NameInv
    <3> QED
      BY <1>1, <3>2
  <2>3. handled' = handled
    BY DEF Still
  <2> QED
    BY <1>1, <1>2, <2>1, <2>2, <2>3 DEF OnceInv
<1>5. StreamInv'
  <2>1. ASSUME NEW e \in Directions, NEW p \in 1 .. Len(source[e])
        PROVE  source[e][p].uid \in 1 .. sent
    <3>1. source[e][p] \in Frames
      BY <1>1 DEF TypeOK
    <3>2. source[e][p] \in AllFrames
      BY <3>1 DEF AllFrames, Input
    <3> QED
      BY <1>1, <3>2 DEF NameInv
  <2>2. ASSUME NEW e \in Directions, NEW p \in 1 .. Len(destination[e])
        PROVE  destination[e][p].uid \in 1 .. sent
    <3>1. destination[e][p] \in Frames
      BY <1>1 DEF TypeOK
    <3>2. destination[e][p] \in AllFrames
      BY <3>1 DEF AllFrames, Output
    <3> QED
      BY <1>1, <3>2 DEF NameInv
  <2>3. ASSUME NEW e \in Directions, pump[e].pc = "forwarding", NEW f \in pump[e].frame
        PROVE  f.uid \in 1 .. sent
    <3>1. f \in AllFrames
      <4>1. Carried(pump[e].sequence, f)
        BY <2>3 DEF CInv, ForwardingInv
      <4> QED
        BY <1>1, <4>1, CarriedFrames
    <3> QED
      BY <1>1, <3>1 DEF NameInv
  <2>4. \A e \in Directions : Received(e) \subseteq 1 .. sent /\ Received(e)' = Received(e)
    BY <1>1 DEF NameInv, Received
  <2> SUFFICES ASSUME NEW e \in Directions
               PROVE  /\ \A p, q \in 1 .. Len(source'[e]) : p < q => source'[e][p].uid < source'[e][q].uid
                      /\ \A q \in 1 .. Len(source'[e]) :
                            /\ \A p \in 1 .. Len(destination[e]) : destination[e][p].uid < source'[e][q].uid
                            /\ \A u \in Received(e) : u < source'[e][q].uid
                            /\ pump[e].pc = "forwarding" =>
                                  \A f \in pump[e].frame : f.uid < source'[e][q].uid
    <3>1. destination' = destination /\ pump' = pump
      BY DEF Still
    <3> QED
      BY <1>1, <2>4, <3>1, Zenon DEF StreamInv
  <2>5. /\ \A p, q \in 1 .. Len(source[e]) : p < q => source[e][p].uid < source[e][q].uid
        /\ \A q \in 1 .. Len(source[e]) :
              /\ \A p \in 1 .. Len(destination[e]) : destination[e][p].uid < source[e][q].uid
              /\ \A u \in Received(e) : u < source[e][q].uid
              /\ pump[e].pc = "forwarding" =>
                    \A f \in pump[e].frame : f.uid < source[e][q].uid
    BY <1>1 DEF StreamInv
  <2>6. CASE e # d
    BY <1>2, <2>5, <2>6
  <2>7. CASE e = d
    <3> DEFINE last == Len(source[d]) + 1
    <3>1. /\ source[d] \in Seq(Frames) /\ Len(source[d]) \in Nat
          /\ Len(source'[d]) = last
          /\ \A p \in 1 .. Len(source[d]) : source'[d][p] = source[d][p]
          /\ source'[d][last] = new
      BY <1>1, <1>2 DEF TypeOK
    <3>2. \A q \in 1 .. last : q \in 1 .. Len(source[d]) \/ q = last
      BY <3>1
    <3>3. \A p, q \in 1 .. last : p < q => p \in 1 .. Len(source[d])
      BY <3>1
    <3>4. \A u \in 1 .. sent : u < new.uid
      BY <1>1
    <3> HIDE DEF last
    <3>5. \A p, q \in 1 .. Len(source'[d]) : p < q => source'[d][p].uid < source'[d][q].uid
      BY <2>1, <2>5, <2>7, <3>1, <3>2, <3>3, <3>4
    <3>6. ASSUME NEW q \in 1 .. Len(source'[d])
          PROVE  /\ \A p \in 1 .. Len(destination[d]) : destination[d][p].uid < source'[d][q].uid
                 /\ \A u \in Received(d) : u < source'[d][q].uid
                 /\ pump[d].pc = "forwarding" =>
                       \A f \in pump[d].frame : f.uid < source'[d][q].uid
      <4>1. CASE q = last
        BY <2>2, <2>3, <2>4, <3>1, <3>4, <4>1
      <4>2. CASE q \in 1 .. Len(source[d])
        BY <2>5, <2>7, <3>1, <4>2
      <4> QED
        BY <3>1, <3>2, <3>6, <4>1, <4>2
    <3> QED
      BY <2>7, <3>5, <3>6
  <2> QED
    BY <2>6, <2>7
<1>6. Outstanding(correlator, handled, Len(handled))' /\ Paired(journal)'
  BY DEF FInv, Outstanding, Paired, Still
<1> QED
  BY <1>3, <1>4, <1>5, <1>6

LEMMA WritePairs ==
  ASSUME IInv, CInv, FInv, NEW d \in Directions, NEW new \in Frames, Write(d, new), Still,
         new.uid = sent + 1, new.known \subseteq 1 .. sent, child'.todo \subseteq child.todo,
         agent'.received = agent.received, child'.received = child.received,
         agent'.sent \cup child'.sent \subseteq agent.sent \cup child.sent \cup {new.uid},
         new.kind = "request" =>
            /\ new.call = new.uid
            /\ \A f \in AllFrames : f.kind = "request" /\ f.key = new.key =>
                  \E u \in new.known : Settles(u, f.uid, AllFrames),
         new.kind = "response" =>
            /\ new.call \in new.known
            /\ \A q \in AllFrames : q.uid = new.call => q.kind = "request" /\ q.key = new.key
            /\ \A g \in AllFrames : g.kind = "response" => g.call # new.call
  PROVE  /\ NameInv' /\ Pairs(AllFrames)'
         /\ AllFrames' \subseteq AllFrames \cup {new}
         /\ \A u \in 1 .. sent : \A c : Settles(u, c, AllFrames) => Settles(u, c, AllFrames')
<1>1. /\ TypeOK /\ NameInv /\ Pairs(AllFrames) /\ sent \in Nat
  BY DEF IInv, FInv, TypeOK
<1>2. AllFrames' \subseteq AllFrames \cup {new} /\ sent' = sent + 1
  BY <1>1, WrittenFrames
<1>3. \A f \in AllFrames : f.uid \in 1 .. sent /\ f.known \subseteq 1 .. sent
  BY <1>1 DEF NameInv
<1>4. /\ Pairs(AllFrames \cup {new})
      /\ \A u \in 1 .. sent : \A c : Settles(u, c, AllFrames) => Settles(u, c, AllFrames \cup {new})
  BY <1>1, <1>3, NewPairs
<1>5. /\ Pairs(AllFrames')
      /\ \A u, c : Settles(u, c, AllFrames \cup {new}) => Settles(u, c, AllFrames')
  BY <1>2, <1>4, FewerPairs
<1>6. NameInv'
  <2>1. \A u \in 1 .. sent : u \in 1 .. sent'
    BY <1>1, <1>2
  <2>2. new.uid \in 1 .. sent'
    BY <1>1, <1>2
  <2> QED
    BY <1>1, <1>2, <1>3, <2>1, <2>2 DEF NameInv
<1> QED
  BY <1>2, <1>4, <1>5, <1>6

\* The agent asks for the first time under this key, or has the answer.
LEMMA RequestCalls == ASSUME IInv, CInv, FInv, NEW key \in Keys, AgentRequests(key) PROVE FInv'
<1> DEFINE new == NewFrame("request", key, sent + 1, agent)
<1>1. /\ TypeOK /\ NameInv /\ PeerInv /\ sent \in Nat
      /\ agent.open \in [Keys -> Nat] /\ agent.open[key] = 0
      /\ agent.received \subseteq 1 .. sent /\ agent.sent \subseteq 1 .. sent
  BY DEF IInv, FInv, NameInv, TypeOK, AgentRequests
<1>2. /\ new.uid = sent + 1 /\ new.call = sent + 1 /\ new.kind = "request" /\ new.key = key
      /\ new.known = agent.sent \cup agent.received
  BY DEF NewFrame
<1>3. new \in Frames
  <2>1. agent.sent \subseteq Nat /\ agent.received \subseteq Nat /\ sent + 1 \in Nat
    BY <1>1 DEF TypeOK
  <2> QED
    BY <1>1, <2>1, NewFrameType DEF Kinds
<1>4. /\ Write("outbound", new) /\ Still /\ child' = child
      /\ agent' = [agent EXCEPT !.open = [@ EXCEPT ![key] = new.call], !.sent = @ \cup {new.uid}]
  BY DEF AgentRequests, Still, recorder
<1> HIDE DEF new
<1>5. /\ agent'.received = agent.received /\ agent'.sent = agent.sent \cup {new.uid}
      /\ agent'.open = [agent.open EXCEPT ![key] = new.call]
  BY <1>1, <1>4 DEF TypeOK
<1>6. ASSUME NEW f \in AllFrames, f.kind = "request", f.key = key
      PROVE  \E u \in agent.received : Settles(u, f.uid, AllFrames)
  <2>1. f.uid # 0
    BY <1>1 DEF NameInv
  <2> QED
    BY <1>1, <1>6, <2>1 DEF PeerInv
<1>7. /\ KindInv' /\ StreamInv' /\ OnceInv'
      /\ Outstanding(correlator, handled, Len(handled))' /\ Paired(journal)'
  BY <1>2, <1>3, <1>4, <1>5, WriteFrame DEF Goes, Directions
<1>8. /\ NameInv' /\ Pairs(AllFrames)'
      /\ AllFrames' \subseteq AllFrames \cup {new}
      /\ \A u \in 1 .. sent : \A c : Settles(u, c, AllFrames) => Settles(u, c, AllFrames')
  <2>1. new.known \subseteq 1 .. sent
    BY <1>1, <1>2
  <2>2. \A f \in AllFrames : f.kind = "request" /\ f.key = new.key =>
           \E u \in new.known : Settles(u, f.uid, AllFrames)
    BY <1>2, <1>6
  <2>3. agent'.sent \cup child'.sent \subseteq agent.sent \cup child.sent \cup {new.uid}
    BY <1>4, <1>5
  <2> QED
    BY <1>2, <1>3, <1>4, <1>5, <2>1, <2>2, <2>3, WritePairs DEF Directions
<1>9. PeerInv'
  <2>1. ASSUME NEW f \in AllFrames', f.kind = "request", f.uid # agent'.open[f.key]
        PROVE  \E u \in agent.received : Settles(u, f.uid, AllFrames')
    <3>1. f \in AllFrames
      <4>1. f # new
        BY <1>1, <1>2, <1>5, <2>1
      <4> QED
        BY <1>8, <4>1
    <3>2. f.key \in Keys
      <4>1. f \in Frames
        BY <3>1 DEF AllFrames
      <4> QED
        BY <4>1 DEF Frames
    <3>3. \E u \in agent.received : Settles(u, f.uid, AllFrames)
      <4>1. CASE f.key = key
        BY <1>6, <2>1, <3>1, <4>1
      <4>2. CASE f.key # key
        BY <1>1, <1>5, <2>1, <3>1, <3>2, <4>2 DEF PeerInv
      <4> QED
        BY <4>1, <4>2
    <3> QED
      BY <1>1, <1>8, <3>3
  <2>2. \A f \in AllFrames' : f.kind = "response" => f \in AllFrames
    BY <1>2, <1>8
  <2> QED
    BY <1>1, <1>4, <1>5, <2>1, <2>2 DEF PeerInv
<1> QED
  BY <1>7, <1>8, <1>9 DEF FInv

\* The server answers a request it has not answered yet.
LEMMA RespondCalls ==
  ASSUME IInv, CInv, FInv, NEW request \in child.todo, ChildResponds(request) PROVE FInv'
<1> DEFINE new == NewFrame("response", request.key, request.call, child)
<1>1. /\ TypeOK /\ NameInv /\ PeerInv /\ sent \in Nat /\ Pairs(AllFrames)
      /\ child.received \subseteq 1 .. sent /\ child.sent \subseteq 1 .. sent
      /\ child.todo \subseteq Frames
  BY DEF IInv, FInv, NameInv, TypeOK
<1>2. /\ request \in Frames /\ request \in AllFrames /\ request.kind = "request"
      /\ request.uid \in child.received /\ request.call = request.uid
      /\ \A f \in AllFrames : f.kind = "response" => f.call # request.uid
  <2>1. request \in Frames /\ request \in AllFrames
    BY <1>1 DEF AllFrames
  <2>2. /\ request.kind = "request" /\ request.uid \in child.received
        /\ \A f \in AllFrames : f.kind = "response" => f.call # request.uid
    BY <1>1 DEF PeerInv
  <2> QED
    BY <1>1, <2>1, <2>2 DEF Pairs
<1>3. /\ new.uid = sent + 1 /\ new.call = request.uid /\ new.kind = "response"
      /\ new.key = request.key /\ new.known = child.sent \cup child.received
  BY <1>2 DEF NewFrame
<1>4. new \in Frames
  <2>1. child.sent \subseteq Nat /\ child.received \subseteq Nat
        /\ request.key \in Keys /\ request.call \in Nat
    BY <1>1, <1>2 DEF TypeOK, Frames
  <2> QED
    BY <1>1, <2>1, NewFrameType DEF Kinds
<1>5. /\ Write("inbound", new) /\ Still /\ agent' = agent
      /\ child' = [child EXCEPT !.todo = @ \ {request}, !.sent = @ \cup {new.uid}]
  BY DEF ChildResponds, Still, recorder
<1> HIDE DEF new
<1>6. /\ child'.received = child.received /\ child'.sent = child.sent \cup {new.uid}
      /\ child'.todo = child.todo \ {request}
  BY <1>1, <1>5 DEF TypeOK
<1>7. /\ KindInv' /\ StreamInv' /\ OnceInv'
      /\ Outstanding(correlator, handled, Len(handled))' /\ Paired(journal)'
  BY <1>3, <1>4, <1>5, <1>6, WriteFrame DEF Goes, Directions
<1>8. /\ NameInv' /\ Pairs(AllFrames)'
      /\ AllFrames' \subseteq AllFrames \cup {new}
      /\ \A u \in 1 .. sent : \A c : Settles(u, c, AllFrames) => Settles(u, c, AllFrames')
  <2>1. new.known \subseteq 1 .. sent /\ new.call \in new.known
    BY <1>1, <1>2, <1>3
  <2>2. \A q \in AllFrames : q.uid = new.call => q.kind = "request" /\ q.key = new.key
    BY <1>1, <1>2, <1>3 DEF Pairs
  <2>3. \A g \in AllFrames : g.kind = "response" => g.call # new.call
    BY <1>2, <1>3
  <2>4. agent'.sent \cup child'.sent \subseteq agent.sent \cup child.sent \cup {new.uid}
    BY <1>5, <1>6
  <2> QED
    BY <1>3, <1>4, <1>5, <1>6, <2>1, <2>2, <2>3, <2>4, WritePairs DEF Directions
<1>9. PeerInv'
  <2>1. ASSUME NEW f \in AllFrames', f.kind = "request", f.uid # agent.open[f.key]
        PROVE  \E u \in agent.received : Settles(u, f.uid, AllFrames')
    <3>1. f \in AllFrames
      BY <1>3, <1>8, <2>1
    <3>2. \E u \in agent.received : Settles(u, f.uid, AllFrames)
      BY <1>1, <2>1, <3>1 DEF PeerInv
    <3>3. agent.received \subseteq 1 .. sent
      BY <1>1 DEF NameInv
    <3> QED
      BY <1>8, <3>2, <3>3
  <2>2. ASSUME NEW f \in AllFrames', f.kind = "response" PROVE f.call \in child.received
    BY <1>1, <1>2, <1>3, <1>8, <2>2 DEF PeerInv
  <2>3. ASSUME NEW t \in child'.todo
        PROVE  /\ t.kind = "request" /\ t.uid \in child.received
               /\ \A f \in AllFrames' : f.kind = "response" => f.call # t.uid
    <3>1. t \in child.todo /\ t # request /\ t \in AllFrames
      BY <1>1, <1>6, <2>3 DEF AllFrames
    <3>2. t.uid # request.uid
      BY <1>1, <1>2, <3>1 DEF Pairs
    <3>3. /\ t.kind = "request" /\ t.uid \in child.received
          /\ \A f \in AllFrames : f.kind = "response" => f.call # t.uid
      BY <1>1, <3>1 DEF PeerInv
    <3> QED
      BY <1>3, <1>8, <3>2, <3>3
  <2> QED
    BY <1>5, <1>6, <2>1, <2>2, <2>3 DEF PeerInv
<1> QED
  BY <1>7, <1>8, <1>9 DEF FInv

\* A frame that is no call.
LEMMA MessageCalls == ASSUME IInv, CInv, FInv, AgentMutters \/ ChildNotifies PROVE FInv'
<1>0. /\ TypeOK /\ NameInv /\ PeerInv /\ sent \in Nat /\ NoKey \in Keys
      /\ agent.received \subseteq 1 .. sent /\ agent.sent \subseteq 1 .. sent
      /\ child.received \subseteq 1 .. sent /\ child.sent \subseteq 1 .. sent
      /\ agent.sent \subseteq Nat /\ agent.received \subseteq Nat
      /\ child.sent \subseteq Nat /\ child.received \subseteq Nat
  BY ShimAssumption DEF IInv, FInv, NameInv, TypeOK, NoKey
<1>1. ASSUME NEW d \in Directions, NEW new \in Frames, Write(d, new), Still,
             new.uid = sent + 1, new.known \subseteq 1 .. sent, Goes(new, d),
             new.kind # "request", new.kind # "response",
             agent'.open = agent.open, agent'.received = agent.received,
             child'.todo = child.todo, child'.received = child.received,
             agent'.sent \cup child'.sent \subseteq agent.sent \cup child.sent \cup {new.uid}
      PROVE  FInv'
  <2>1. /\ KindInv' /\ StreamInv' /\ OnceInv'
        /\ Outstanding(correlator, handled, Len(handled))' /\ Paired(journal)'
    BY <1>1, WriteFrame
  <2>2. /\ NameInv' /\ Pairs(AllFrames)'
        /\ AllFrames' \subseteq AllFrames \cup {new}
        /\ \A u \in 1 .. sent : \A c : Settles(u, c, AllFrames) => Settles(u, c, AllFrames')
    BY <1>1, WritePairs
  <2>3. PeerInv'
    <3>1. ASSUME NEW f \in AllFrames', f.kind = "request", f.uid # agent.open[f.key]
          PROVE  \E u \in agent.received : Settles(u, f.uid, AllFrames')
      <4>1. \E u \in agent.received : Settles(u, f.uid, AllFrames)
        BY <1>0, <1>1, <2>2, <3>1 DEF PeerInv
      <4> QED
        BY <1>0, <2>2, <4>1
    <3>2. \A f \in AllFrames' : f.kind = "response" => f \in AllFrames
      BY <1>1, <2>2
    <3> QED
      BY <1>0, <1>1, <3>1, <3>2 DEF PeerInv
  <2> QED
    BY <2>1, <2>2, <2>3 DEF FInv
<1>2. CASE AgentMutters
  <2> DEFINE new == NewFrame("unparsed", NoKey, 0, agent)
  <2>1. new \in Frames
    BY <1>0, NewFrameType DEF Kinds
  <2>2. /\ new.uid = sent + 1 /\ new.kind = "unparsed" /\ new.known \subseteq 1 .. sent
    BY <1>0 DEF NewFrame
  <2>3. /\ Write("outbound", new) /\ Still /\ child' = child
        /\ agent' = [agent EXCEPT !.sent = @ \cup {new.uid}]
    BY <1>2 DEF AgentMutters, Still, recorder
  <2> HIDE DEF new
  <2>4. /\ agent'.received = agent.received /\ agent'.sent = agent.sent \cup {new.uid}
        /\ agent'.open = agent.open
    BY <1>0, <2>3 DEF TypeOK
  <2>5. "outbound" \in Directions /\ Goes(new, "outbound")
    BY <2>2 DEF Directions, Goes
  <2>6. agent'.sent \cup child'.sent \subseteq agent.sent \cup child.sent \cup {new.uid}
    BY <2>3, <2>4
  <2> QED
    BY <1>1, <2>1, <2>2, <2>3, <2>4, <2>5, <2>6
<1>3. CASE ChildNotifies
  <2> DEFINE new == NewFrame("notification", NoKey, 0, child)
  <2>1. new \in Frames
    BY <1>0, NewFrameType DEF Kinds
  <2>2. /\ new.uid = sent + 1 /\ new.kind = "notification" /\ new.known \subseteq 1 .. sent
    BY <1>0 DEF NewFrame
  <2>3. /\ Write("inbound", new) /\ Still /\ agent' = agent
        /\ child' = [child EXCEPT !.sent = @ \cup {new.uid}]
    BY <1>3 DEF ChildNotifies, Still, recorder
  <2> HIDE DEF new
  <2>4. /\ child'.received = child.received /\ child'.sent = child.sent \cup {new.uid}
        /\ child'.todo = child.todo
    BY <1>0, <2>3 DEF TypeOK
  <2>5. "inbound" \in Directions /\ Goes(new, "inbound")
    BY <2>2 DEF Directions, Goes
  <2>6. agent'.sent \cup child'.sent \subseteq agent.sent \cup child.sent \cup {new.uid}
    BY <2>3, <2>4
  <2> QED
    BY <1>1, <2>1, <2>2, <2>3, <2>4, <2>5, <2>6
<1> QED
  BY <1>2, <1>3

\* What knows of a delivered frame was delivered before it: all it knows is somewhere.
LEMMA KnownFrames ==
  ASSUME IInv, CInv, Pairs(AllFrames), NEW f \in AllFrames, Ahead(f.uid, nextSequence),
         NEW u \in f.known
  PROVE  \E q \in AllFrames : q.uid = u
<1>1. TypeOK /\ handled \in Seq(Frames)
  BY DEF IInv, CInv, OrderInv
<1>2. ASSUME NEW k \in 1 .. Len(handled), handled[k].uid = f.uid PROVE \E q \in AllFrames : q.uid = u
  <2>1. handled[k] \in AllFrames
    <3>1. handled[k] \in Frames
      BY <1>1
    <3> QED
      BY <3>1 DEF AllFrames
  <2>2. handled[k] = f
    BY <1>2, <2>1 DEF Pairs
  <2>3. u \in {handled[i].uid : i \in 1 .. k - 1}
    BY <2>2 DEF CInv, CausalOrder
  <2>4. Ahead(u, 0)
    BY <1>1, <2>3 DEF Ahead, HandledUids
  <2> QED
    BY <1>1, <2>4, AheadFrame
<1>3. ASSUME NEW m \in Nat, NEW g \in Frames, g.uid = f.uid, Carried(m, g)
      PROVE  \E q \in AllFrames : q.uid = u
  <2>1. g \in AllFrames
    BY <1>1, <1>3, CarriedFrames
  <2>2. g = f
    BY <1>3, <2>1 DEF Pairs
  <2>3. Ahead(u, m)
    BY <1>3, <2>2 DEF CInv, CarriedInv
  <2> QED
    BY <1>1, <2>3, AheadFrame
<1> QED
  BY <1>2, <1>3 DEF Ahead, HandledUids

\* A peer reads: the frames are those before, less the one that was read, unless
\* the server keeps it to answer.
LEMMA ReadFrame ==
  ASSUME IInv, CInv, FInv, NEW d \in Directions, destination[d] # <<>>,
         destination' = [destination EXCEPT ![d] = Tail(@)],
         UNCHANGED <<source, sent, pump, channel, order, handled, correlator, journal>>,
         Received(d)' = Received(d) \cup {Head(destination[d]).uid},
         \A e \in Directions \ {d} : Received(e)' = Received(e),
         agent'.sent = agent.sent, child'.sent = child.sent,
         child'.todo \subseteq child.todo \cup {Head(destination[d])}
  PROVE  /\ KindInv' /\ NameInv' /\ StreamInv' /\ OnceInv' /\ Pairs(AllFrames)'
         /\ Outstanding(correlator, handled, Len(handled))' /\ Paired(journal)'
         /\ AllFrames' \subseteq AllFrames /\ Head(destination[d]) \in AllFrames
         /\ Goes(Head(destination[d]), d)
         /\ \A u \in Received(d) : u < Head(destination[d]).uid
<1> DEFINE head == Head(destination[d])
<1>1. /\ TypeOK /\ KindInv /\ NameInv /\ StreamInv /\ OnceInv /\ Pairs(AllFrames)
      /\ source' = source /\ pump' = pump /\ channel' = channel /\ order' = order
      /\ handled' = handled /\ sent' = sent /\ sent \in Nat
  BY DEF IInv, FInv, TypeOK
<1>2. /\ destination[d] \in Seq(Frames) /\ 1 \in 1 .. Len(destination[d])
      /\ head = destination[d][1] /\ head \in Frames
      /\ destination'[d] = Tail(destination[d])
      /\ \A e \in Directions \ {d} : destination'[e] = destination[e]
  BY <1>1 DEF TypeOK
<1>3. \A p \in 1 .. Len(destination'[d]) :
         p + 1 \in 1 .. Len(destination[d]) /\ destination'[d][p] = destination[d][p + 1]
         /\ p \in Nat
  <2>1. PICK s : s = destination[d]
    OBVIOUS
  <2>2. s \in Seq(Frames) /\ 1 \in 1 .. Len(s) /\ Len(s) \in Nat
    BY <1>2, <2>1
  <2>3. Len(Tail(s)) = Len(s) - 1 /\ \A p \in 1 .. Len(s) - 1 : Tail(s)[p] = s[p + 1]
    BY <2>2
  <2>4. \A p \in 1 .. Len(s) - 1 : p + 1 \in 1 .. Len(s) /\ p \in Nat
    BY <2>2
  <2> QED
    BY <1>2, <2>1, <2>3, <2>4
<1>4. head \in AllFrames /\ Goes(head, d) /\ \A u \in Received(d) : u < head.uid
  <2>1. Output(d, head)
    BY <1>2 DEF Output
  <2>2. head \in AllFrames
    BY <1>2, <2>1 DEF AllFrames
  <2>3. Goes(head, d)
    BY <1>1, <1>2, <2>1 DEF KindInv
  <2>4. \A u \in Received(d) : u < head.uid
    BY <1>1, <1>2 DEF StreamInv
  <2> QED
    BY <2>2, <2>3, <2>4
<1> HIDE DEF head
<1>5. /\ \A e \in Directions : \A f : Output(e, f)' => Output(e, f)
      /\ \A e, f : Input(e, f)' <=> Input(e, f)
      /\ \A n, f : Carried(n, f)' <=> Carried(n, f)
      /\ HandledUids' = HandledUids
  <2>1. ASSUME NEW e \in Directions, NEW f, Output(e, f)' PROVE Output(e, f)
    BY <1>2, <1>3, <2>1 DEF Output
  <2>2. \A e, f : Input(e, f)' <=> Input(e, f)
    BY <1>1 DEF Input
  <2>3. \A n, f : Carried(n, f)' <=> Carried(n, f)
    BY <1>1 DEF Carried, Position, Event
  <2> QED
    BY <1>1, <2>1, <2>2, <2>3 DEF HandledUids
<1>6. AllFrames' \subseteq AllFrames
  <2> SUFFICES ASSUME NEW f \in AllFrames' PROVE f \in AllFrames
    OBVIOUS
  <2>1. f \in Frames
    BY DEF AllFrames
  <2>2. CASE f \in child'.todo
    BY <1>4, <2>1, <2>2 DEF AllFrames, head
  <2>3. CASE f \notin child'.todo
    BY <1>1, <1>5, <2>1, <2>3 DEF AllFrames
  <2> QED
    BY <2>2, <2>3
<1>7. Pairs(AllFrames)'
  BY <1>1, <1>6, FewerPairs
<1>8. KindInv'
  BY <1>1, <1>5 DEF KindInv, Position
<1>9. NameInv'
  <2>1. \A e \in Directions : Received(e)' \subseteq 1 .. sent
    <3>1. head.uid \in 1 .. sent
      BY <1>1, <1>4 DEF NameInv
    <3>2. \A e \in Directions : Received(e) \subseteq 1 .. sent
      BY <1>1 DEF NameInv, Received
    <3> QED
      BY <3>1, <3>2 DEF head
  <2>2. agent'.received \cup child'.received \subseteq 1 .. sent
    BY <2>1 DEF Received, Directions
  <2> QED
    BY <1>1, <1>6, <2>2 DEF NameInv
<1>10. OnceInv'
  BY <1>1, <1>5 DEF OnceInv
<1>11. StreamInv'
  <2> SUFFICES ASSUME NEW e \in Directions
               PROVE  /\ \A p, q \in 1 .. Len(destination'[e]) :
                            p < q => destination'[e][p].uid < destination'[e][q].uid
                      /\ \A p \in 1 .. Len(destination'[e]) :
                            \A u \in Received(e)' : u < destination'[e][p].uid
                      /\ \A q \in 1 .. Len(source[e]) :
                            /\ \A p \in 1 .. Len(destination'[e]) : destination'[e][p].uid < source[e][q].uid
                            /\ \A u \in Received(e)' : u < source[e][q].uid
                      /\ pump[e].pc = "forwarding" => \A f \in pump[e].frame :
                            /\ \A p \in 1 .. Len(destination'[e]) : destination'[e][p].uid < f.uid
                            /\ \A u \in Received(e)' : u < f.uid
    BY <1>1, Zenon DEF StreamInv
  <2>1. CASE e # d
    BY <1>1, <1>2, <2>1 DEF StreamInv
  <2>2. CASE e = d
    <3>1. /\ \A p, q \in 1 .. Len(destination[d]) :
                p < q => destination[d][p].uid < destination[d][q].uid
          /\ \A p \in 1 .. Len(destination[d]) : \A u \in Received(d) : u < destination[d][p].uid
          /\ \A q \in 1 .. Len(source[d]) :
                /\ \A p \in 1 .. Len(destination[d]) : destination[d][p].uid < source[d][q].uid
                /\ \A u \in Received(d) : u < source[d][q].uid
          /\ pump[d].pc = "forwarding" => \A f \in pump[d].frame :
                /\ \A p \in 1 .. Len(destination[d]) : destination[d][p].uid < f.uid
                /\ \A u \in Received(d) : u < f.uid
      BY <1>1 DEF StreamInv
    <3>2. ASSUME NEW p \in 1 .. Len(destination'[d]), NEW q \in 1 .. Len(destination'[d]), p < q
          PROVE  destination'[d][p].uid < destination'[d][q].uid
      <4>1. p + 1 < q + 1
        BY <1>3, <3>2
      <4> QED
        BY <1>3, <3>1, <4>1
    <3>3. \A p \in 1 .. Len(destination'[d]) : head.uid < destination'[d][p].uid
      <4>1. \A p \in 1 .. Len(destination'[d]) : 1 < p + 1
        BY <1>3
      <4> QED
        BY <1>2, <1>3, <3>1, <4>1
    <3>4. \A u \in Received(d)' : u \in Received(d) \/ u = head.uid
      BY DEF head
    <3>5. \A p \in 1 .. Len(destination'[d]) : \A u \in Received(d)' : u < destination'[d][p].uid
      BY <1>3, <3>1, <3>3, <3>4
    <3>6. ASSUME NEW q \in 1 .. Len(source[d])
          PROVE  /\ \A p \in 1 .. Len(destination'[d]) : destination'[d][p].uid < source[d][q].uid
                 /\ \A u \in Received(d)' : u < source[d][q].uid
      <4>1. head.uid < source[d][q].uid
        BY <1>2, <3>1
      <4>2. \A p \in 1 .. Len(destination'[d]) : destination'[d][p].uid < source[d][q].uid
        BY <1>3, <3>1
      <4> QED
        BY <3>1, <3>4, <4>1, <4>2
    <3>7. ASSUME pump[d].pc = "forwarding", NEW f \in pump[d].frame
          PROVE  /\ \A p \in 1 .. Len(destination'[d]) : destination'[d][p].uid < f.uid
                 /\ \A u \in Received(d)' : u < f.uid
      <4>1. head.uid < f.uid
        BY <1>2, <3>1, <3>7
      <4>2. \A p \in 1 .. Len(destination'[d]) : destination'[d][p].uid < f.uid
        BY <1>3, <3>1, <3>7
      <4> QED
        BY <3>1, <3>4, <3>7, <4>1, <4>2
    <3> QED
      BY <2>2, <3>2, <3>5, <3>6, <3>7, Zenon
  <2> QED
    BY <2>1, <2>2
<1>12. Outstanding(correlator, handled, Len(handled))' /\ Paired(journal)'
  BY DEF FInv, Outstanding, Paired
<1> QED
  BY <1>4, <1>6, <1>7, <1>8, <1>9, <1>10, <1>11, <1>12 DEF head

\* The response the agent reads is the one to the request it has open.
LEMMA AgentReads == ASSUME IInv, CInv, FInv, AgentReceives PROVE FInv'
<1> DEFINE head == Head(destination["inbound"])
<1>1. /\ TypeOK /\ NameInv /\ PeerInv /\ Pairs(AllFrames) /\ handled \in Seq(Frames)
      /\ "inbound" \in Directions
  BY DEF IInv, FInv, CInv, OrderInv, Directions
<1>2. /\ destination["inbound"] # <<>>
      /\ destination' = [destination EXCEPT !["inbound"] = Tail(@)]
      /\ UNCHANGED <<source, sent, pump, channel, order, handled, correlator, journal>>
      /\ child' = child
  BY DEF AgentReceives, recorder
<1>3. /\ agent'.received = agent.received \cup {head.uid}
      /\ agent'.sent = agent.sent
      /\ \A k \in Keys : agent'.open[k] =
            IF head.kind = "response" /\ k = head.key THEN 0 ELSE agent.open[k]
  <2>1. agent' = [agent EXCEPT
                    !.received = @ \cup {head.uid},
                    !.open = [k \in Keys |-> IF head.kind = "response" /\ k = head.key
                                             THEN 0 ELSE @[k]]]
    BY DEF AgentReceives
  <2> QED
    BY <1>1, <2>1 DEF TypeOK
<1>4. /\ KindInv' /\ NameInv' /\ StreamInv' /\ OnceInv' /\ Pairs(AllFrames)'
      /\ Outstanding(correlator, handled, Len(handled))' /\ Paired(journal)'
      /\ AllFrames' \subseteq AllFrames /\ head \in AllFrames
      /\ \A u \in agent.received : u < head.uid
  <2>1. /\ Received("inbound")' = Received("inbound") \cup {head.uid}
        /\ \A e \in Directions \ {"inbound"} : Received(e)' = Received(e)
        /\ Received("inbound") = agent.received
    BY <1>2, <1>3 DEF Received, Directions
  <2>2. child'.todo \subseteq child.todo \cup {head} /\ child'.sent = child.sent
    BY <1>2
  <2> HIDE DEF head
  <2> QED
    BY <1>1, <1>2, <1>3, <2>1, <2>2, ReadFrame DEF head
<1>5. Ahead(head.uid, nextSequence)
  <2>1. 1 \in 1 .. Len(destination["inbound"]) /\ head = destination["inbound"][1]
    BY <1>1, <1>2 DEF TypeOK
  <2> QED
    BY <1>1, <2>1 DEF CInv, DeliveredInv
<1>6. \A u, c : Settles(u, c, AllFrames) => Settles(u, c, AllFrames')
  BY <1>4 DEF Settles
<1> HIDE DEF head
<1>7. \A f \in AllFrames : f.key \in Keys /\ f.uid \in Nat
  BY DEF AllFrames, Frames
<1>8. ASSUME head.kind = "response", agent.open[head.key] # 0, NEW f \in AllFrames,
             f.uid = agent.open[head.key]
      PROVE  head.call = f.uid
  <2>1. head.call \in head.known
    BY <1>1, <1>4, <1>8 DEF Pairs
  <2>2. PICK q \in AllFrames : q.uid = head.call
    BY <1>1, <1>4, <1>5, <2>1, KnownFrames
  <2>3. q.kind = "request" /\ q.key = head.key
    BY <1>1, <1>4, <1>8, <2>2, Zenon DEF Pairs
  <2> SUFFICES ASSUME q.uid # agent.open[q.key] PROVE FALSE
    BY <1>8, <2>2, <2>3
  <2>4. PICK u \in agent.received : Settles(u, q.uid, AllFrames)
    BY <1>1, <2>3 DEF PeerInv
  <2>5. PICK r \in AllFrames : r.uid = u
    BY <1>1, <2>4, AheadFrame DEF CInv, DeliveredInv
  <2>6. r.kind = "response" /\ r.call = head.call
    BY <2>2, <2>4, <2>5 DEF Settles
  <2>7. r = head
    BY <1>1, <1>4, <1>8, <2>6, Zenon DEF Pairs
  <2>8. head.uid < head.uid /\ head.uid \in Nat
    BY <1>4, <1>7, <2>4, <2>5, <2>7
  <2> QED
    BY <2>8
<1>9. PeerInv'
  <2>1. ASSUME NEW f \in AllFrames', f.kind = "request", f.uid # agent'.open[f.key]
        PROVE  \E u \in agent'.received : Settles(u, f.uid, AllFrames')
    <3>1. f \in AllFrames /\ f.key \in Keys
      BY <1>4, <1>7
    <3>2. CASE f.uid # agent.open[f.key]
      <4>1. PICK u \in agent.received : Settles(u, f.uid, AllFrames)
        BY <1>1, <2>1, <3>1, <3>2 DEF PeerInv
      <4> QED
        BY <1>3, <1>6, <4>1
    <3>3. CASE f.uid = agent.open[f.key]
      <4>1. head.kind = "response" /\ f.key = head.key
        BY <1>3, <2>1, <3>1, <3>3
      <4>2. agent.open[head.key] # 0
        <5>1. f.uid \in 1 .. sent
          BY <1>1, <3>1 DEF NameInv
        <5>2. f.uid # 0
          BY <5>1
        <5> QED
          BY <3>3, <4>1, <5>2
      <4>3. head.call = f.uid
        BY <1>8, <3>1, <3>3, <4>1, <4>2
      <4>4. Settles(head.uid, f.uid, AllFrames)
        <5> SUFFICES ASSUME NEW r \in AllFrames, r.uid = head.uid
                     PROVE  r.kind = "response" /\ r.call = f.uid
          BY DEF Settles
        <5>1. r = head
          BY <1>1, <1>4 DEF Pairs
        <5> QED
          BY <4>1, <4>3, <5>1
      <4> QED
        BY <1>3, <1>6, <4>4
    <3> QED
      BY <3>2, <3>3
  <2>2. \A f \in AllFrames' : f.kind = "response" => f.call \in child.received
    BY <1>1, <1>4 DEF PeerInv
  <2>3. \A t \in child.todo : /\ t.kind = "request" /\ t.uid \in child.received
                              /\ \A f \in AllFrames' : f.kind = "response" => f.call # t.uid
    BY <1>1, <1>4 DEF PeerInv
  <2> QED
    BY <1>2, <2>1, <2>2, <2>3 DEF PeerInv
<1> QED
  BY <1>4, <1>9 DEF FInv

\* The request the server reads is new to it, so that nothing answers it yet.
LEMMA ChildReads == ASSUME IInv, CInv, FInv, ChildReceives PROVE FInv'
<1> DEFINE head == Head(destination["outbound"])
<1>1. /\ TypeOK /\ NameInv /\ PeerInv /\ Pairs(AllFrames) /\ "outbound" \in Directions
  BY DEF IInv, FInv, CInv, OrderInv, Directions
<1>2. /\ destination["outbound"] # <<>>
      /\ destination' = [destination EXCEPT !["outbound"] = Tail(@)]
      /\ UNCHANGED <<source, sent, pump, channel, order, handled, correlator, journal>>
      /\ agent' = agent
  BY DEF ChildReceives, recorder
<1>3. /\ child'.received = child.received \cup {head.uid}
      /\ child'.sent = child.sent
      /\ \A t \in child'.todo : t \in child.todo \/ (t = head /\ head.kind = "request")
  <2>1. child' = [child EXCEPT
                    !.received = @ \cup {head.uid},
                    !.todo = IF head.kind = "request" THEN @ \cup {head} ELSE @]
    BY DEF ChildReceives
  <2> QED
    BY <1>1, <2>1 DEF TypeOK
<1>4. /\ KindInv' /\ NameInv' /\ StreamInv' /\ OnceInv' /\ Pairs(AllFrames)'
      /\ Outstanding(correlator, handled, Len(handled))' /\ Paired(journal)'
      /\ AllFrames' \subseteq AllFrames /\ head \in AllFrames
      /\ \A u \in child.received : u < head.uid
  <2>1. /\ Received("outbound")' = Received("outbound") \cup {head.uid}
        /\ \A e \in Directions \ {"outbound"} : Received(e)' = Received(e)
        /\ Received("outbound") = child.received
    BY <1>2, <1>3 DEF Received, Directions
  <2>2. child'.todo \subseteq child.todo \cup {head} /\ agent'.sent = agent.sent
    BY <1>2, <1>3
  <2> HIDE DEF head
  <2> QED
    BY <1>1, <1>2, <1>3, <2>1, <2>2, ReadFrame DEF head
<1>5. \A u, c : Settles(u, c, AllFrames) => Settles(u, c, AllFrames')
  BY <1>4 DEF Settles
<1> HIDE DEF head
<1>6. head.uid \in Nat
  BY <1>4 DEF AllFrames, Frames
<1>7. PeerInv'
  <2>1. ASSUME NEW f \in AllFrames', f.kind = "request", f.uid # agent.open[f.key]
        PROVE  \E u \in agent.received : Settles(u, f.uid, AllFrames')
    BY <1>1, <1>4, <1>5, <2>1 DEF PeerInv
  <2>2. \A f \in AllFrames' : f.kind = "response" => f.call \in child.received
    BY <1>1, <1>4 DEF PeerInv
  <2>3. ASSUME NEW t \in child'.todo
        PROVE  /\ t.kind = "request" /\ t.uid \in child'.received
               /\ \A f \in AllFrames' : f.kind = "response" => f.call # t.uid
    <3>1. CASE t \in child.todo
      BY <1>1, <1>3, <1>4, <3>1 DEF PeerInv
    <3>2. CASE t = head /\ head.kind = "request"
      BY <1>3, <1>4, <1>6, <2>2, <3>2
    <3> QED
      BY <1>3, <3>1, <3>2
  <2> QED
    BY <1>2, <1>3, <2>1, <2>2, <2>3 DEF PeerInv
<1> QED
  BY <1>4, <1>7 DEF FInv

-----------------------------------------------------------------------------
(* The pumps, the ends of the peers, and Main between two events.           *)

\* Nothing is written or read: frames are lost, or a pump gives one up.
LEMMA LessFrames ==
  ASSUME TypeOK, FInv,
         UNCHANGED <<source, sent, order, handled, correlator, journal>>,
         \A d \in Directions : destination'[d] = destination[d] \/ destination'[d] = <<>>,
         \A d \in Directions : pump'[d].pc = "forwarding" =>
            pump[d].pc = "forwarding" /\ pump'[d].frame = pump[d].frame,
         \A k \in Position' : \A f \in channel'[k].frame : Goes(f, channel'[k].direction),
         \A n, f : Carried(n, f)' => Carried(n, f),
         agent'.open = agent.open, agent'.received = agent.received, agent'.sent = agent.sent,
         child'.todo = child.todo, child'.received = child.received, child'.sent = child.sent
  PROVE  FInv'
<1>1. /\ KindInv /\ NameInv /\ StreamInv /\ OnceInv /\ Pairs(AllFrames) /\ PeerInv
      /\ source' = source /\ order' = order /\ handled' = handled
  BY DEF FInv
<1>2. \A d \in Directions : \A p \in 1 .. Len(destination'[d]) :
         p \in 1 .. Len(destination[d]) /\ destination'[d][p] = destination[d][p]
  <2> SUFFICES ASSUME NEW d \in Directions, NEW p \in 1 .. Len(destination'[d])
               PROVE  p \in 1 .. Len(destination[d]) /\ destination'[d][p] = destination[d][p]
    OBVIOUS
  <2>1. CASE destination'[d] = destination[d]
    BY <2>1
  <2>2. CASE destination'[d] = <<>>
    BY <2>2
  <2> QED
    BY <2>1, <2>2
<1>3. /\ \A d \in Directions : \A f : Output(d, f)' => Output(d, f)
      /\ \A d, f : Input(d, f)' <=> Input(d, f)
      /\ HandledUids' = HandledUids
  <2>1. \A d \in Directions : \A f : Output(d, f)' => Output(d, f)
    BY <1>2 DEF Output
  <2> QED
    BY <1>1, <2>1 DEF Input, HandledUids
<1>4. AllFrames' \subseteq AllFrames
  <2> SUFFICES ASSUME NEW f \in AllFrames' PROVE f \in AllFrames
    OBVIOUS
  <2>1. f \in Frames
    BY DEF AllFrames
  <2> QED
    BY <1>1, <1>3, <2>1 DEF AllFrames
<1>5. NameInv' /\ Pairs(AllFrames)' /\ PeerInv'
  BY <1>1, <1>4, FramesStay
<1>6. KindInv'
  BY <1>1, <1>3 DEF KindInv
<1>7. OnceInv'
  BY <1>1, <1>3 DEF OnceInv
<1>8. StreamInv'
  <2>1. \A d \in Directions : Received(d)' = Received(d)
    BY DEF Received
  <2> SUFFICES ASSUME NEW d \in Directions
               PROVE  /\ \A p, q \in 1 .. Len(source[d]) : p < q => source[d][p].uid < source[d][q].uid
                      /\ \A p, q \in 1 .. Len(destination'[d]) :
                            p < q => destination'[d][p].uid < destination'[d][q].uid
                      /\ \A p \in 1 .. Len(destination'[d]) : \A u \in Received(d) :
                            u < destination'[d][p].uid
                      /\ \A q \in 1 .. Len(source[d]) :
                            /\ \A p \in 1 .. Len(destination'[d]) :
                                  destination'[d][p].uid < source[d][q].uid
                            /\ \A u \in Received(d) : u < source[d][q].uid
                            /\ pump'[d].pc = "forwarding" =>
                                  \A f \in pump'[d].frame : f.uid < source[d][q].uid
                      /\ pump'[d].pc = "forwarding" => \A f \in pump'[d].frame :
                            /\ \A p \in 1 .. Len(destination'[d]) : destination'[d][p].uid < f.uid
                            /\ \A u \in Received(d) : u < f.uid
    BY <1>1, <2>1, Zenon DEF StreamInv
  <2>2. /\ \A p, q \in 1 .. Len(source[d]) : p < q => source[d][p].uid < source[d][q].uid
        /\ \A p, q \in 1 .. Len(destination[d]) :
              p < q => destination[d][p].uid < destination[d][q].uid
        /\ \A p \in 1 .. Len(destination[d]) : \A u \in Received(d) : u < destination[d][p].uid
        /\ \A q \in 1 .. Len(source[d]) :
              /\ \A p \in 1 .. Len(destination[d]) : destination[d][p].uid < source[d][q].uid
              /\ \A u \in Received(d) : u < source[d][q].uid
              /\ pump[d].pc = "forwarding" => \A f \in pump[d].frame : f.uid < source[d][q].uid
        /\ pump[d].pc = "forwarding" => \A f \in pump[d].frame :
              /\ \A p \in 1 .. Len(destination[d]) : destination[d][p].uid < f.uid
              /\ \A u \in Received(d) : u < f.uid
    BY <1>1 DEF StreamInv
  <2>3. pump'[d].pc = "forwarding" => pump[d].pc = "forwarding" /\ pump'[d].frame = pump[d].frame
    OBVIOUS
  <2>4. \A p \in 1 .. Len(destination'[d]) :
           p \in 1 .. Len(destination[d]) /\ destination'[d][p] = destination[d][p]
    BY <1>2
  <2>5. /\ \A p, q \in 1 .. Len(destination'[d]) :
              p < q => destination'[d][p].uid < destination'[d][q].uid
        /\ \A p \in 1 .. Len(destination'[d]) : \A u \in Received(d) : u < destination'[d][p].uid
    BY <2>2, <2>4
  <2>6. ASSUME NEW q \in 1 .. Len(source[d])
        PROVE  /\ \A p \in 1 .. Len(destination'[d]) : destination'[d][p].uid < source[d][q].uid
               /\ \A u \in Received(d) : u < source[d][q].uid
               /\ pump'[d].pc = "forwarding" =>
                     \A f \in pump'[d].frame : f.uid < source[d][q].uid
    BY <2>2, <2>3, <2>4
  <2>7. ASSUME pump'[d].pc = "forwarding", NEW f \in pump'[d].frame
        PROVE  /\ \A p \in 1 .. Len(destination'[d]) : destination'[d][p].uid < f.uid
               /\ \A u \in Received(d) : u < f.uid
    BY <2>2, <2>3, <2>4, <2>7
  <2> QED
    BY <2>2, <2>5, <2>6, <2>7, Zenon
<1>9. Outstanding(correlator, handled, Len(handled))' /\ Paired(journal)'
  BY DEF FInv, Outstanding, Paired
<1> QED
  BY <1>1, <1>5, <1>6, <1>7, <1>8, <1>9 DEF FInv

\* What is on the way to a peer that ends, or to a child that is killed, is lost.
LEMMA EndCalls ==
  ASSUME IInv, FInv, AgentLeaves \/ ChildExits \/ (Main /\ ~(channel # <<>> /\ Handling))
  PROVE  FInv'
<1>1. TypeOK /\ destination \in [Directions -> Seq(Frames)]
  BY DEF IInv, TypeOK
<1>2. /\ UNCHANGED <<source, sent, channel, order, handled, correlator, journal>>
      /\ \A d \in Directions : destination'[d] = destination[d] \/ destination'[d] = <<>>
      /\ \A d \in Directions : pump'[d].pc = pump[d].pc /\ pump'[d].frame = pump[d].frame
      /\ agent'.open = agent.open /\ agent'.received = agent.received /\ agent'.sent = agent.sent
      /\ child'.todo = child.todo /\ child'.received = child.received /\ child'.sent = child.sent
  <2>1. CASE AgentLeaves
    BY <1>1, <2>1 DEF AgentLeaves, TypeOK, recorder
  <2>2. CASE ChildExits
    BY <1>1, <2>2 DEF ChildExits, TypeOK, recorder
  <2>3. CASE Main /\ ~(channel # <<>> /\ Handling)
    <3>1. /\ UNCHANGED <<agent, sent, source, channel, recorder>>
          /\ child' = child \/ \E up \in BOOLEAN : child' = [child EXCEPT !.up = up]
          /\ \/ destination' = destination
             \/ destination' = [destination EXCEPT !["outbound"] = <<>>]
          /\ \/ pump' = pump
             \/ \E directions \in SUBSET Directions : pump' = Cancelled(directions)
      BY <2>3, MainSteps
    <3>2. \A d \in Directions : pump'[d].pc = pump[d].pc /\ pump'[d].frame = pump[d].frame
      BY <1>1, <3>1, CancelledType
    <3>3. \A d \in Directions : destination'[d] = destination[d] \/ destination'[d] = <<>>
      BY <1>1, <3>1
    <3>4. child'.todo = child.todo /\ child'.received = child.received /\ child'.sent = child.sent
      BY <1>1, <3>1 DEF TypeOK
    <3> QED
      BY <3>1, <3>2, <3>3, <3>4 DEF recorder
  <2> QED
    BY <2>1, <2>2, <2>3
<1>3. \A n, f : Carried(n, f)' => Carried(n, f)
  BY <1>2 DEF Carried, Position, Event
<1>4. \A k \in Position' : \A f \in channel'[k].frame : Goes(f, channel'[k].direction)
  BY <1>2 DEF FInv, KindInv, Position
<1> QED
  BY <1>1, <1>2, <1>3, <1>4, LessFrames

\* A pump ends, or reports.
LEMMA ReportCalls ==
  ASSUME IInv, FInv, NEW d \in Directions,
         StopReading(d) \/ ReadFails(d) \/ ForwardFails(d) \/ Complete(d) \/ Finish(d)
  PROVE  FInv'
<1>1. TypeOK /\ pump \in [Directions -> Pumps] /\ pump[d] \in Pumps
  BY DEF IInv, TypeOK
<1>2. /\ UNCHANGED <<agent, child, source, sent, destination, order, handled, correlator, journal>>
      /\ \/ channel' = channel
         \/ \E event \in Events : /\ event.frame = {} /\ event.type # "reserved"
                                  /\ channel' = Append(channel, event)
  <2>1. CASE StopReading(d) \/ ReadFails(d) \/ ForwardFails(d)
    BY <2>1 DEF StopReading, ReadFails, ForwardFails, peers, recorder
  <2>2. CASE Complete(d)
    <3>1. /\ Forwarded(pump[d].sequence, d) \in Events
          /\ Forwarded(pump[d].sequence, d).frame = {}
          /\ Forwarded(pump[d].sequence, d).type # "reserved"
      BY <1>1 DEF Forwarded, Events, Pumps
    <3> QED
      BY <2>2, <3>1 DEF Complete, peers, recorder
  <2>3. CASE Finish(d)
    <3>1. Finished(d) \in Events /\ Finished(d).frame = {} /\ Finished(d).type # "reserved"
      BY <1>1 DEF Finished, Events, Pumps
    <3> QED
      BY <2>3, <3>1 DEF Finish, peers, recorder
  <2> QED
    BY <2>1, <2>2, <2>3
<1>3. \A e \in Directions : pump'[e].pc = "forwarding" =>
         pump[e].pc = "forwarding" /\ pump'[e].frame = pump[e].frame
  <2>1. pump'[d].pc # "forwarding" /\ \A e \in Directions \ {d} : pump'[e] = pump[e]
    <3>1. CASE StopReading(d)
      BY <1>1, <3>1 DEF StopReading, Pumps
    <3>2. CASE ReadFails(d)
      BY <1>1, <3>2 DEF ReadFails, Pumps
    <3>3. CASE ForwardFails(d)
      BY <1>1, <3>3 DEF ForwardFails, Pumps
    <3>4. CASE Complete(d)
      BY <1>1, <3>4 DEF Complete, Pumps
    <3>5. CASE Finish(d)
      BY <1>1, <3>5 DEF Finish, Pumps
    <3> QED
      BY <3>1, <3>2, <3>3, <3>4, <3>5
  <2> QED
    BY <2>1
<1>4. /\ \A n, f : Carried(n, f)' => Carried(n, f)
      /\ \A k \in Position' : \A f \in channel'[k].frame : Goes(f, channel'[k].direction)
  <2>1. CASE channel' = channel
    BY <1>2, <2>1 DEF FInv, KindInv, Position, Carried, Event
  <2>2. ASSUME NEW event \in Events, event.frame = {}, event.type # "reserved",
               channel' = Append(channel, event)
        PROVE  <1>4!1 /\ <1>4!2
    <3>1. /\ Position' = Position \cup {Len(channel) + 1}
          /\ \A k \in Position : channel'[k] = channel[k]
          /\ channel'[Len(channel) + 1] = event
      BY <1>1, <2>2, Appended
    <3> QED
      BY <1>2, <2>2, <3>1 DEF FInv, KindInv, Carried, Event
  <2> QED
    BY <1>2, <2>1, <2>2
<1> QED
  BY <1>1, <1>2, <1>3, <1>4, LessFrames

\* A pump writes the frame it has reserved.
LEMMA ForwardCalls ==
  ASSUME IInv, CInv, FInv, NEW d \in Directions, Forward(d) PROVE FInv'
<1>1. /\ TypeOK /\ pump \in [Directions -> Pumps] /\ pump[d] \in Pumps
      /\ destination \in [Directions -> Seq(Frames)] /\ destination[d] \in Seq(Frames)
      /\ KindInv /\ NameInv /\ StreamInv /\ OnceInv /\ Pairs(AllFrames) /\ PeerInv
  BY DEF IInv, TypeOK, FInv
<1>2. /\ UNCHANGED <<agent, child, sent, source, channel, order, handled, correlator, journal>>
      /\ pump[d].pc = "forwarding"
      /\ pump' = [pump EXCEPT ![d] = [@ EXCEPT !.pc = "completing"]]
  BY DEF Forward, peers, recorder
<1>3. PICK frame \in Frames : pump[d].frame = {frame} /\ Carried(pump[d].sequence, frame)
  BY <1>2 DEF CInv, ForwardingInv
<1>4. destination' = [destination EXCEPT ![d] = Append(@, frame)]
  BY <1>3 DEF Forward
<1>5. /\ pump'[d].pc # "forwarding"
      /\ \A e \in Directions \ {d} : pump'[e] = pump[e]
  BY <1>1, <1>2 DEF Pumps
<1>6. PICK last : last = Len(destination[d]) + 1
  OBVIOUS
<1>7. /\ \A e \in Directions \ {d} : destination'[e] = destination[e]
      /\ Len(destination'[d]) = last /\ destination'[d][last] = frame
      /\ \A p \in 1 .. last : p = last \/ p \in 1 .. Len(destination[d])
      /\ \A p \in 1 .. Len(destination[d]) : destination'[d][p] = destination[d][p]
      /\ \A p, q \in 1 .. last : p < q => p \in 1 .. Len(destination[d])
  <2>1. destination'[d] = Append(destination[d], frame)
    BY <1>1, <1>4
  <2> QED
    BY <1>1, <1>3, <1>4, <1>6, <2>1
<1>8. Goes(frame, d)
  BY <1>1, <1>2, <1>3 DEF KindInv
<1>9. /\ \A e \in Directions : \A f : Output(e, f)' => Output(e, f) \/ (e = d /\ f = frame)
      /\ \A e, f : Input(e, f)' <=> Input(e, f)
      /\ \A n, f : Carried(n, f)' <=> Carried(n, f)
      /\ HandledUids' = HandledUids
  <2>1. ASSUME NEW e \in Directions, NEW f, Output(e, f)' PROVE Output(e, f) \/ (e = d /\ f = frame)
    <3>1. CASE e = d
      BY <1>7, <2>1, <3>1 DEF Output
    <3>2. CASE e # d
      BY <1>7, <2>1, <3>2 DEF Output
    <3> QED
      BY <3>1, <3>2
  <2>2. \A n, f : Carried(n, f)' <=> Carried(n, f)
    BY <1>2 DEF Carried, Position, Event
  <2> QED
    BY <1>2, <2>1, <2>2 DEF Input, HandledUids
<1>10. AllFrames' \subseteq AllFrames
  <2> SUFFICES ASSUME NEW f \in AllFrames' PROVE f \in AllFrames
    OBVIOUS
  <2>1. f \in Frames
    BY DEF AllFrames
  <2>2. frame \in AllFrames
    BY <1>1, <1>3, CarriedFrames
  <2> QED
    BY <1>2, <1>9, <2>1, <2>2 DEF AllFrames
<1>11. NameInv' /\ Pairs(AllFrames)' /\ PeerInv'
  BY <1>1, <1>2, <1>10, FramesStay
<1>12. KindInv'
  <2>1. \A e \in Directions : \A f \in Frames : Input(e, f)' \/ Output(e, f)' => Goes(f, e)
    BY <1>1, <1>8, <1>9 DEF KindInv
  <2>2. \A e \in Directions : pump'[e].pc = "forwarding" => \A f \in pump'[e].frame : Goes(f, e)
    BY <1>1, <1>5 DEF KindInv
  <2> QED
    BY <1>1, <1>2, <2>1, <2>2 DEF KindInv, Position
<1>13. OnceInv'
  BY <1>1, <1>2, <1>9 DEF OnceInv
<1>14. StreamInv'
  <2>1. \A e \in Directions : Received(e)' = Received(e)
    BY <1>2 DEF Received
  <2> SUFFICES ASSUME NEW e \in Directions
               PROVE  /\ \A p, q \in 1 .. Len(source[e]) : p < q => source[e][p].uid < source[e][q].uid
                      /\ \A p, q \in 1 .. Len(destination'[e]) :
                            p < q => destination'[e][p].uid < destination'[e][q].uid
                      /\ \A p \in 1 .. Len(destination'[e]) : \A u \in Received(e) :
                            u < destination'[e][p].uid
                      /\ \A q \in 1 .. Len(source[e]) :
                            /\ \A p \in 1 .. Len(destination'[e]) :
                                  destination'[e][p].uid < source[e][q].uid
                            /\ \A u \in Received(e) : u < source[e][q].uid
                            /\ pump'[e].pc = "forwarding" =>
                                  \A f \in pump'[e].frame : f.uid < source[e][q].uid
                      /\ pump'[e].pc = "forwarding" => \A f \in pump'[e].frame :
                            /\ \A p \in 1 .. Len(destination'[e]) : destination'[e][p].uid < f.uid
                            /\ \A u \in Received(e) : u < f.uid
    BY <1>2, <2>1, Zenon DEF StreamInv
  <2>2. CASE e # d
    BY <1>1, <1>5, <1>7, <2>2 DEF StreamInv
  <2>3. CASE e = d
    <3>1. /\ \A p, q \in 1 .. Len(source[d]) : p < q => source[d][p].uid < source[d][q].uid
          /\ \A p, q \in 1 .. Len(destination[d]) :
                p < q => destination[d][p].uid < destination[d][q].uid
          /\ \A p \in 1 .. Len(destination[d]) : \A u \in Received(d) : u < destination[d][p].uid
          /\ \A q \in 1 .. Len(source[d]) :
                /\ \A p \in 1 .. Len(destination[d]) : destination[d][p].uid < source[d][q].uid
                /\ \A u \in Received(d) : u < source[d][q].uid
                /\ frame.uid < source[d][q].uid
          /\ \A p \in 1 .. Len(destination[d]) : destination[d][p].uid < frame.uid
          /\ \A u \in Received(d) : u < frame.uid
      BY <1>1, <1>2, <1>3 DEF StreamInv
    <3>2. /\ \A p, q \in 1 .. Len(destination'[d]) :
                p < q => destination'[d][p].uid < destination'[d][q].uid
          /\ \A p \in 1 .. Len(destination'[d]) : \A u \in Received(d) : u < destination'[d][p].uid
      BY <1>7, <3>1
    <3>3. \A q \in 1 .. Len(source[d]) : \A p \in 1 .. Len(destination'[d]) :
             destination'[d][p].uid < source[d][q].uid
      BY <1>7, <3>1
    <3> QED
      BY <1>5, <2>3, <3>1, <3>2, <3>3
  <2> QED
    BY <2>2, <2>3
<1>15. Outstanding(correlator, handled, Len(handled))' /\ Paired(journal)'
  BY <1>2 DEF FInv, Outstanding, Paired
<1> QED
  BY <1>11, <1>12, <1>13, <1>14, <1>15 DEF FInv

\* A pump reserves the first frame of its input.
LEMMA ReserveCalls ==
  ASSUME IInv, CInv, FInv, NEW d \in Directions, Reserve(d) PROVE FInv'
<1> DEFINE frame == Head(source[d])
           event == Reserved(nextSequence, d, frame)
<1>1. /\ TypeOK /\ nextSequence \in Nat /\ pump \in [Directions -> Pumps] /\ pump[d] \in Pumps
      /\ source \in [Directions -> Seq(Frames)] /\ source[d] \in Seq(Frames)
      /\ KindInv /\ NameInv /\ StreamInv /\ OnceInv /\ Pairs(AllFrames) /\ PeerInv
  BY DEF IInv, TypeOK, FInv
<1>2. /\ source[d] # <<>>
      /\ source' = [source EXCEPT ![d] = Tail(@)]
      /\ channel' = Append(channel, event)
      /\ pump' = [pump EXCEPT ![d] = [@ EXCEPT !.pc = "forwarding", !.frame = {frame},
                                               !.sequence = nextSequence]]
      /\ UNCHANGED <<agent, child, sent, destination, order, handled, correlator, journal>>
      /\ pump[d].pc = "reading"
  BY DEF Reserve, TakeFrame, peers, recorder
<1>3. /\ frame \in Frames /\ frame = source[d][1] /\ 1 \in 1 .. Len(source[d])
      /\ event \in Events /\ event.type = "reserved" /\ event.sequence = nextSequence
      /\ event.frame = {frame} /\ event.direction = d
  <2>1. frame \in Frames /\ frame = source[d][1] /\ 1 \in 1 .. Len(source[d])
    BY <1>1, <1>2
  <2> QED
    BY <1>1, <2>1 DEF Reserved, Events
<1>4. /\ \A p \in 1 .. Len(source'[d]) :
            p \in Nat /\ p + 1 \in 1 .. Len(source[d]) /\ source'[d][p] = source[d][p + 1]
      /\ \A e \in Directions \ {d} : source'[e] = source[e]
  <2>1. PICK s : s = source[d]
    OBVIOUS
  <2>2. s \in Seq(Frames) /\ 1 \in 1 .. Len(s) /\ Len(s) \in Nat
    BY <1>1, <1>3, <2>1
  <2>3. Len(Tail(s)) = Len(s) - 1 /\ \A p \in 1 .. Len(s) - 1 : Tail(s)[p] = s[p + 1]
    BY <2>2
  <2>4. \A p \in 1 .. Len(s) - 1 : p + 1 \in 1 .. Len(s) /\ p \in Nat
    BY <2>2
  <2>5. source'[d] = Tail(source[d]) /\ \A e \in Directions \ {d} : source'[e] = source[e]
    BY <1>1, <1>2
  <2> QED
    BY <2>1, <2>3, <2>4, <2>5
<1> HIDE DEF event, frame
<1>5. /\ pump'[d].pc = "forwarding" /\ pump'[d].frame = {frame}
      /\ \A e \in Directions \ {d} : pump'[e] = pump[e]
  BY <1>1, <1>2 DEF Pumps
<1>6. /\ \A n, f : Carried(n, f)' => Carried(n, f) \/ (n = nextSequence /\ f = frame)
      /\ \A n, f : Carried(n, f) => Carried(n, f)'
  <2>1. \A e \in Directions : pump[e].pc = "completing" =>
           pump'[e].pc = "completing" /\ pump'[e].sequence = pump[e].sequence
    BY <1>2, <1>5
  <2>2. /\ \A n, f : Carried(n, f) => Carried(n, f)'
        /\ \A n, f : Carried(n, f)' =>
              \/ Carried(n, f)
              \/ event.type = "reserved" /\ event.sequence = n /\ f \in event.frame
    BY <1>1, <1>2, <1>3, <2>1, AppendAhead
  <2> QED
    BY <1>3, <2>2
<1>7. /\ \A e \in Directions : \A f : Input(e, f)' => Input(e, f)
      /\ \A e, f : Output(e, f)' <=> Output(e, f)
      /\ HandledUids' = HandledUids /\ Input(d, frame)
  <2>1. ASSUME NEW e \in Directions, NEW f, Input(e, f)' PROVE Input(e, f)
    <3>1. CASE e = d
      BY <1>4, <2>1, <3>1 DEF Input
    <3>2. CASE e # d
      BY <1>4, <2>1, <3>2 DEF Input
    <3> QED
      BY <3>1, <3>2
  <2>2. \A e, f : Output(e, f)' <=> Output(e, f)
    BY <1>2 DEF Output
  <2>3. HandledUids' = HandledUids
    BY <1>2 DEF HandledUids
  <2>4. Input(d, frame)
    BY <1>3 DEF Input
  <2> QED
    BY <2>1, <2>2, <2>3, <2>4
<1>8. AllFrames' \subseteq AllFrames
  <2> SUFFICES ASSUME NEW f \in AllFrames' PROVE f \in AllFrames
    OBVIOUS
  <2>1. f \in Frames
    BY DEF AllFrames
  <2>2. frame \in AllFrames
    BY <1>3, <1>7 DEF AllFrames
  <2>3. CASE \E n : Carried(n, f)'
    BY <1>6, <2>1, <2>2, <2>3 DEF AllFrames
  <2>4. CASE ~ \E n : Carried(n, f)'
    BY <1>2, <1>7, <2>1, <2>4 DEF AllFrames
  <2> QED
    BY <2>3, <2>4
<1>9. NameInv' /\ Pairs(AllFrames)' /\ PeerInv'
  BY <1>1, <1>2, <1>8, FramesStay
<1>10. Goes(frame, d)
  BY <1>1, <1>3, <1>7 DEF KindInv
<1>11. KindInv'
  <2>1. \A e \in Directions : \A f \in Frames : Input(e, f)' \/ Output(e, f)' => Goes(f, e)
    BY <1>1, <1>7 DEF KindInv
  <2>2. \A e \in Directions : pump'[e].pc = "forwarding" => \A f \in pump'[e].frame : Goes(f, e)
    BY <1>1, <1>5, <1>10 DEF KindInv
  <2>3. \A k \in Position' : \A f \in channel'[k].frame : Goes(f, channel'[k].direction)
    <3>1. /\ Position' = Position \cup {Len(channel) + 1}
          /\ \A k \in Position : channel'[k] = channel[k]
          /\ channel'[Len(channel) + 1] = event
      BY <1>1, <1>2, <1>3, Appended
    <3> QED
      BY <1>1, <1>3, <1>10, <3>1 DEF KindInv
  <2> QED
    BY <1>1, <1>2, <2>1, <2>2, <2>3 DEF KindInv
<1>12. OnceInv'
  <2>1. frame.uid \notin HandledUids /\ \A n : ~Carried(n, frame)
    BY <1>1, <1>3, <1>7 DEF OnceInv
  <2>2. \A n, f : Carried(n, f)' => f.uid \notin HandledUids
    BY <1>1, <1>6, <2>1 DEF OnceInv
  <2>3. ASSUME NEW m, NEW n, NEW f, Carried(m, f)', Carried(n, f)' PROVE m = n
    BY <1>1, <1>6, <2>1, <2>3 DEF OnceInv
  <2>4. ASSUME NEW e \in Directions, NEW f \in Frames, Input(e, f)'
        PROVE  f.uid \notin HandledUids /\ \A n : ~Carried(n, f)'
    <3>1. f.uid \notin HandledUids /\ \A n : ~Carried(n, f)
      BY <1>1, <1>7, <2>4 DEF OnceInv
    <3>2. f # frame
      <4> SUFFICES ASSUME f = frame PROVE FALSE
        OBVIOUS
      <4>1. CASE e = d
        <5>1. PICK p \in 1 .. Len(source'[d]) : source'[d][p] = frame
          BY <2>4, <4>1 DEF Input
        <5>2. p \in Nat /\ p + 1 \in 1 .. Len(source[d]) /\ source[d][p + 1] = frame
          BY <1>4, <5>1
        <5>3. 1 < p + 1
          BY <5>1, <5>2
        <5>4. frame.uid < frame.uid /\ frame.uid \in Nat
          BY <1>1, <1>3, <5>2, <5>3 DEF StreamInv, Frames
        <5> QED
          BY <5>4
      <4>2. CASE e # d
        <5>1. Goes(frame, e)
          BY <1>1, <1>7, <2>4 DEF KindInv
        <5> QED
          BY <1>10, <4>2, <5>1 DEF Goes, Directions
      <4> QED
        BY <4>1, <4>2
    <3> QED
      BY <1>6, <3>1, <3>2
  <2> QED
    BY <1>1, <1>2, <1>7, <2>2, <2>3, <2>4 DEF OnceInv
<1>13. StreamInv'
  <2>1. \A e \in Directions : Received(e)' = Received(e)
    BY <1>2 DEF Received
  <2> SUFFICES ASSUME NEW e \in Directions
               PROVE  /\ \A p, q \in 1 .. Len(source'[e]) :
                            p < q => source'[e][p].uid < source'[e][q].uid
                      /\ \A p, q \in 1 .. Len(destination[e]) :
                            p < q => destination[e][p].uid < destination[e][q].uid
                      /\ \A p \in 1 .. Len(destination[e]) : \A u \in Received(e) :
                            u < destination[e][p].uid
                      /\ \A q \in 1 .. Len(source'[e]) :
                            /\ \A p \in 1 .. Len(destination[e]) :
                                  destination[e][p].uid < source'[e][q].uid
                            /\ \A u \in Received(e) : u < source'[e][q].uid
                            /\ pump'[e].pc = "forwarding" =>
                                  \A f \in pump'[e].frame : f.uid < source'[e][q].uid
                      /\ pump'[e].pc = "forwarding" => \A f \in pump'[e].frame :
                            /\ \A p \in 1 .. Len(destination[e]) : destination[e][p].uid < f.uid
                            /\ \A u \in Received(e) : u < f.uid
    BY <1>2, <2>1, ZenonT(30) DEF StreamInv
  <2>2. CASE e # d
    BY <1>1, <1>4, <1>5, <2>2 DEF StreamInv
  <2>3. CASE e = d
    <3>1. /\ \A p, q \in 1 .. Len(source[d]) : p < q => source[d][p].uid < source[d][q].uid
          /\ \A p, q \in 1 .. Len(destination[d]) :
                p < q => destination[d][p].uid < destination[d][q].uid
          /\ \A p \in 1 .. Len(destination[d]) : \A u \in Received(d) : u < destination[d][p].uid
          /\ \A q \in 1 .. Len(source[d]) :
                /\ \A p \in 1 .. Len(destination[d]) : destination[d][p].uid < source[d][q].uid
                /\ \A u \in Received(d) : u < source[d][q].uid
      BY <1>1 DEF StreamInv
    <3>2. \A q \in 1 .. Len(source'[d]) : q + 1 \in 1 .. Len(source[d]) /\ 1 < q + 1
      BY <1>4
    <3>3. ASSUME NEW p \in 1 .. Len(source'[d]), NEW q \in 1 .. Len(source'[d]), p < q
          PROVE  source'[d][p].uid < source'[d][q].uid
      <4>1. p + 1 < q + 1
        BY <1>4, <3>3
      <4> QED
        BY <1>4, <3>1, <4>1
    <3>4. ASSUME NEW q \in 1 .. Len(source'[d])
          PROVE  /\ \A p \in 1 .. Len(destination[d]) : destination[d][p].uid < source'[d][q].uid
                 /\ \A u \in Received(d) : u < source'[d][q].uid
                 /\ frame.uid < source'[d][q].uid
      BY <1>3, <1>4, <3>1, <3>2
    <3>5. /\ \A p \in 1 .. Len(destination[d]) : destination[d][p].uid < frame.uid
          /\ \A u \in Received(d) : u < frame.uid
      BY <1>3, <3>1
    <3> QED
      BY <1>5, <2>3, <3>1, <3>3, <3>4, <3>5
  <2> QED
    BY <2>2, <2>3
<1>14. Outstanding(correlator, handled, Len(handled))' /\ Paired(journal)'
  BY <1>2 DEF FInv, Outstanding, Paired
<1> QED
  BY <1>9, <1>11, <1>12, <1>13, <1>14 DEF FInv

-----------------------------------------------------------------------------
(* The main thread handles an event.                                        *)

\* What becomes ready goes as it was reserved, and is reserved no more.
LEMMA LeavingGone ==
  ASSUME IInv, OrderInv, channel # <<>>, NEW next, HandleEvent(Head(channel), next)
  PROVE  \A n \in Leaving : \A f : ~Carried(n, f)'
<1> SUFFICES ASSUME NEW n \in Leaving, NEW f, Carried(n, f)' PROVE FALSE
  OBVIOUS
<1>1. /\ DOMAIN Arriving \subseteq 0 .. order'.reservation - 1
      /\ order'.reservation \in Nat
      /\ order'.pending = [m \in DOMAIN Arriving \ Ready(Arriving) |-> Arriving[m]]
  BY HandledFrames
<1>2. n \in DOMAIN Arriving /\ n \in Ready(Arriving)
  BY DEF Leaving, Ready
<1>3. ASSUME NEW k \in Position', Event(k, "reserved")', channel'[k].sequence = n PROVE FALSE
  <2>1. n \in order'.reservation .. nextSequence' - 1
    BY <1>3, HandleInv DEF ReservedInv
  <2> QED
    BY <1>1, <1>2, <2>1
<1> QED
  BY <1>1, <1>2, <1>3 DEF Carried

\* An entry has the direction of the pump that reserved its frame.
LEMMA ArrivingGoes ==
  ASSUME IInv, OrderInv, KindInv, channel # <<>>
  PROVE  \A n \in DOMAIN Arriving : \A f \in Arriving[n].frame : Goes(f, Arriving[n].direction)
<1>1. /\ TypeOK /\ Head(channel) \in Events /\ Arriving = Pending(Head(channel))
      /\ 1 \in Position /\ channel[1] = Head(channel)
  <2>1. TypeOK
    BY DEF IInv
  <2>2. 1 \in Position /\ channel[1] = Head(channel)
    BY <2>1 DEF TypeOK, Position
  <2> QED
    BY <2>1, <2>2, HeadType, ArrivedFrames
<1> DEFINE head == Head(channel)
<1>2. \A n \in DOMAIN order.pending : order.pending[n] \in Entries
  BY <1>1 DEF TypeOK
<1>3. \A n \in DOMAIN order.pending : \A f \in order.pending[n].frame :
         Goes(f, order.pending[n].direction)
  BY DEF KindInv
<1> SUFFICES ASSUME NEW n \in DOMAIN Arriving, NEW f \in Arriving[n].frame
             PROVE  Goes(f, Arriving[n].direction)
  OBVIOUS
<1>4. CASE head.type = "reserved"
  <2>1. \A g \in head.frame : Goes(g, head.direction)
    BY <1>1 DEF KindInv
  <2>2. /\ n \in DOMAIN order.pending \cup {head.sequence}
        /\ Arriving[n] = IF n = head.sequence
                         THEN Entry("reserved", head.direction, head.frame)
                         ELSE order.pending[n]
    BY <1>1, <1>4 DEF Pending
  <2>3. CASE n = head.sequence
    BY <2>1, <2>2, <2>3 DEF Entry
  <2>4. CASE n # head.sequence
    BY <1>3, <2>2, <2>4
  <2> QED
    BY <2>3, <2>4
<1>5. CASE head.type = "forwarded"
  <2>1. Arriving = [order.pending EXCEPT ![head.sequence].state = "forwarded"]
    BY <1>1, <1>5 DEF Pending
  <2>2. /\ n \in DOMAIN order.pending /\ Arriving[n].frame = order.pending[n].frame
        /\ Arriving[n].direction = order.pending[n].direction
    BY <1>2, <2>1 DEF Entries
  <2> QED
    BY <1>3, <2>2
<1>6. CASE head.type = "finished"
  <2>1. /\ n \in DOMAIN order.pending
        /\ Arriving[n] = IF Retires(head, order.pending[n])
                         THEN Entry("retired", order.pending[n].direction, {})
                         ELSE order.pending[n]
    BY <1>1, <1>6 DEF Pending
  <2>2. CASE Retires(head, order.pending[n])
    BY <2>1, <2>2 DEF Entry
  <2>3. CASE ~Retires(head, order.pending[n])
    BY <1>3, <2>1, <2>3
  <2> QED
    BY <2>2, <2>3
<1> QED
  BY <1>1, <1>4, <1>5, <1>6 DEF Events

\* The frames handled so far, and those that leave.
LEMMA HandledFrom ==
  ASSUME IInv, CInv, channel # <<>>, NEW next, HandleEvent(Head(channel), next)
  PROVE  /\ Len(handled) \in Nat /\ Len(handled') = Len(handled) + Cardinality(Leaving)
         /\ Cardinality(Leaving) \in Nat
         /\ \A i \in 1 .. Len(handled) : handled'[i] = handled[i]
         /\ \A i \in 1 .. Len(handled') : i \notin 1 .. Len(handled) =>
               \E n \in Leaving : i = Len(handled) + Rank(Leaving, n) /\ Carried(n, handled'[i])
<1>1. /\ OrderInv /\ handled \in Seq(Frames)
      /\ Leaving \in SUBSET Nat /\ IsFiniteSet(Leaving)
      /\ Len(handled') = Len(handled) + Cardinality(Leaving)
      /\ \A i \in 1 .. Len(handled) : handled'[i] = handled[i]
      /\ \A n \in Leaving : handled'[Len(handled) + Rank(Leaving, n)] \in Arriving[n].frame
  BY HandledFrames DEF CInv, OrderInv
<1>2. /\ Cardinality(Leaving) \in Nat
      /\ \A k \in 1 .. Cardinality(Leaving) : \E n \in Leaving : Rank(Leaving, n) = k
  BY <1>1, Ranks
<1>3. ASSUME NEW i \in 1 .. Len(handled'), i \notin 1 .. Len(handled)
      PROVE  \E n \in Leaving : i = Len(handled) + Rank(Leaving, n) /\ Carried(n, handled'[i])
  <2>1. i - Len(handled) \in 1 .. Cardinality(Leaving) /\ Len(handled) + (i - Len(handled)) = i
    BY <1>1, <1>2, <1>3
  <2>2. PICK n \in Leaving : Rank(Leaving, n) = i - Len(handled)
    BY <1>2, <2>1
  <2>3. handled'[i] \in Arriving[n].frame
    BY <1>1, <2>1, <2>2
  <2>4. Carried(n, handled'[i])
    BY <1>1, <2>2, <2>3, ArrivedFrames DEF Leaving, Ready
  <2> QED
    BY <2>1, <2>2, <2>4
<1> QED
  BY <1>1, <1>2, <1>3

\* No frame is handled twice.
LEMMA HandleOnce ==
  ASSUME IInv, CInv, FInv, channel # <<>>, NEW next, HandleEvent(Head(channel), next)
  PROVE  AllFrames' \subseteq AllFrames /\ OnceInv'
<1>1. /\ TypeOK /\ OrderInv /\ OnceInv /\ NameInv /\ Pairs(AllFrames) /\ handled \in Seq(Frames)
      /\ UNCHANGED <<agent, child, sent, source, destination>>
  BY DEF IInv, CInv, OrderInv, FInv, HandleEvent, peers
<1>2. /\ Len(handled) \in Nat
      /\ \A i \in 1 .. Len(handled) : handled'[i] = handled[i]
      /\ \A i \in 1 .. Len(handled') : i \notin 1 .. Len(handled) =>
            \E n \in Leaving : i = Len(handled) + Rank(Leaving, n) /\ Carried(n, handled'[i])
  BY HandledFrom
<1>3. \A n, f : Carried(n, f)' => Carried(n, f)
  BY <1>1, HandleAhead
<1>4. \A n \in Leaving : \A f : ~Carried(n, f)'
  BY <1>1, LeavingGone
<1>5. /\ \A d, f : Input(d, f)' <=> Input(d, f)
      /\ \A d, f : Output(d, f)' <=> Output(d, f)
  BY <1>1 DEF Input, Output
<1>6. ASSUME NEW i \in 1 .. Len(handled') PROVE handled'[i] \in AllFrames
  <2>1. CASE i \in 1 .. Len(handled)
    <3>1. handled[i] \in Frames
      BY <1>1, <2>1
    <3>2. handled[i] \in AllFrames
      BY <2>1, <3>1 DEF AllFrames
    <3> QED
      BY <1>2, <2>1, <3>2
  <2>2. CASE i \notin 1 .. Len(handled)
    <3>1. PICK n \in Leaving : Carried(n, handled'[i])
      BY <1>2, <2>2
    <3> QED
      BY <1>1, <3>1, CarriedFrames
  <2> QED
    BY <2>1, <2>2
<1>7. AllFrames' \subseteq AllFrames
  <2> SUFFICES ASSUME NEW f \in AllFrames' PROVE f \in AllFrames
    OBVIOUS
  <2>1. f \in Frames
    BY DEF AllFrames
  <2>2. CASE \E i \in 1 .. Len(handled') : handled'[i] = f
    BY <1>6, <2>2
  <2>3. CASE ~ \E i \in 1 .. Len(handled') : handled'[i] = f
    BY <1>1, <1>3, <1>5, <2>1, <2>3 DEF AllFrames
  <2> QED
    BY <2>2, <2>3
<1>8. ASSUME NEW n, NEW f, Carried(n, f), NEW i \in 1 .. Len(handled'), handled'[i].uid = f.uid
      PROVE  n \in Leaving /\ i = Len(handled) + Rank(Leaving, n)
  <2>1. f \in AllFrames /\ handled'[i] = f
    BY <1>1, <1>6, <1>8, CarriedFrames DEF Pairs
  <2>2. i \notin 1 .. Len(handled)
    <3> SUFFICES ASSUME i \in 1 .. Len(handled) PROVE FALSE
      OBVIOUS
    <3>1. f.uid \in HandledUids
      BY <1>2, <1>8 DEF HandledUids
    <3> QED
      BY <1>1, <1>8, <3>1 DEF OnceInv
  <2>3. PICK m \in Leaving : i = Len(handled) + Rank(Leaving, m) /\ Carried(m, f)
    BY <1>2, <2>1, <2>2
  <2>4. m = n
    BY <1>1, <1>8, <2>3 DEF OnceInv
  <2> QED
    BY <2>3, <2>4
<1>9. OnceInv'
  <2>1. ASSUME NEW i \in 1 .. Len(handled'), NEW j \in 1 .. Len(handled'),
               handled'[i].uid = handled'[j].uid
        PROVE  i = j
    <3>1. CASE i \in 1 .. Len(handled) /\ j \in 1 .. Len(handled)
      BY <1>1, <1>2, <2>1, <3>1 DEF OnceInv
    <3>2. CASE i \notin 1 .. Len(handled)
      <4>1. PICK n \in Leaving : i = Len(handled) + Rank(Leaving, n) /\ Carried(n, handled'[i])
        BY <1>2, <3>2
      <4>2. j = Len(handled) + Rank(Leaving, n)
        BY <1>8, <2>1, <4>1
      <4> QED
        BY <4>1, <4>2
    <3>3. CASE j \notin 1 .. Len(handled)
      <4>1. PICK n \in Leaving : j = Len(handled) + Rank(Leaving, n) /\ Carried(n, handled'[j])
        BY <1>2, <3>3
      <4>2. i = Len(handled) + Rank(Leaving, n)
        BY <1>8, <2>1, <4>1
      <4> QED
        BY <4>1, <4>2
    <3> QED
      BY <3>1, <3>2, <3>3
  <2>2. ASSUME NEW n, NEW f, Carried(n, f)' PROVE f.uid \notin HandledUids'
    <3> SUFFICES ASSUME NEW i \in 1 .. Len(handled'), handled'[i].uid = f.uid PROVE FALSE
      BY DEF HandledUids
    <3>1. n \in Leaving
      BY <1>3, <1>8, <2>2
    <3> QED
      BY <1>4, <2>2, <3>1
  <2>3. ASSUME NEW d \in Directions, NEW f \in Frames, Input(d, f)
        PROVE  f.uid \notin HandledUids' /\ \A n : ~Carried(n, f)'
    <3>1. f.uid \notin HandledUids /\ \A n : ~Carried(n, f)
      BY <1>1, <2>3 DEF OnceInv
    <3>2. f \in AllFrames
      BY <2>3 DEF AllFrames
    <3>3. ASSUME NEW i \in 1 .. Len(handled'), handled'[i].uid = f.uid PROVE FALSE
      <4>1. handled'[i] = f
        BY <1>1, <1>6, <3>2, <3>3 DEF Pairs
      <4>2. CASE i \in 1 .. Len(handled)
        BY <1>2, <3>1, <3>3, <4>2 DEF HandledUids
      <4>3. CASE i \notin 1 .. Len(handled)
        BY <1>2, <3>1, <4>1, <4>3
      <4> QED
        BY <4>2, <4>3
    <3> QED
      BY <1>3, <3>1, <3>3 DEF HandledUids
  <2>4. \A m, n, f : Carried(m, f)' /\ Carried(n, f)' => m = n
    BY <1>1, <1>3 DEF OnceInv
  <2> QED
    BY <1>5, <2>1, <2>2, <2>3, <2>4 DEF OnceInv
<1> QED
  BY <1>7, <1>9

\* The correlator sees the frames in an order in which it cannot be mistaken.
LEMMA HandlePaired ==
  ASSUME IInv, CInv, FInv, CountedInv, channel # <<>>,
         NEW next, HandleEvent(Head(channel), next), NameInv'
  PROVE  Outstanding(correlator, handled, Len(handled))' /\ Paired(journal)'
<1> DEFINE entries == Drained(Arriving)
           F == {handled'[i] : i \in 1 .. Len(handled')}
<1>1. /\ TypeOK /\ OrderInv /\ KindInv /\ Pairs(AllFrames) /\ Paired(journal)
      /\ Outstanding(correlator, handled, Len(handled))
  BY DEF IInv, CInv, FInv
<1>2. /\ Len(handled) \in Nat
      /\ \A i \in 1 .. Len(handled) : handled'[i] = handled[i]
  BY HandledFrom
<1>3. AllFrames' \subseteq AllFrames /\ OnceInv'
  BY HandleOnce
<1>4. handled' \in Seq(Frames) /\ CausalOrder'
  <2>1. OrderInv' /\ CausalOrder'
    BY HandleOrder DEF CInv
  <2> QED
    BY <2>1 DEF OrderInv
<1>5. \A i \in 1 .. Len(handled') : handled'[i] \in AllFrames'
  <2> SUFFICES ASSUME NEW i \in 1 .. Len(handled') PROVE handled'[i] \in AllFrames'
    OBVIOUS
  <2>1. handled'[i] \in Frames
    BY <1>4
  <2> QED
    BY <2>1 DEF AllFrames
<1>6. Ordered(handled')
  <2>1. \A i, j \in 1 .. Len(handled') : handled'[i].uid = handled'[j].uid => i = j
    BY <1>3 DEF OnceInv
  <2>2. \A j \in 1 .. Len(handled') : \A u \in handled'[j].known :
           \E i \in 1 .. j - 1 : handled'[i].uid = u
    BY <1>4 DEF CausalOrder
  <2>3. ASSUME NEW j \in 1 .. Len(handled') PROVE handled'[j].uid # 0
    <3>1. handled'[j].uid \in 1 .. sent'
      BY <1>5 DEF NameInv
    <3> QED
      BY <3>1
  <2> QED
    BY <1>4, <2>1, <2>2, <2>3 DEF Ordered
<1>7. Pairs(F)
  <2>1. F \subseteq AllFrames
    BY <1>3, <1>5
  <2> HIDE DEF F
  <2> QED
    BY <1>1, <2>1, FewerPairs
<1>8. PICK m : m = Cardinality(Leaving)
  OBVIOUS
<1>9. /\ m \in Nat /\ DOMAIN entries = 1 .. m /\ Len(handled') = Len(handled) + m
      /\ \A k \in 1 .. m : /\ handled'[Len(handled) + k] \in Frames
                           /\ entries[k].frame = {handled'[Len(handled) + k]}
                           /\ \E n \in Leaving : entries[k] = Arriving[n]
  BY <1>1, <1>8, HandledEntries
<1>10. PICK result : result = FoldLeft(Correlate, [state |-> correlator, records |-> <<>>], entries)
  OBVIOUS
<1>11. /\ correlator' = result.state
       /\ journal' = journal \/ journal' = journal \o result.records
  BY <1>10 DEF HandleEvent, Arriving
<1> HIDE DEF entries
<1>12. /\ \A k \in 1 .. m : Goes(handled'[Len(handled) + k], entries[k].direction)
       /\ \A k \in 1 .. m : TheFrame(entries[k]) \in Frames
  <2> SUFFICES ASSUME NEW k \in 1 .. m
               PROVE  /\ Goes(handled'[Len(handled) + k], entries[k].direction)
                      /\ TheFrame(entries[k]) \in Frames
    OBVIOUS
  <2>1. PICK n \in Leaving : entries[k] = Arriving[n]
    BY <1>9
  <2>2. handled'[Len(handled) + k] \in Arriving[n].frame
    BY <1>9, <2>1
  <2>3. n \in DOMAIN Arriving
    BY DEF Leaving, Ready
  <2> QED
    BY <1>1, <1>9, <2>1, <2>2, <2>3, ArrivingGoes DEF TheFrame
<1>13. /\ correlator \in CorrelatorStates /\ journal \in Seq(Records)
       /\ result.records \in Seq(Records)
  <2>1. correlator \in CorrelatorStates /\ journal \in Seq(Records)
    BY DEF CountedInv, CorrelatorStates
  <2> QED
    BY <1>9, <1>10, <1>12, <2>1, FoldType
<1>14. Outstanding(correlator, handled', Len(handled))
  <2>1. \A i \in 1 .. Len(handled) : handled'[i] = handled[i]
    BY <1>2
  <2> QED
    BY <1>1, <2>1 DEF Outstanding
<1>15. Outstanding(result.state, handled', Len(handled) + m) /\ Paired(result.records)
  <2>1. PICK hs : hs = handled'
    OBVIOUS
  <2>2. PICK n : n = Len(handled)
    OBVIOUS
  <2>3. /\ Ordered(hs) /\ Pairs({hs[i] : i \in 1 .. Len(hs)}) /\ n \in Nat /\ n + m = Len(hs)
        /\ Outstanding(correlator, hs, n)
        /\ \A k \in 1 .. m : /\ entries[k].frame = {hs[n + k]}
                             /\ Goes(hs[n + k], entries[k].direction)
    BY <1>2, <1>6, <1>7, <1>9, <1>12, <1>14, <2>1, <2>2
  <2>4. Outstanding(result.state, hs, n + m) /\ Paired(result.records)
    BY <1>9, <1>10, <1>13, <2>3, FoldPaired
  <2> QED
    BY <2>1, <2>2, <2>4
<1>16. Paired(journal \o result.records)
  <2>1. PICK old : old = journal
    OBVIOUS
  <2>2. PICK new : new = result.records
    OBVIOUS
  <2>3. /\ old \in Seq(Records) /\ new \in Seq(Records) /\ Len(old) \in Nat /\ Len(new) \in Nat
        /\ Paired(old) /\ Paired(new)
    BY <1>1, <1>13, <1>15, <2>1, <2>2
  <2>4. /\ Len(old \o new) = Len(old) + Len(new)
        /\ \A k \in 1 .. Len(old) + Len(new) : (old \o new)[k] =
              IF k <= Len(old) THEN old[k] ELSE new[k - Len(old)]
    BY <2>3, ConcatProperties
  <2>5. ASSUME NEW k \in 1 .. Len(old) + Len(new), (old \o new)[k].method = "call"
        PROVE  (old \o new)[k].call = (old \o new)[k].answer
    <3>1. CASE k <= Len(old)
      BY <2>3, <2>4, <2>5, <3>1 DEF Paired
    <3>2. CASE ~(k <= Len(old))
      <4>1. k - Len(old) \in 1 .. Len(new)
        BY <2>3, <3>2
      <4> QED
        BY <2>3, <2>4, <2>5, <3>2, <4>1 DEF Paired
    <3> QED
      BY <3>1, <3>2
  <2> QED
    BY <2>1, <2>2, <2>4, <2>5 DEF Paired
<1>17. Paired(journal')
  <2>1. CASE journal' = journal
    BY <1>1, <2>1
  <2>2. CASE journal' = journal \o result.records
    BY <1>16, <2>2
  <2> QED
    BY <1>11, <2>1, <2>2
<1>18. Outstanding(correlator', handled', Len(handled'))
  BY <1>9, <1>11, <1>15
<1> QED
  BY <1>17, <1>18 DEF Outstanding, Paired

LEMMA HandleCalls ==
  ASSUME IInv, CInv, FInv, CountedInv, channel # <<>>, NEW next, HandleEvent(Head(channel), next)
  PROVE  FInv'
<1>1. /\ TypeOK /\ OrderInv /\ KindInv /\ NameInv /\ StreamInv /\ Pairs(AllFrames) /\ PeerInv
      /\ UNCHANGED <<agent, child, sent, source, destination, pump>>
      /\ channel' = Tail(channel)
  BY DEF IInv, CInv, FInv, HandleEvent, peers
<1>2. AllFrames' \subseteq AllFrames /\ OnceInv'
  BY HandleOnce
<1>3. NameInv' /\ Pairs(AllFrames)' /\ PeerInv'
  BY <1>1, <1>2, FramesStay
<1>4. StreamInv'
  BY <1>1 DEF StreamInv, Received
<1>5. KindInv'
  <2>1. \A k \in Position' : k + 1 \in Position /\ channel'[k] = channel[k + 1]
    BY <1>1, Shifted
  <2>2. \A k \in Position' : \A f \in channel'[k].frame : Goes(f, channel'[k].direction)
    BY <1>1, <2>1 DEF KindInv
  <2>3. order'.pending = [n \in DOMAIN Arriving \ Ready(Arriving) |-> Arriving[n]]
    BY <1>1, HandledFrames
  <2>4. \A n \in DOMAIN order'.pending : \A f \in order'.pending[n].frame :
           Goes(f, order'.pending[n].direction)
    BY <1>1, <2>3, ArrivingGoes
  <2>5. \A d \in Directions : \A f \in Frames : Input(d, f)' \/ Output(d, f)' => Goes(f, d)
    BY <1>1 DEF KindInv, Input, Output
  <2>6. \A d \in Directions : pump'[d].pc = "forwarding" => \A f \in pump'[d].frame : Goes(f, d)
    BY <1>1 DEF KindInv
  <2> QED
    BY <2>2, <2>4, <2>5, <2>6 DEF KindInv
<1>6. Outstanding(correlator, handled, Len(handled))' /\ Paired(journal)'
  BY <1>3, HandlePaired
<1> QED
  BY <1>2, <1>3, <1>4, <1>5, <1>6 DEF FInv

LEMMA InitCalls == Init => FInv
<1> SUFFICES ASSUME Init PROVE FInv
  OBVIOUS
<1>1. /\ channel = <<>> /\ Position = {} /\ order.pending = <<>> /\ DOMAIN order.pending = {}
      /\ handled = <<>> /\ journal = <<>> /\ child.todo = {} /\ sent = 0
      /\ \A d \in Directions : /\ source[d] = <<>> /\ destination[d] = <<>>
                               /\ pump[d].pc = "reading"
      /\ agent.received = {} /\ child.received = {} /\ agent.sent = {} /\ child.sent = {}
      /\ correlator = NoPending
  BY DEF Init, Position
<1>2. /\ \A d \in Directions : \A f : ~Input(d, f) /\ ~Output(d, f)
      /\ \A n, f : ~Carried(n, f) /\ HandledUids = {}
  BY <1>1 DEF Input, Output, Carried, HandledUids
<1>3. AllFrames = {}
  BY <1>1, <1>2 DEF AllFrames
<1>4. KindInv /\ StreamInv
  BY <1>1, <1>2 DEF KindInv, StreamInv
<1>5. NameInv /\ PeerInv /\ Pairs(AllFrames)
  BY <1>1, <1>3 DEF NameInv, PeerInv, Pairs
<1>6. OnceInv
  BY <1>1, <1>2 DEF OnceInv
<1>7. Outstanding(correlator, handled, Len(handled)) /\ Paired(journal)
  BY <1>1 DEF Outstanding, Paired, NoPending
<1> QED
  BY <1>4, <1>5, <1>6, <1>7 DEF FInv

LEMMA StepCalls == IInv /\ CInv /\ RInv /\ FInv /\ [Next]_vars => FInv'
<1> SUFFICES ASSUME IInv, CInv, RInv, FInv, [Next]_vars PROVE FInv'
  OBVIOUS
<1>1. CASE Main
  <2>1. CASE channel # <<>> /\ Handling
    BY <2>1, HandleCalls DEF Handling, RInv
  <2> QED
    BY <1>1, <2>1, EndCalls
<1>2. ASSUME NEW d \in Directions, Pump(d) \/ ReadFails(d) PROVE FInv'
  BY <1>2, ReserveCalls, ForwardCalls, ReportCalls DEF Pump
<1>3. CASE Peers
  BY <1>3, RequestCalls, MessageCalls, AgentReads, EndCalls, ChildReads, RespondCalls DEF Peers
<1>4. CASE Returned \/ UNCHANGED vars
  <2>1. UNCHANGED vars
    BY <1>4 DEF Returned
  <2>2. \A n, f : Carried(n, f)' => Carried(n, f)
    BY <2>1 DEF vars, Carried, Position, Event
  <2>3. \A k \in Position' : \A f \in channel'[k].frame : Goes(f, channel'[k].direction)
    BY <2>1 DEF vars, FInv, KindInv, Position
  <2> QED
    BY <2>1, <2>2, <2>3, LessFrames DEF vars, IInv
<1> QED
  BY <1>1, <1>2, <1>3, <1>4 DEF Next

\* Every record of a call is of a request and of the response to that request,
\* although the agent uses the ids of its requests again, and whatever the
\* order in which the two pumps and the main thread run.
THEOREM CallsAreNotMixedUp == Spec => []CallsPaired
<1>1. FInv => CallsPaired
  BY DEF FInv, Paired, CallsPaired
<1> QED
  BY <1>1, InitInv, StepInv, InitCausal, StepCausal, InitRecord, StepRecord, InitCalls, StepCalls,
     PTL DEF Spec
=============================================================================
