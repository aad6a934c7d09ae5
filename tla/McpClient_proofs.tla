-------------------------- MODULE McpClient_proofs --------------------------
(***************************************************************************)
(* Proofs about the stdio client, for any number of requests, any sizes of *)
(* the pipes and the queue, and any server.                                *)
(*                                                                         *)
(* NoFalseMismatch: the id of a request is at most in one place: with the  *)
(* writer, in a pipe, with the server, or in the queue (OnceInv).  As long *)
(* as the client may still take frames for a request, an id anywhere is    *)
(* the one it waits for or one it has given up (CoverInv): what it forgets *)
(* an id for has been the only answer, and every other way out of an       *)
(* operation fails the connection, has spent the budget, or has seen the   *)
(* end of the server's output.                                             *)
(*                                                                         *)
(* UpdatesKept: the output of the server is a queue, so what it sent       *)
(* before a response is taken before it (Explained), and what is taken is  *)
(* reported, skipped or kept.                                              *)
(***************************************************************************)
EXTENDS McpClient, SequenceTheorems, FiniteSetTheorems, WellFoundedInduction, TLAPS

Frames == [kind : {"call", "cancelled", "reply", "response", "update", "ask"},
           id : Nat, before : Nat]

\* The ids of the frames of a kind.
Ids(s, kind) == {i \in Nat : \E k \in 1 .. Len(s) : s[k].kind = kind /\ s[k].id = i}

\* And none of them twice.
Single(s, kind) ==
    \A i, j \in 1 .. Len(s) :
        s[i].kind = kind /\ s[j].kind = kind /\ s[i].id = s[j].id => i = j

\* What a response says was sent before it is in base, or before it in s.
Explained(s, base) ==
    \A k \in 1 .. Len(s) : s[k].kind = "response" =>
        \A u \in 1 .. s[k].before :
            u \in base \/ \E j \in 1 .. k - 1 : s[j].kind = "update" /\ s[j].id = u

-----------------------------------------------------------------------------
(* Queues of frames.                                                        *)

\* A set of numbers has a least.
LEMMA LeastOf ==
    ASSUME NEW S, S \subseteq Nat, S # {}
    PROVE  \E m \in S : \A j \in S : m <= j
<1>1. PICK x \in S : \A y \in S : <<y, x>> \notin OpToRel(<, Nat)
  BY NatLessThanWellFounded, WFMin
<1>2. \A y \in S : ~(y < x)
  BY <1>1 DEF OpToRel
<1> QED
  BY <1>2

\* The first frame leaves.
LEMMA TailIds ==
    ASSUME NEW s \in Seq(Frames), s # <<>>
    PROVE  /\ Head(s) \in Frames /\ Tail(s) \in Seq(Frames)
           /\ \A kind : Head(s).kind = kind => Head(s).id \in Ids(s, kind)
           /\ \A kind : Head(s).kind # kind => Ids(Tail(s), kind) = Ids(s, kind)
           /\ \A kind : Single(s, kind) =>
                 /\ Single(Tail(s), kind)
                 /\ Head(s).kind = kind => Ids(Tail(s), kind) = Ids(s, kind) \ {Head(s).id}
           /\ \A kind : Head(s).kind = kind =>
                 Ids(s, kind) = Ids(Tail(s), kind) \cup {Head(s).id}
           /\ \A base : Explained(s, base) =>
                 /\ Head(s).kind # "update" => Explained(Tail(s), base)
                 /\ Explained(Tail(s), base \cup {Head(s).id})
                 /\ Head(s).kind = "response" => 1 .. Head(s).before \subseteq base
<1> DEFINE h == Head(s)
           t == Tail(s)
           n == Len(s)
<1>1. /\ h = s[1] /\ h \in Frames /\ t \in Seq(Frames) /\ n \in Nat /\ n >= 1 /\ Len(t) = n - 1
      /\ \A k \in 1 .. n : s[k] \in Frames
  OBVIOUS
<1>2. \A k \in 1 .. n - 1 : t[k] = s[k + 1]
  OBVIOUS
<1> HIDE DEF h, t, n
<1>3. h.id \in Nat /\ \A k \in 1 .. n : s[k].id \in Nat /\ s[k].before \in Nat
  BY <1>1 DEF Frames
<1>4. \A kind : h.kind = kind => h.id \in Ids(s, kind)
  BY <1>1, <1>3 DEF Ids, n
<1>5. ASSUME NEW kind
      PROVE  Ids(s, kind) = Ids(t, kind) \cup (IF h.kind = kind THEN {h.id} ELSE {})
  <2>1. ASSUME NEW i \in Ids(s, kind), ~(h.kind = kind /\ i = h.id)
        PROVE  i \in Ids(t, kind)
    <3>1. PICK k \in 1 .. n : s[k].kind = kind /\ s[k].id = i
      BY <2>1 DEF Ids, n
    <3>2. k # 1
      BY <1>1, <2>1, <3>1
    <3>3. k - 1 \in 1 .. n - 1 /\ t[k - 1] = s[k]
      <4>1. k - 1 \in 1 .. n - 1 /\ (k - 1) + 1 = k
        BY <1>1, <3>2
      <4> QED
        BY <1>2, <4>1
    <3> QED
      BY <1>1, <2>1, <3>1, <3>3 DEF Ids
  <2>2. ASSUME NEW i \in Ids(t, kind) PROVE i \in Ids(s, kind)
    <3>1. PICK k \in 1 .. n - 1 : t[k].kind = kind /\ t[k].id = i
      BY <1>1, <2>2 DEF Ids
    <3>2. k + 1 \in 1 .. n /\ s[k + 1].kind = kind /\ s[k + 1].id = i
      BY <1>1, <1>2, <3>1
    <3> QED
      BY <2>2, <3>2 DEF Ids, n
  <2> QED
    BY <1>4, <2>1, <2>2
<1>6. ASSUME NEW kind, Single(s, kind)
      PROVE  /\ Single(t, kind)
             /\ h.kind = kind => h.id \notin Ids(t, kind)
  <2>1. \A i, j \in 1 .. n : s[i].kind = kind /\ s[j].kind = kind /\ s[i].id = s[j].id => i = j
    BY <1>6 DEF Single, n
  <2>2. ASSUME NEW i \in 1 .. n - 1, NEW j \in 1 .. n - 1,
               t[i].kind = kind, t[j].kind = kind, t[i].id = t[j].id
        PROVE  i = j
    <3>1. i + 1 \in 1 .. n /\ j + 1 \in 1 .. n /\ t[i] = s[i + 1] /\ t[j] = s[j + 1]
      BY <1>1, <1>2
    <3>2. i + 1 = j + 1
      BY <2>1, <2>2, <3>1
    <3> QED
      BY <3>2
  <2>3. ASSUME h.kind = kind, h.id \in Ids(t, kind) PROVE FALSE
    <3>1. PICK k \in 1 .. n - 1 : t[k].kind = kind /\ t[k].id = h.id
      BY <1>1, <2>3 DEF Ids
    <3>2. k + 1 \in 1 .. n /\ s[k + 1].kind = kind /\ s[k + 1].id = s[1].id /\ 1 \in 1 .. n
      BY <1>1, <1>2, <3>1
    <3>3. k + 1 = 1
      BY <1>1, <2>1, <2>3, <3>2
    <3> QED
      BY <3>3
  <2> QED
    BY <1>1, <2>2, <2>3 DEF Single
<1>7. ASSUME NEW base, Explained(s, base)
      PROVE  /\ h.kind # "update" => Explained(t, base)
             /\ Explained(t, base \cup {h.id})
             /\ h.kind = "response" => 1 .. h.before \subseteq base
  <2>1. ASSUME NEW k \in 1 .. n - 1, t[k].kind = "response", NEW u \in 1 .. t[k].before
        PROVE  \/ u \in base
               \/ h.kind = "update" /\ h.id = u
               \/ \E j \in 1 .. k - 1 : t[j].kind = "update" /\ t[j].id = u
    <3>1. k + 1 \in 1 .. n /\ t[k] = s[k + 1]
      BY <1>1, <1>2
    <3>2. u \in base \/ \E j \in 1 .. (k + 1) - 1 : s[j].kind = "update" /\ s[j].id = u
      BY <1>7, <2>1, <3>1 DEF Explained, n
    <3>3. ASSUME NEW j \in 1 .. (k + 1) - 1, j # 1 PROVE j - 1 \in 1 .. k - 1 /\ t[j - 1] = s[j]
      <4>1. j - 1 \in 1 .. k - 1 /\ j - 1 \in 1 .. n - 1 /\ (j - 1) + 1 = j
        BY <1>1, <3>3
      <4> QED
        BY <1>2, <4>1
    <3> QED
      BY <1>1, <3>2, <3>3
  <2>2. ASSUME h.kind = "response" PROVE 1 .. h.before \subseteq base
    <3>1. 1 \in 1 .. n /\ 1 .. 1 - 1 = {}
      BY <1>1
    <3> QED
      BY <1>1, <1>7, <2>2, <3>1 DEF Explained, n
  <2> QED
    BY <1>1, <2>1, <2>2 DEF Explained
<1> QED
  BY <1>1, <1>4, <1>5, <1>6, <1>7 DEF h, t

\* A frame is sent.
LEMMA AppendIds ==
    ASSUME NEW s \in Seq(Frames), NEW x \in Frames
    PROVE  /\ Append(s, x) \in Seq(Frames)
           /\ \A kind : Ids(Append(s, x), kind) =
                          Ids(s, kind) \cup (IF x.kind = kind THEN {x.id} ELSE {})
           /\ \A kind : Single(s, kind) /\ (x.kind = kind => x.id \notin Ids(s, kind)) =>
                          Single(Append(s, x), kind)
           /\ \A base : /\ Explained(s, base)
                        /\ x.kind = "response" => 1 .. x.before \subseteq base \cup Ids(s, "update")
                        => Explained(Append(s, x), base)
<1> DEFINE n == Len(s)
<1>1. PICK t : t = Append(s, x)
  OBVIOUS
<1>2. /\ t \in Seq(Frames) /\ n \in Nat /\ Len(t) = n + 1 /\ t[n + 1] = x
      /\ \A k \in 1 .. n : t[k] = s[k] /\ s[k] \in Frames
  BY <1>1
<1>3. x.id \in Nat /\ \A k \in 1 .. n : s[k].id \in Nat
  BY <1>2 DEF Frames
<1> HIDE DEF n
<1>4. \A k \in 1 .. n + 1 : k = n + 1 \/ k \in 1 .. n
  BY <1>2
<1>5. ASSUME NEW kind
      PROVE  Ids(t, kind) = Ids(s, kind) \cup (IF x.kind = kind THEN {x.id} ELSE {})
  <2>1. ASSUME NEW i \in Ids(t, kind), ~(x.kind = kind /\ i = x.id) PROVE i \in Ids(s, kind)
    <3>1. PICK k \in 1 .. n + 1 : t[k].kind = kind /\ t[k].id = i
      BY <1>2, <2>1 DEF Ids
    <3>2. k \in 1 .. n /\ s[k].kind = kind /\ s[k].id = i
      BY <1>2, <1>4, <2>1, <3>1
    <3> QED
      BY <2>1, <3>2 DEF Ids, n
  <2>2. ASSUME NEW i \in Ids(s, kind) PROVE i \in Ids(t, kind)
    <3>1. PICK k \in 1 .. n : s[k].kind = kind /\ s[k].id = i
      BY <2>2 DEF Ids, n
    <3>2. k \in 1 .. n + 1 /\ t[k].kind = kind /\ t[k].id = i
      BY <1>2, <3>1
    <3> QED
      BY <1>2, <2>2, <3>2 DEF Ids
  <2>3. ASSUME x.kind = kind PROVE x.id \in Ids(t, kind)
    <3>1. n + 1 \in 1 .. n + 1
      BY <1>2
    <3> QED
      BY <1>2, <1>3, <2>3, <3>1 DEF Ids
  <2> QED
    BY <2>1, <2>2, <2>3
<1>6. ASSUME NEW kind, Single(s, kind), x.kind = kind => x.id \notin Ids(s, kind)
      PROVE  Single(t, kind)
  <2>1. \A k \in 1 .. n : s[k].kind = kind => s[k].id \in Ids(s, kind)
    BY <1>3 DEF Ids, n
  <2>2. \A i, j \in 1 .. n : s[i].kind = kind /\ s[j].kind = kind /\ s[i].id = s[j].id => i = j
    BY <1>6 DEF Single, n
  <2> SUFFICES ASSUME NEW i \in 1 .. n + 1, NEW j \in 1 .. n + 1,
                      t[i].kind = kind, t[j].kind = kind, t[i].id = t[j].id
               PROVE  i = j
    BY <1>2 DEF Single
  <2> QED
    BY <1>2, <1>4, <1>6, <2>1, <2>2
<1>7. ASSUME NEW base, Explained(s, base),
             x.kind = "response" => 1 .. x.before \subseteq base \cup Ids(s, "update")
      PROVE  Explained(t, base)
  <2> SUFFICES ASSUME NEW k \in 1 .. n + 1, t[k].kind = "response", NEW u \in 1 .. t[k].before,
                      u \notin base
               PROVE  \E j \in 1 .. k - 1 : t[j].kind = "update" /\ t[j].id = u
    BY <1>2 DEF Explained
  <2>1. CASE k = n + 1
    <3>1. u \in Ids(s, "update")
      BY <1>2, <1>7, <2>1
    <3>2. PICK j \in 1 .. n : s[j].kind = "update" /\ s[j].id = u
      BY <3>1 DEF Ids, n
    <3> QED
      BY <1>2, <2>1, <3>2
  <2>2. CASE k \in 1 .. n
    <3>1. PICK j \in 1 .. k - 1 : s[j].kind = "update" /\ s[j].id = u
      BY <1>2, <1>7, <2>2 DEF Explained, n
    <3>2. j \in 1 .. n
      BY <1>2, <2>2
    <3> QED
      BY <1>2, <3>1, <3>2
  <2> QED
    BY <1>4, <2>1, <2>2
<1> QED
  BY <1>1, <1>2, <1>5, <1>6, <1>7

\* More may have been seen.
LEMMA ExplainedMore ==
    ASSUME NEW s, NEW base, NEW more, Explained(s, base), base \subseteq more
    PROVE  Explained(s, more)
  BY DEF Explained

\* A frame is taken out of the middle.
LEMMA RemovedIds ==
    ASSUME NEW s \in Seq(Frames), NEW k \in 1 .. Len(s)
    PROVE  /\ RemoveAt(s, k) \in Seq(Frames)
           /\ \A kind : s[k].kind = kind =>
                 Ids(s, kind) \subseteq Ids(RemoveAt(s, k), kind) \cup {s[k].id}
<1>1. PICK a, b : a = SubSeq(s, 1, k - 1) /\ b = SubSeq(s, k + 1, Len(s))
  OBVIOUS
<1>2. /\ a \in Seq(Frames) /\ Len(a) = k - 1 /\ \A i \in 1 .. k - 1 : a[i] = s[i]
  BY <1>1
<1>3. /\ b \in Seq(Frames) /\ Len(b) = Len(s) - k /\ \A i \in 1 .. Len(s) - k : b[i] = s[k + i]
  BY <1>1
<1>4. PICK t : t = a \o b
  OBVIOUS
<1>5. t = RemoveAt(s, k)
  BY <1>1, <1>4 DEF RemoveAt
<1>6. /\ t \in Seq(Frames) /\ Len(t) = Len(a) + Len(b)
      /\ \A i \in 1 .. Len(a) : t[i] = a[i]
      /\ \A i \in 1 .. Len(b) : t[Len(a) + i] = b[i]
  <2>1. a \in Seq(Frames) /\ b \in Seq(Frames)
    BY <1>2, <1>3
  <2> QED
    BY ONLY <1>4, <2>1
<1>7. ASSUME NEW kind, s[k].kind = kind, NEW i \in Ids(s, kind), i # s[k].id
      PROVE  i \in Ids(t, kind)
  <2>1. PICK j \in 1 .. Len(s) : s[j].kind = kind /\ s[j].id = i
    BY <1>7 DEF Ids
  <2>2. j # k
    BY <1>7, <2>1
  <2>3. CASE j < k
    <3>1. j \in 1 .. k - 1 /\ j \in 1 .. Len(a) /\ j \in 1 .. Len(t)
      BY <1>2, <1>3, <1>6, <2>3
    <3>2. t[j] = s[j]
      BY <1>2, <1>6, <3>1
    <3> QED
      BY <1>7, <2>1, <3>1, <3>2 DEF Ids
  <2>4. CASE j > k
    <3>1. j - k \in 1 .. Len(s) - k /\ j - k \in 1 .. Len(b) /\ j - 1 \in 1 .. Len(t)
          /\ Len(a) + (j - k) = j - 1 /\ k + (j - k) = j
      BY <1>2, <1>3, <1>6, <2>4
    <3>2. t[j - 1] = s[j]
      BY <1>3, <1>6, <3>1
    <3> QED
      BY <1>7, <2>1, <3>1, <3>2 DEF Ids
  <2> QED
    BY <2>2, <2>3, <2>4
<1> QED
  BY <1>5, <1>6, <1>7

\* The frame of the writer goes into the pipe.
LEMMA OneFrame ==
    ASSUME NEW s \in Seq(Frames), NEW x \in Frames
    PROVE  s \o SetToSeq({x}) = Append(s, x)
<1>1. Cardinality({x}) = 1
  BY FS_Singleton
<1>2. PICK f : f = [i \in 1 .. 1 |-> x]
  OBVIOUS
<1>3. f \in [1 .. Cardinality({x}) -> {x}] /\ IsInjective(f)
  BY <1>1, <1>2 DEF IsInjective
<1>4. SetToSeq({x}) \in [1 .. Cardinality({x}) -> {x}]
  BY <1>3 DEF SetToSeq
<1>5. PICK q : q = SetToSeq({x})
  OBVIOUS
<1>6. q \in [1 .. 1 -> {x}]
  BY <1>1, <1>4, <1>5
<1>7. q = <<x>>
  BY <1>6
<1>8. s \o <<x>> = Append(s, x)
  BY AppendIsConcat
<1> QED
  BY <1>5, <1>7, <1>8

-----------------------------------------------------------------------------
(* The types, and what the operators do to the client.                      *)

Outcomes == {"none", "exhausted", "closed", "timeout", "honored", "mismatch", "answered",
             "limit", "missed", "updated"}
Clients ==
    [pc : {"idle", "writing", "notifying", "awaiting", "waiting", "killing", "cancelling",
           "joining", "gone"},
     op : {"none", "request", "observe", "cancel", "wait"}, id : Nat, next : Nat,
     wrote : {"none", "call", "cancelled", "reply"}, failed : BOOLEAN, abandoned : SUBSET Nat,
     notifications : Seq(Frames), answered : Nat, outcome : Outcomes, before : Nat]
Writers == [pc : {"idle", "writing", "written", "ended"}, frame : SUBSET Frames,
            cancelled : BOOLEAN]

TypeInv ==
    /\ client \in Clients
    /\ clientBudget \in [requests : Nat, exhausted : BOOLEAN]
    /\ writer \in Writers
    /\ reader \in [ended : BOOLEAN, cancelled : BOOLEAN]
    /\ server \in [up : BOOLEAN, held : BOOLEAN, todo : SUBSET Nat, updates : Nat, asks : Nat]
    /\ stdin \in Seq(Frames) /\ stdout \in Seq(Frames) /\ lines \in Seq(Frames)
    /\ gone \subseteq Nat

\* An operation that may send and take frames.
Active == client.pc \in {"writing", "notifying", "awaiting"}

\* The client but for the operation it is in.
SameClient(c, d) ==
    /\ d.id = c.id /\ d.next = c.next /\ (d.failed <=> c.failed) /\ d.abandoned = c.abandoned
    /\ d.notifications = c.notifications /\ d.before = c.before

\* The frames of the protocol.
LEMMA FrameType ==
    ASSUME NEW kind \in {"call", "cancelled", "reply", "response", "update", "ask"}, NEW i \in Nat
    PROVE  /\ Frame(kind, i) \in Frames
           /\ Frame(kind, i).kind = kind /\ Frame(kind, i).id = i /\ Frame(kind, i).before = 0
  BY DEF Frame, Frames

\* An operation ends.
LEMMA EndedIs ==
    ASSUME NEW c \in Clients, NEW outcome \in Outcomes
    PROVE  /\ Ended(c, outcome) \in Clients /\ SameClient(c, Ended(c, outcome))
           /\ Ended(c, outcome).pc = "idle" /\ Ended(c, outcome).outcome = outcome
  BY DEF Ended, Clients, SameClient

\* A frame is handed to the writer, or the operation ends.
LEMMA WriteIs ==
    ASSUME TypeInv, NEW c \in Clients, NEW frame \in Frames,
           frame.kind \in {"call", "cancelled", "reply"}, Write(c, frame)
    PROVE  /\ clientBudget' \in [requests : Nat, exhausted : BOOLEAN]
           /\ clientBudget.exhausted => clientBudget'.exhausted
           /\ client' \in Clients /\ writer' \in Writers /\ SameClient(c, client')
           /\ \/ /\ writer' = writer /\ client'.pc = "idle"
                 /\ client'.outcome \in {"exhausted", "closed"}
                 /\ clientBudget'.exhausted \/ c.failed \/ writer.pc # "idle"
              \/ /\ writer.pc = "idle" /\ ~c.failed /\ ~clientBudget'.exhausted
                 /\ writer'.pc = "writing" /\ writer'.frame = {frame}
                 /\ client'.pc = "writing" /\ client'.outcome = c.outcome
<1> DEFINE call == frame.kind = "call"
           denied == clientBudget.exhausted \/ (call /\ clientBudget.requests >= MaxSent)
<1>1. /\ clientBudget' = [requests |-> clientBudget.requests + (IF call /\ ~denied THEN 1 ELSE 0),
                    exhausted |-> denied]
      /\ IF denied \/ c.failed \/ writer.pc # "idle"
         THEN client' = Ended(c, IF denied THEN "exhausted" ELSE "closed") /\ UNCHANGED writer
         ELSE /\ client' = [c EXCEPT !.pc = "writing", !.wrote = frame.kind]
              /\ writer' = [writer EXCEPT !.pc = "writing", !.frame = {frame}]
  BY Zenon DEF Write
<1>2. PICK d : d = denied
  OBVIOUS
<1>3. d \in BOOLEAN /\ (clientBudget.exhausted => d)
  <2>1. denied \in BOOLEAN /\ (clientBudget.exhausted => denied)
    BY Zenon DEF TypeInv
  <2> QED
    BY <1>2, <2>1
<1>4. clientBudget' \in [requests : Nat, exhausted : BOOLEAN] /\ (clientBudget'.exhausted <=> d)
  <2>1. PICK n \in Nat : n = clientBudget.requests + (IF call /\ ~denied THEN 1 ELSE 0)
    <3>1. clientBudget.requests \in Nat
      BY DEF TypeInv
    <3> QED
      BY <3>1
  <2>2. clientBudget' = [requests |-> n, exhausted |-> d]
    BY <1>1, <1>2, <2>1, Zenon
  <2> QED
    BY <1>3, <2>2
<1>5. CASE d \/ c.failed \/ writer.pc # "idle"
  <2>1. PICK o \in {"exhausted", "closed"} : client' = Ended(c, o)
    BY <1>1, <1>2, <1>5, Zenon
  <2>2. writer' = writer /\ writer \in Writers
    BY <1>1, <1>2, <1>5 DEF TypeInv
  <2> QED
    BY <1>3, <1>4, <1>5, <2>1, <2>2, EndedIs DEF Outcomes
<1>6. CASE ~(d \/ c.failed \/ writer.pc # "idle")
  <2>1. client' = [c EXCEPT !.pc = "writing", !.wrote = frame.kind]
    BY <1>1, <1>2, <1>6, Zenon
  <2>2. writer' = [writer EXCEPT !.pc = "writing", !.frame = {frame}] /\ writer \in Writers
    BY <1>1, <1>2, <1>6, Zenon DEF TypeInv
  <2>3. client' \in Clients /\ SameClient(c, client') /\ client'.pc = "writing" /\ client'.outcome = c.outcome
    BY <2>1 DEF Clients, SameClient
  <2>4. writer' \in Writers /\ writer'.pc = "writing" /\ writer'.frame = {frame}
    BY <2>2 DEF Writers
  <2> QED
    BY <1>3, <1>4, <1>6, <2>3, <2>4
<1> QED
  BY <1>5, <1>6

\* A notification is kept, or the connection fails.
LEMMA RememberIs ==
    ASSUME NEW c \in Clients, NEW frame \in Frames, NEW outcome \in Outcomes
    PROVE  LET d == Remember(c, frame, outcome)
           IN  /\ d \in Clients /\ d.id = c.id /\ d.next = c.next /\ d.abandoned = c.abandoned
               /\ d.before = c.before
               /\ \/ /\ d.pc = "idle" /\ d.failed /\ d.outcome = outcome
                     /\ d.notifications = c.notifications
                  \/ /\ d.pc = c.pc /\ d.outcome = c.outcome /\ (d.failed <=> c.failed)
                     /\ d.notifications = Append(c.notifications, frame)
<1>1. PICK d : d = Remember(c, frame, outcome)
  OBVIOUS
<1>2. CASE d = Ended([c EXCEPT !.failed = TRUE], outcome)
  <2>1. PICK e : e = [c EXCEPT !.failed = TRUE]
    OBVIOUS
  <2>2. /\ e \in Clients /\ e.failed /\ e.id = c.id /\ e.next = c.next /\ e.abandoned = c.abandoned
        /\ e.before = c.before /\ e.notifications = c.notifications
    BY <2>1 DEF Clients
  <2>3. d = Ended(e, outcome)
    BY <1>2, <2>1
  <2> QED
    BY <1>1, <2>2, <2>3, EndedIs DEF SameClient
<1>3. CASE d = [c EXCEPT !.notifications = Append(@, frame)]
  <2>1. Append(c.notifications, frame) \in Seq(Frames)
    BY DEF Clients
  <2>2. /\ d \in Clients /\ d.id = c.id /\ d.next = c.next /\ d.abandoned = c.abandoned
        /\ d.before = c.before /\ d.pc = c.pc /\ d.outcome = c.outcome /\ d.failed = c.failed
        /\ d.notifications = Append(c.notifications, frame)
    BY <1>3, <2>1 DEF Clients
  <2> QED
    BY <1>1, <2>2
<1> QED
  BY <1>1, <1>2, <1>3 DEF Remember

-----------------------------------------------------------------------------
(* The inductive invariant.                                                 *)

\* The ids of requests: with the writer, and anywhere.
InWriter ==
    {i \in Nat : writer.pc = "writing" /\ \E f \in writer.frame : f.kind = "call" /\ f.id = i}
Outstanding ==
    InWriter \cup Ids(stdin, "call") \cup server.todo \cup Ids(stdout, "response")
             \cup Ids(lines, "response")

\* Each is in one place.
OnceInv ==
    /\ InWriter \cap (Ids(stdin, "call") \cup server.todo \cup Ids(stdout, "response")
                                         \cup Ids(lines, "response")) = {}
    /\ Ids(stdin, "call") \cap (server.todo \cup Ids(stdout, "response") \cup Ids(lines, "response")) = {}
    /\ server.todo \cap (Ids(stdout, "response") \cup Ids(lines, "response")) = {}
    /\ Ids(stdout, "response") \cap Ids(lines, "response") = {}
    /\ Single(stdin, "call") /\ Single(stdout, "response") /\ Single(lines, "response")

\* The next request has an id that has not been used.
FreshInv ==
    /\ \A i \in Outstanding \cup client.abandoned : i < client.next
    /\ client.id < client.next
    /\ Active => client.id \notin client.abandoned

\* The writer has one frame at a time, and none while the client waits for
\* another one; a server that has asked nothing is not heard to ask.
WriterInv ==
    /\ writer.pc = "writing" => \E f \in Frames : writer.frame = {f}
    /\ client.pc \in {"notifying", "awaiting"} => writer.pc = "idle"
    /\ client.failed => ~Active
    /\ server.asks = 0 => Ids(stdout, "ask") = {} /\ Ids(lines, "ask") = {}

\* What may still be answered is waited for, or has been given up.
Covered == Outstanding \subseteq client.abandoned \cup (IF Active THEN {client.id} ELSE {})
CoverInv ==
    \/ server.asks > 0
    \/ reader.ended /\ lines = <<>>
    \/ (client.failed \/ clientBudget.exhausted) /\ ~Active
    \/ Covered

MatchInv == TypeInv /\ OnceInv /\ FreshInv /\ WriterInv /\ CoverInv /\ NoFalseMismatch

\* What has been taken and is not lost.
Got == gone \cup Ids(client.notifications, "update")
UpdateInv ==
    /\ client.pc = "waiting" => Ids(client.notifications, "update") = {}
    /\ ~client.failed =>
          /\ 1 .. client.before \subseteq Got
          /\ Explained(lines, Got)
          /\ ~reader.ended =>
                /\ Explained(stdout, Got \cup Ids(lines, "update"))
                /\ 1 .. server.updates \subseteq
                      Got \cup Ids(lines, "update") \cup Ids(stdout, "update")

ClientInv == MatchInv /\ UpdateInv

\* What UpdatesKept says of a step.
Missed ==
    client' # client /\ client'.pc = "idle" /\ client'.outcome = "missed" =>
        client'.failed \/ 1 .. client.before \subseteq gone

\* A step of the client that sends nothing: no id is added, and one that is
\* still outstanding is neither forgotten nor left behind.
LEMMA MatchMoves ==
    ASSUME MatchInv, TypeInv',
           InWriter' \subseteq InWriter, server'.todo \subseteq server.todo,
           stdin' = stdin, stdout' = stdout, server'.asks = server.asks,
           Single(lines', "response"), Ids(lines', "response") \subseteq Ids(lines, "response"),
           Ids(lines', "ask") \subseteq Ids(lines, "ask"),
           reader.ended /\ lines = <<>> => reader'.ended /\ lines' = <<>>,
           clientBudget.exhausted => clientBudget'.exhausted, client.failed => client'.failed,
           client'.id = client.id, client'.next = client.next,
           client'.abandoned \subseteq client.abandoned \cup {client.id},
           Active' => Active /\ ~client'.failed /\ client.id \notin client'.abandoned,
           client'.pc \in {"notifying", "awaiting"} => writer'.pc = "idle",
           writer'.pc = "writing" => writer.pc = "writing" /\ writer'.frame = writer.frame,
           client'.outcome = "mismatch" => client.outcome = "mismatch" \/ server.asks > 0,
           server.asks > 0 \/ client.abandoned \cap Outstanding' \subseteq client'.abandoned,
           Active /\ ~Active' => \/ client'.failed \/ clientBudget'.exhausted
                                 \/ reader'.ended /\ lines' = <<>>
                                 \/ server.asks > 0
                                 \/ client.id \notin Outstanding' \/ client.id \in client'.abandoned
    PROVE  MatchInv'
<1> USE DEF MatchInv
<1>1. Outstanding' \subseteq Outstanding
  BY DEF Outstanding
<1>2. OnceInv'
  BY DEF OnceInv
<1>3. FreshInv'
  BY <1>1 DEF FreshInv
<1>4. WriterInv'
  BY DEF WriterInv
<1>5. CoverInv'
  <2>1. CASE server.asks > 0 \/ (reader.ended /\ lines = <<>>)
    BY <2>1 DEF CoverInv
  <2>2. CASE (client.failed \/ clientBudget.exhausted) /\ ~Active
    BY <2>2 DEF CoverInv
  <2>3. CASE Covered /\ ~(server.asks > 0)
    <3>1. Outstanding' \subseteq client'.abandoned \cup (IF Active THEN {client.id} ELSE {})
      BY <1>1, <2>3 DEF Covered
    <3>2. CASE Active'
      BY <3>1, <3>2 DEF Covered, CoverInv
    <3>3. CASE ~Active'
      BY <3>1, <3>3 DEF Covered, CoverInv
    <3> QED
      BY <3>2, <3>3
  <2> QED
    BY <2>1, <2>2, <2>3 DEF CoverInv
<1>6. NoFalseMismatch'
  BY DEF NoFalseMismatch
<1> QED
  BY <1>2, <1>3, <1>4, <1>5, <1>6

\* A step of the client that takes at most one frame.
LEMMA UpdateMoves ==
    ASSUME TypeInv, UpdateInv,
           Got \subseteq Got', client.failed => client'.failed, reader.ended => reader'.ended,
           server'.updates = server.updates, stdout' = stdout,
           client'.before = client.before \/ 1 .. client'.before \subseteq Got,
           \/ lines' = lines
           \/ /\ lines # <<>> /\ lines' = Tail(lines)
              /\ Head(lines).kind = "update" => Head(lines).id \in Got' \/ client'.failed,
           client'.pc = "waiting" => Ids(client'.notifications, "update") = {}
    PROVE  UpdateInv'
<1> SUFFICES ASSUME ~client'.failed
             PROVE  /\ 1 .. client'.before \subseteq Got'
                    /\ Explained(lines', Got')
                    /\ ~reader'.ended =>
                          /\ Explained(stdout', Got' \cup Ids(lines', "update"))
                          /\ 1 .. server'.updates \subseteq
                                Got' \cup Ids(lines', "update") \cup Ids(stdout', "update")
  BY DEF UpdateInv
<1>1. /\ 1 .. client.before \subseteq Got /\ Explained(lines, Got)
      /\ ~reader.ended =>
            /\ Explained(stdout, Got \cup Ids(lines, "update"))
            /\ 1 .. server.updates \subseteq Got \cup Ids(lines, "update") \cup Ids(stdout, "update")
  BY DEF UpdateInv
<1>2. Explained(lines', Got') /\ Ids(lines, "update") \subseteq Got' \cup Ids(lines', "update")
  <2>1. CASE lines' = lines
    BY <1>1, <2>1, ExplainedMore
  <2>2. CASE lines # <<>> /\ lines' = Tail(lines) /\ Head(lines).kind = "update"
    <3>1. Head(lines).id \in Got'
      BY <2>2
    <3>2. Explained(Tail(lines), Got \cup {Head(lines).id})
          /\ Ids(lines, "update") = Ids(Tail(lines), "update") \cup {Head(lines).id}
      BY <1>1, <2>2, TailIds DEF TypeInv
    <3> QED
      BY <2>2, <3>1, <3>2, ExplainedMore
  <2>3. CASE lines # <<>> /\ lines' = Tail(lines) /\ Head(lines).kind # "update"
    <3>1. Explained(Tail(lines), Got) /\ Ids(Tail(lines), "update") = Ids(lines, "update")
      BY <1>1, <2>3, TailIds DEF TypeInv
    <3> QED
      BY <2>3, <3>1, ExplainedMore
  <2> QED
    BY <2>1, <2>2, <2>3
<1>3. ~reader'.ended => Explained(stdout', Got' \cup Ids(lines', "update"))
  BY <1>1, <1>2, ExplainedMore
<1> QED
  BY <1>1, <1>2, <1>3

-----------------------------------------------------------------------------
(* The steps of the client that leave the queues alone.                     *)

\* What they leave alone, and what remains to be shown of them.
LEMMA QuietMoves ==
    ASSUME ClientInv, TypeInv',
           UNCHANGED <<stdin, stdout, lines, clientBudget>>,
           server'.todo \subseteq server.todo, server'.asks = server.asks,
           server'.updates = server.updates, (reader'.ended <=> reader.ended),
           \/ writer'.pc # "writing"
           \/ writer.pc = "writing" /\ writer'.pc = "writing" /\ writer'.frame = writer.frame,
           client'.id = client.id, client'.next = client.next, client'.before = client.before,
           Got \subseteq Got', client.failed => client'.failed,
           client'.pc = "waiting" => Ids(client'.notifications, "update") = {},
           client.abandoned \subseteq client'.abandoned,
           client'.abandoned \subseteq client.abandoned \cup {client.id},
           Active' => Active /\ ~client'.failed /\ client'.abandoned = client.abandoned,
           client'.pc \in {"notifying", "awaiting"} => writer'.pc = "idle",
           client'.outcome = "mismatch" => client.outcome = "mismatch",
           Active /\ ~Active' => \/ client'.failed \/ clientBudget.exhausted
                                 \/ reader.ended /\ lines = <<>>
                                 \/ client.id \in client'.abandoned
    PROVE  ClientInv'
<1> USE DEF ClientInv
<1>1. InWriter' \subseteq InWriter
  BY DEF InWriter
<1>2. client.id \notin client'.abandoned \/ ~Active'
  BY DEF MatchInv, FreshInv
<1>3. /\ Single(lines', "response") /\ Ids(lines', "response") \subseteq Ids(lines, "response")
      /\ Ids(lines', "ask") \subseteq Ids(lines, "ask")
  BY DEF MatchInv, OnceInv
<1>4. clientBudget'.exhausted = clientBudget.exhausted /\ (reader.ended /\ lines = <<>> => reader'.ended /\ lines' = <<>>)
  OBVIOUS
<1>5. MatchInv'
  BY <1>1, <1>2, <1>3, <1>4, MatchMoves
<1>6. UpdateInv'
  BY UpdateMoves DEF MatchInv
<1> QED
  BY <1>5, <1>6

\* The report of the writer is taken.
LEMMA WrittenKeeps == ASSUME ClientInv, Written PROVE ClientInv' /\ Missed
<1>1. TypeInv /\ client \in Clients /\ writer \in Writers
  BY DEF ClientInv, MatchInv, TypeInv
<1>2. /\ client.pc = "writing" /\ client' = AfterWrite(client)
      /\ writer' = [writer EXCEPT !.pc = "idle", !.frame = {}]
      /\ UNCHANGED <<clientBudget, stdin, stdout, server, reader, lines, gone>>
  BY DEF Written, pipes
<1>3. /\ client' \in Clients /\ SameClient(client, client')
      /\ \/ client'.pc \in {"notifying", "awaiting"} /\ client'.outcome = client.outcome
         \/ client'.pc = "idle" /\ client'.outcome = "exhausted" /\ clientBudget.exhausted
  <2>1. \/ client' = [client EXCEPT !.pc = "notifying"]
        \/ client' = Ended(client, "exhausted") /\ clientBudget.exhausted
        \/ client' = [client EXCEPT !.pc = "awaiting"]
    BY <1>2 DEF AfterWrite
  <2>2. CASE client' = [client EXCEPT !.pc = "notifying"]
    BY <1>1, <2>2 DEF Clients, SameClient
  <2>3. CASE client' = [client EXCEPT !.pc = "awaiting"]
    BY <1>1, <2>3 DEF Clients, SameClient
  <2>4. CASE client' = Ended(client, "exhausted") /\ clientBudget.exhausted
    BY <1>1, <2>4, EndedIs DEF Outcomes
  <2> QED
    BY <2>1, <2>2, <2>3, <2>4
<1>4. writer' \in Writers /\ writer'.pc = "idle"
  BY <1>1, <1>2 DEF Writers
<1>5. TypeInv'
  BY <1>1, <1>2, <1>3, <1>4 DEF TypeInv
<1>6. ~client.failed /\ Active
  BY <1>2 DEF ClientInv, MatchInv, WriterInv, Active
<1>7. Got' = Got
  BY <1>2, <1>3 DEF Got, SameClient
<1>8. ClientInv'
  BY <1>2, <1>3, <1>4, <1>5, <1>6, <1>7, QuietMoves DEF SameClient, Active
<1> QED
  BY <1>3, <1>8 DEF Missed

\* A frame cannot be written, or not in time: the connection has failed.
LEMMA WriteFailsKeeps == ASSUME ClientInv, WriteFails \/ WriteTimesOut PROVE ClientInv' /\ Missed
<1>1. TypeInv /\ client \in Clients
  BY DEF ClientInv, MatchInv, TypeInv
<1>2. PICK o \in {"closed", "exhausted", "timeout"} :
         client' = Ended([client EXCEPT !.failed = TRUE], o)
  BY DEF WriteFails, WriteTimesOut, TimedOut
<1>3. UNCHANGED <<clientBudget, writer, stdin, stdout, server, reader, lines, gone>>
  BY DEF WriteFails, WriteTimesOut, clientThreads, pipes
<1>4. PICK c : c = [client EXCEPT !.failed = TRUE]
  OBVIOUS
<1>5. /\ c \in Clients /\ c.failed /\ c.id = client.id /\ c.next = client.next
      /\ c.abandoned = client.abandoned /\ c.notifications = client.notifications
      /\ c.before = client.before
  BY <1>1, <1>4 DEF Clients
<1>6. /\ client' \in Clients /\ SameClient(c, client') /\ client'.pc = "idle" /\ client'.outcome = o
  BY <1>2, <1>4, <1>5, EndedIs DEF Outcomes
<1>7. TypeInv'
  BY <1>1, <1>3, <1>6 DEF TypeInv
<1>8. Got' = Got
  BY <1>3, <1>5, <1>6 DEF Got, SameClient
<1>9. ClientInv'
  BY <1>3, <1>5, <1>6, <1>7, <1>8, QuietMoves DEF SameClient, Active
<1> QED
  BY <1>2, <1>6, <1>9 DEF Missed

\* The deadline: the request is given up, or the budget is spent.
LEMMA TimesOutKeeps == ASSUME ClientInv, TimesOut PROVE ClientInv' /\ Missed
<1>1. TypeInv /\ client \in Clients
  BY DEF ClientInv, MatchInv, TypeInv
<1>2. /\ client.pc = "awaiting"
      /\ client' = IF clientBudget.exhausted /\ client.op = "cancel" THEN Ended(client, "exhausted")
                   ELSE Abandon(client)
      /\ UNCHANGED <<clientBudget, writer, stdin, stdout, server, reader, lines, gone>>
  BY DEF TimesOut, clientThreads, pipes
<1>3. /\ client' \in Clients /\ client'.id = client.id /\ client'.next = client.next
      /\ (client'.failed <=> client.failed)
      /\ client'.notifications = client.notifications /\ client'.before = client.before
      /\ client'.pc = "idle" /\ client'.outcome \in {"exhausted", "timeout", "honored"}
      /\ \/ client'.abandoned = client.abandoned /\ clientBudget.exhausted
         \/ client'.abandoned = client.abandoned \cup {client.id}
  <2>1. CASE client' = Ended(client, "exhausted") /\ clientBudget.exhausted
    BY <1>1, <2>1, EndedIs DEF Outcomes, SameClient
  <2>2. CASE client' = Abandon(client)
    <3>1. PICK o \in {"exhausted", "timeout", "honored"} : GiveUp(client) = Ended(client, o)
      BY DEF GiveUp, TimedOut
    <3>2. PICK c : c = Ended(client, o)
      OBVIOUS
    <3>3. /\ c \in Clients /\ SameClient(client, c) /\ c.pc = "idle" /\ c.outcome = o
      BY <1>1, <3>2, EndedIs DEF Outcomes
    <3>4. client' = [c EXCEPT !.abandoned = @ \cup {client.id}]
      BY <2>2, <3>1, <3>2, <3>3 DEF Abandon
    <3>5. client.id \in Nat
      BY <1>1 DEF Clients
    <3> QED
      BY <3>3, <3>4, <3>5 DEF Clients, SameClient
  <2> QED
    BY <1>2, <2>1, <2>2
<1>4. TypeInv'
  BY <1>1, <1>2, <1>3 DEF TypeInv
<1>5. Got' = Got
  BY <1>2, <1>3 DEF Got
<1>6. Active /\ ~Active'
  BY <1>2, <1>3 DEF Active
<1>7. ClientInv'
  BY <1>2, <1>3, <1>4, <1>5, <1>6, QuietMoves
<1> QED
  BY <1>3, <1>7 DEF Missed

\* While the client waits for an update, it has kept none.
LEMMA WaitingMissed ==
    ASSUME ClientInv, client.pc = "waiting" PROVE client.failed \/ 1 .. client.before \subseteq gone
  BY DEF ClientInv, UpdateInv, Got

\* The output of the server has ended, or the wait has.
LEMMA ClosedKeeps == ASSUME ClientInv, Closed \/ WaitTimesOut PROVE ClientInv' /\ Missed
<1>1. TypeInv /\ client \in Clients
  BY DEF ClientInv, MatchInv, TypeInv
<1>2. /\ UNCHANGED <<clientBudget, writer, stdin, stdout, server, reader, lines, gone>>
      /\ \/ client.pc = "awaiting" /\ client' = Ended(client, "closed") /\ lines = <<>> /\ reader.ended
         \/ client.pc = "waiting" /\ client' = Ended(client, "missed")
  BY DEF Closed, WaitTimesOut, clientThreads, pipes
<1>3. /\ client' \in Clients /\ SameClient(client, client') /\ client'.pc = "idle"
      /\ \/ client.pc = "awaiting" /\ client'.outcome = "closed" /\ lines = <<>> /\ reader.ended
         \/ client.pc = "waiting" /\ client'.outcome = "missed"
  BY <1>1, <1>2, EndedIs DEF Outcomes
<1>4. TypeInv'
  BY <1>1, <1>2, <1>3 DEF TypeInv
<1>5. Got' = Got
  BY <1>2, <1>3 DEF Got, SameClient
<1>6. Active => lines = <<>> /\ reader.ended
  BY <1>3 DEF Active
<1>7. ClientInv'
  BY <1>2, <1>3, <1>4, <1>5, <1>6, QuietMoves DEF SameClient, Active
<1> QED
  BY <1>3, <1>7, WaitingMissed DEF Missed, SameClient

\* A wait begins with what was kept.
LEMMA BeginWaitKeeps == ASSUME ClientInv, BeginWait PROVE ClientInv' /\ Missed
<1>1. TypeInv /\ client \in Clients /\ client.notifications \in Seq(Frames)
  BY DEF ClientInv, MatchInv, TypeInv, Clients
<1>2. PICK c : c = [client EXCEPT !.op = "wait", !.outcome = "none"]
  OBVIOUS
<1>3. c \in Clients /\ SameClient(client, c) /\ c.pc = client.pc /\ c.outcome = "none"
  BY <1>1, <1>2 DEF Clients, SameClient, Outcomes
<1>4. /\ client.pc = "idle" /\ UNCHANGED <<clientBudget, writer, stdin, stdout, server, reader, lines>>
      /\ LET k == First(Buffered)
         IN  IF Buffered # {}
             THEN /\ client' = Ended([c EXCEPT !.notifications = RemoveAt(@, k)], "updated")
                  /\ gone' = gone \cup {client.notifications[k].id}
             ELSE /\ client' = IF clientBudget.exhausted THEN Ended(c, "missed")
                               ELSE [c EXCEPT !.pc = "waiting"]
                  /\ UNCHANGED gone
  BY <1>2 DEF BeginWait, clientThreads, pipes
<1>5. /\ client' \in Clients /\ client'.id = client.id /\ client'.next = client.next
      /\ (client'.failed <=> client.failed) /\ client'.abandoned = client.abandoned
      /\ client'.before = client.before /\ gone' \subseteq Nat
      /\ Got \subseteq Got' /\ ~Active' /\ client'.outcome # "mismatch"
      /\ client'.pc = "waiting" => Ids(client'.notifications, "update") = {}
      /\ client'.outcome = "missed" => Ids(client.notifications, "update") = {}
  <2>1. CASE Buffered # {}
    <3>1. PICK k : k = First(Buffered)
      OBVIOUS
    <3>2. k \in 1 .. Len(client.notifications) /\ client.notifications[k].kind = "update"
      <4>1. Buffered \subseteq Nat
        BY <1>1 DEF Buffered
      <4>2. PICK m \in Buffered : \A j \in Buffered : m <= j
        BY <2>1, <4>1, LeastOf
      <4>3. k \in Buffered
        BY <3>1, <4>2 DEF First
      <4> QED
        BY <1>1, <4>3 DEF Buffered
    <3>3. PICK n : n = RemoveAt(client.notifications, k)
      OBVIOUS
    <3>4. n \in Seq(Frames)
          /\ Ids(client.notifications, "update") \subseteq Ids(n, "update") \cup {client.notifications[k].id}
      BY <1>1, <3>2, <3>3, RemovedIds
    <3>5. PICK d : d = [c EXCEPT !.notifications = n]
      OBVIOUS
    <3>6. /\ d \in Clients /\ d.id = c.id /\ d.next = c.next /\ d.failed = c.failed
          /\ d.abandoned = c.abandoned /\ d.before = c.before /\ d.notifications = n
      BY <1>3, <3>4, <3>5 DEF Clients
    <3>7. client' = Ended(d, "updated") /\ gone' = gone \cup {client.notifications[k].id}
      BY <1>3, <1>4, <2>1, <3>1, <3>3, <3>5 DEF SameClient
    <3>8. client' \in Clients /\ SameClient(d, client') /\ client'.pc = "idle" /\ client'.outcome = "updated"
      BY <3>6, <3>7, EndedIs DEF Outcomes
    <3>9. client.notifications[k].id \in Nat
      <4>1. client.notifications[k] \in Frames
        BY <1>1, <3>2
      <4> QED
        BY <4>1 DEF Frames
    <3>10. Got \subseteq Got'
      BY <3>4, <3>6, <3>7, <3>8 DEF Got, SameClient
    <3> QED
      BY <1>1, <1>3, <3>6, <3>7, <3>8, <3>9, <3>10 DEF SameClient, TypeInv, Active
  <2>2. CASE Buffered = {}
    <3>1. Ids(client.notifications, "update") = {}
      BY <1>1, <2>2 DEF Buffered, Ids
    <3>2. /\ client' \in Clients /\ SameClient(c, client') /\ gone' = gone
          /\ client'.pc \in {"idle", "waiting"} /\ client'.outcome \in {"missed", "none"}
      <4>1. CASE client' = Ended(c, "missed")
        BY <1>3, <1>4, <2>2, <4>1, EndedIs DEF Outcomes
      <4>2. CASE client' = [c EXCEPT !.pc = "waiting"]
        BY <1>3, <1>4, <2>2, <4>2 DEF Clients, SameClient
      <4> QED
        BY <1>4, <2>2, <4>1, <4>2
    <3>3. Got' = Got
      BY <1>3, <3>2 DEF Got, SameClient
    <3> QED
      BY <1>1, <1>3, <3>1, <3>2, <3>3 DEF SameClient, TypeInv, Active
  <2> QED
    BY <2>1, <2>2
<1>6. TypeInv'
  BY <1>1, <1>4, <1>5 DEF TypeInv
<1>7. ~Active
  BY <1>4 DEF Active
<1>8. client'.pc \notin {"notifying", "awaiting"}
  BY <1>5 DEF Active
<1>9. ClientInv'
  BY <1>4, <1>5, <1>6, <1>7, <1>8, QuietMoves DEF ClientInv, MatchInv, WriterInv
<1> QED
  BY <1>5, <1>9 DEF Missed, ClientInv, UpdateInv, Got

\* Drop: the client sends and takes nothing any more.
LEMMA DropKeeps == ASSUME ClientInv, BeginDrop \/ Kill \/ Cancel \/ JoinThreads PROVE ClientInv' /\ Missed
<1>1. TypeInv /\ client \in Clients /\ writer \in Writers
  BY DEF ClientInv, MatchInv, TypeInv
<1>2. PICK at \in {"killing", "cancelling", "joining", "gone"} : client' = [client EXCEPT !.pc = at]
  BY DEF BeginDrop, Kill, Cancel, JoinThreads
<1>3. ~Active /\ client.pc # "waiting"
  BY DEF BeginDrop, Kill, Cancel, JoinThreads, Active
<1>4. /\ client' \in Clients /\ SameClient(client, client') /\ client'.pc = at
      /\ client'.outcome = client.outcome
  BY <1>1, <1>2 DEF Clients, SameClient
<1>5. UNCHANGED <<clientBudget, stdin, stdout, lines, gone>>
  BY DEF BeginDrop, Kill, Cancel, JoinThreads, pipes
<1>6. /\ writer' \in Writers /\ writer'.pc = writer.pc /\ writer'.frame = writer.frame
      /\ reader' \in [ended : BOOLEAN, cancelled : BOOLEAN] /\ (reader'.ended <=> reader.ended)
  <2>1. CASE BeginDrop \/ Kill \/ JoinThreads
    BY <1>1, <2>1 DEF BeginDrop, Kill, JoinThreads, clientThreads, TypeInv
  <2>2. CASE Cancel
    BY <1>1, <2>2 DEF Cancel, CancelThreads, TypeInv, Writers
  <2> QED
    BY <2>1, <2>2
<1>7. /\ server' \in [up : BOOLEAN, held : BOOLEAN, todo : SUBSET Nat, updates : Nat, asks : Nat]
      /\ server'.todo \subseteq server.todo /\ server'.asks = server.asks
      /\ server'.updates = server.updates
  <2>1. CASE server' = server
    BY <1>1, <2>1 DEF TypeInv
  <2>2. CASE Ends
    BY <1>1, <2>2 DEF Ends, TypeInv
  <2> QED
    BY <2>1, <2>2 DEF BeginDrop, Kill, Cancel, JoinThreads
<1>8. TypeInv'
  BY <1>1, <1>4, <1>5, <1>6, <1>7 DEF TypeInv
<1>9. Got' = Got
  BY <1>4, <1>5 DEF Got, SameClient
<1>10. ClientInv'
  BY <1>3, <1>4, <1>5, <1>6, <1>7, <1>8, <1>9, QuietMoves DEF SameClient, Active
<1> QED
  BY <1>4, <1>10 DEF Missed

-----------------------------------------------------------------------------
(* The steps that hand a frame to the writer.                               *)

\* A request begins: its id is new.
LEMMA BeginKeeps == ASSUME ClientInv, NEW op \in {"request", "observe", "cancel"}, Begin(op)
                    PROVE  ClientInv' /\ Missed
<1>1. TypeInv /\ client \in Clients /\ client.id \in Nat /\ client.next \in Nat
  BY DEF ClientInv, MatchInv, TypeInv, Clients
<1>2. PICK c : c = [client EXCEPT !.op = op, !.id = client.next, !.next = @ + 1, !.outcome = "none"]
  OBVIOUS
<1>3. /\ c \in Clients /\ c.id = client.next /\ c.next = client.next + 1 /\ c.failed = client.failed
      /\ c.abandoned = client.abandoned /\ c.notifications = client.notifications
      /\ c.before = client.before /\ c.outcome = "none"
  <2>1. PICK n \in Nat : n = client.next + 1
    BY <1>1
  <2>2. c = [client EXCEPT !.op = op, !.id = client.next, !.next = n, !.outcome = "none"]
    BY <1>1, <1>2, <2>1 DEF Clients
  <2>3. "none" \in Outcomes
    BY DEF Outcomes
  <2> QED
    BY <1>1, <2>1, <2>2, <2>3 DEF Clients
<1>4. PICK f : f = Frame("call", c.id)
  OBVIOUS
<1>5. f \in Frames /\ f.kind = "call" /\ f.id = client.next
  BY <1>1, <1>3, <1>4, FrameType
<1>6. /\ client.pc = "idle" /\ Write(c, f)
      /\ UNCHANGED <<stdin, stdout, server, reader, lines, gone>>
  BY <1>2, <1>4 DEF Begin, pipes
<1>7. /\ clientBudget' \in [requests : Nat, exhausted : BOOLEAN]
      /\ clientBudget.exhausted => clientBudget'.exhausted
      /\ client' \in Clients /\ writer' \in Writers /\ SameClient(c, client')
      /\ \/ /\ writer' = writer /\ client'.pc = "idle"
            /\ client'.outcome \in {"exhausted", "closed"}
         \/ /\ writer.pc = "idle" /\ ~c.failed /\ ~clientBudget'.exhausted
            /\ writer'.pc = "writing" /\ writer'.frame = {f}
            /\ client'.pc = "writing" /\ client'.outcome = c.outcome
  BY <1>1, <1>3, <1>5, <1>6, WriteIs
<1>8. TypeInv'
  BY <1>1, <1>6, <1>7 DEF TypeInv
<1>9. Got' = Got
  BY <1>3, <1>6, <1>7 DEF Got, SameClient
<1>10. UpdateInv'
  BY <1>1, <1>3, <1>6, <1>7, <1>9, UpdateMoves DEF ClientInv, SameClient
<1>11. ~Active
  BY <1>6 DEF Active
<1>12. CASE writer' = writer /\ client'.pc = "idle" /\ client'.outcome \in {"exhausted", "closed"}
  <2>1. InWriter' = InWriter /\ Outstanding' = Outstanding
    BY <1>6, <1>12 DEF InWriter, Outstanding
  <2>2. OnceInv'
    BY <1>6, <2>1 DEF ClientInv, MatchInv, OnceInv
  <2>3. ~Active' /\ client'.abandoned = client.abandoned /\ client'.next = client.next + 1
        /\ client'.id = client.next /\ (client'.failed <=> client.failed)
    BY <1>3, <1>7, <1>12 DEF Active, SameClient
  <2>4. FreshInv'
    <3>1. \A i \in Outstanding \cup client.abandoned : i \in Nat
      BY <1>1 DEF Outstanding, InWriter, Ids, TypeInv, Clients
    <3>2. \A i \in Outstanding \cup client.abandoned : i < client.next
      BY DEF ClientInv, MatchInv, FreshInv
    <3> HIDE DEF Outstanding
    <3>3. \A i \in Outstanding \cup client.abandoned : i < client.next + 1
      BY <1>1, <3>1, <3>2
    <3> QED
      BY <1>1, <2>1, <2>3, <3>3 DEF FreshInv
  <2>5. WriterInv'
    BY <1>6, <1>12, <2>3 DEF ClientInv, MatchInv, WriterInv
  <2>6. CoverInv'
    BY <1>6, <1>7, <1>11, <2>1, <2>3 DEF ClientInv, MatchInv, CoverInv, Covered
  <2>7. NoFalseMismatch'
    BY <1>12 DEF NoFalseMismatch
  <2> QED
    BY <1>7, <1>8, <1>10, <1>12, <2>2, <2>4, <2>5, <2>6, <2>7 DEF ClientInv, MatchInv, Missed
<1>13. CASE /\ writer.pc = "idle" /\ ~c.failed /\ ~clientBudget'.exhausted
            /\ writer'.pc = "writing" /\ writer'.frame = {f}
            /\ client'.pc = "writing" /\ client'.outcome = c.outcome
  <2>1. InWriter = {} /\ InWriter' = {client.next}
    BY <1>1, <1>5, <1>13 DEF InWriter
  <2>2. Outstanding' = Outstanding \cup {client.next}
    BY <1>6, <2>1 DEF Outstanding
  <2>3. \A i \in Outstanding \cup client.abandoned : i \in Nat /\ i < client.next
    BY <1>1 DEF Outstanding, InWriter, Ids, TypeInv, Clients, ClientInv, MatchInv, FreshInv
  <2>4. client.next \notin Outstanding \cup client.abandoned
    BY <1>1, <2>3
  <2>5. OnceInv'
    BY <1>6, <2>1, <2>4 DEF ClientInv, MatchInv, OnceInv, Outstanding
  <2>6. Active' /\ client'.abandoned = client.abandoned /\ client'.next = client.next + 1
        /\ client'.id = client.next /\ ~client'.failed
    BY <1>3, <1>7, <1>13 DEF Active, SameClient
  <2>7. FreshInv'
    <3>1. \A i \in Outstanding \cup {client.next} \cup client.abandoned : i < client.next + 1
      BY <1>1, <2>3
    <3> QED
      BY <1>1, <2>2, <2>4, <2>6, <3>1 DEF FreshInv
  <2>8. WriterInv'
    BY <1>5, <1>6, <1>13, <2>6 DEF ClientInv, MatchInv, WriterInv
  <2>9. CoverInv'
    <3>1. \/ server.asks > 0 \/ (reader.ended /\ lines = <<>>) \/ Outstanding \subseteq client.abandoned
      BY <1>3, <1>7, <1>11, <1>13 DEF ClientInv, MatchInv, CoverInv, Covered
    <3> QED
      BY <1>6, <2>2, <2>6, <3>1 DEF CoverInv, Covered
  <2>10. NoFalseMismatch'
    BY <1>3, <1>13 DEF NoFalseMismatch
  <2> QED
    BY <1>8, <1>10, <1>13, <2>5, <2>7, <2>8, <2>9, <2>10 DEF ClientInv, MatchInv, Missed
<1> QED
  BY <1>7, <1>12, <1>13

\* A frame that is no request is handed to the writer.
LEMMA SendKeeps ==
    ASSUME ClientInv, client.pc \in {"notifying", "awaiting"},
           NEW c \in Clients, SameClient(client, c), c.outcome = client.outcome,
           NEW f \in Frames, f.kind \in {"cancelled", "reply"}, Write(c, f),
           UNCHANGED <<stdin, stdout, server, reader, gone>>,
           \/ lines' = lines
           \/ lines # <<>> /\ Head(lines).kind = "ask" /\ lines' = Tail(lines) /\ server.asks > 0
    PROVE  ClientInv' /\ Missed
<1>1. TypeInv /\ writer.pc = "idle" /\ ~client.failed /\ Active
  BY DEF ClientInv, MatchInv, WriterInv, Active
<1>2. /\ clientBudget' \in [requests : Nat, exhausted : BOOLEAN]
      /\ clientBudget.exhausted => clientBudget'.exhausted
      /\ client' \in Clients /\ writer' \in Writers /\ SameClient(c, client')
      /\ \/ /\ writer' = writer /\ client'.pc = "idle"
            /\ client'.outcome \in {"exhausted", "closed"} /\ clientBudget'.exhausted
         \/ /\ writer'.pc = "writing" /\ writer'.frame = {f}
            /\ client'.pc = "writing" /\ client'.outcome = client.outcome
  BY <1>1, WriteIs DEF SameClient
<1>3. SameClient(client, client')
  BY <1>2 DEF SameClient
<1>4. /\ lines' \in Seq(Frames) /\ Single(lines', "response")
      /\ Ids(lines', "response") = Ids(lines, "response") /\ Ids(lines', "ask") \subseteq Ids(lines, "ask")
      /\ lines = <<>> => lines' = <<>>
  <2>1. CASE lines' = lines
    BY <1>1, <2>1 DEF TypeInv, ClientInv, MatchInv, OnceInv
  <2>2. CASE lines # <<>> /\ Head(lines).kind = "ask" /\ lines' = Tail(lines)
    <3>1. /\ Tail(lines) \in Seq(Frames) /\ Single(Tail(lines), "response")
          /\ Ids(Tail(lines), "response") = Ids(lines, "response")
          /\ Ids(lines, "ask") = Ids(Tail(lines), "ask") \cup {Head(lines).id}
      BY <1>1, <2>2, TailIds DEF TypeInv, ClientInv, MatchInv, OnceInv
    <3> QED
      BY <2>2, <3>1
  <2> QED
    BY <2>1, <2>2
<1>5. TypeInv'
  BY <1>1, <1>2, <1>4 DEF TypeInv
<1>6. InWriter = {} /\ InWriter' = {}
  BY <1>1, <1>2 DEF InWriter
<1>7. Outstanding' = Outstanding
  BY <1>4, <1>6 DEF Outstanding
<1>8. OnceInv'
  BY <1>4, <1>6 DEF ClientInv, MatchInv, OnceInv
<1>9. FreshInv'
  BY <1>1, <1>3, <1>7 DEF ClientInv, MatchInv, FreshInv, SameClient
<1>10. WriterInv'
  <2>1. client'.pc \notin {"notifying", "awaiting"} /\ ~client'.failed
    BY <1>1, <1>2, <1>3 DEF SameClient
  <2> QED
    BY <1>1, <1>2, <1>4, <2>1 DEF ClientInv, MatchInv, WriterInv
<1>11. CoverInv'
  <2>1. CASE client'.pc = "idle" /\ clientBudget'.exhausted
    BY <2>1 DEF CoverInv, Active
  <2>2. CASE client'.pc = "writing"
    <3>1. Active'
      BY <2>2 DEF Active
    <3>2. server.asks > 0 \/ (reader.ended /\ lines = <<>>) \/ Covered
      BY <1>1 DEF ClientInv, MatchInv, CoverInv
    <3> QED
      BY <1>1, <1>3, <1>4, <1>7, <3>1, <3>2 DEF CoverInv, Covered, SameClient
  <2> QED
    BY <1>2, <2>1, <2>2
<1>12. NoFalseMismatch'
  BY <1>2 DEF ClientInv, MatchInv, NoFalseMismatch
<1>13. Got' = Got
  BY <1>3 DEF Got, SameClient
<1>14. UpdateInv'
  BY <1>1, <1>2, <1>3, <1>13, UpdateMoves DEF ClientInv, SameClient
<1> QED
  BY <1>2, <1>5, <1>8, <1>9, <1>10, <1>11, <1>12, <1>14 DEF ClientInv, MatchInv, Missed

\* What is at the head of the queue.
LEMMA HeadOfLines ==
    ASSUME ClientInv, lines # <<>>
    PROVE  /\ Head(lines) \in Frames /\ Head(lines).id \in Nat /\ Head(lines).before \in Nat
           /\ Head(lines).kind = "ask" => server.asks > 0
<1>1. Head(lines) \in Frames /\ (Head(lines).kind = "ask" => Head(lines).id \in Ids(lines, "ask"))
  BY TailIds DEF ClientInv, MatchInv, TypeInv
<1>2. server.asks = 0 => Ids(lines, "ask") = {}
  BY DEF ClientInv, MatchInv, WriterInv
<1>3. server.asks \in Nat
  BY DEF ClientInv, MatchInv, TypeInv
<1> QED
  BY <1>1, <1>2, <1>3 DEF Frames

\* cancel_tool_call sends the cancellation.
LEMMA NotifyKeeps == ASSUME ClientInv, Notify PROVE ClientInv' /\ Missed
<1>1. client \in Clients /\ client.id \in Nat
  BY DEF ClientInv, MatchInv, TypeInv, Clients
<1>2. PICK f : f = Frame("cancelled", client.id)
  OBVIOUS
<1>3. f \in Frames /\ f.kind = "cancelled"
  BY <1>1, <1>2, FrameType
<1>4. /\ client.pc = "notifying" /\ Write(client, f)
      /\ UNCHANGED <<stdin, stdout, server, reader, lines, gone>>
  BY <1>2 DEF Notify, pipes
<1> QED
  BY <1>1, <1>3, <1>4, SendKeeps DEF SameClient

-----------------------------------------------------------------------------
(* The steps that take a frame.                                             *)

\* The client in an operation that takes a frame.
LEMMA Awaiting ==
    ASSUME ClientInv, client.pc = "awaiting"
    PROVE  /\ TypeInv /\ client \in Clients /\ Active /\ ~client.failed /\ writer.pc = "idle"
           /\ InWriter = {} /\ client.id \notin client.abandoned
  BY DEF ClientInv, MatchInv, TypeInv, WriterInv, FreshInv, Active, InWriter

\* What is left when a frame of another kind than a response is taken.
LEMMA TakenOther ==
    ASSUME ClientInv, lines # <<>>, Head(lines).kind # "response", lines' = Tail(lines)
    PROVE  /\ lines' \in Seq(Frames) /\ Single(lines', "response")
           /\ Ids(lines', "response") = Ids(lines, "response")
           /\ Ids(lines', "ask") \subseteq Ids(lines, "ask")
<1>1. /\ Tail(lines) \in Seq(Frames) /\ Single(Tail(lines), "response")
      /\ Ids(Tail(lines), "response") = Ids(lines, "response")
      /\ \/ Ids(lines, "ask") = Ids(Tail(lines), "ask") \cup {Head(lines).id}
         \/ Ids(Tail(lines), "ask") = Ids(lines, "ask")
  BY TailIds DEF ClientInv, MatchInv, OnceInv, TypeInv
<1> QED
  BY <1>1

\* A notification is kept by request and skipped by the others.
LEMMA TakeUpdateKeeps == ASSUME ClientInv, TakeUpdate PROVE ClientInv' /\ Missed
<1>1. /\ client.pc = "awaiting" /\ lines # <<>> /\ Head(lines).kind = "update" /\ lines' = Tail(lines)
      /\ UNCHANGED <<clientBudget, writer, reader, stdin, stdout, server>>
      /\ \/ client' = Remember(client, Head(lines), "closed") /\ gone' = gone
         \/ gone' = gone \cup {Head(lines).id} /\ client' = client
  BY DEF TakeUpdate, Take, clientThreads, pipes
<1>2. /\ TypeInv /\ client \in Clients /\ Active /\ ~client.failed /\ writer.pc = "idle"
      /\ client.id \notin client.abandoned
  BY <1>1, Awaiting
<1>3. Head(lines) \in Frames /\ Head(lines).id \in Nat
  BY <1>1, HeadOfLines
<1>4. /\ lines' \in Seq(Frames) /\ Single(lines', "response")
      /\ Ids(lines', "response") = Ids(lines, "response") /\ Ids(lines', "ask") \subseteq Ids(lines, "ask")
  BY <1>1, TakenOther
<1>5. /\ client' \in Clients /\ client'.id = client.id /\ client'.next = client.next
      /\ client'.abandoned = client.abandoned /\ client'.before = client.before
      /\ gone' \subseteq Nat
      /\ \/ client'.pc = "idle" /\ client'.failed /\ client'.outcome = "closed" /\ Got' = Got
         \/ /\ client'.pc = "awaiting" /\ client'.outcome = client.outcome /\ ~client'.failed
            /\ Got' = Got \cup {Head(lines).id}
  <2>1. CASE client' = Remember(client, Head(lines), "closed") /\ gone' = gone
    <3>1. PICK d : d = Remember(client, Head(lines), "closed")
      OBVIOUS
    <3>2. "closed" \in Outcomes /\ client.notifications \in Seq(Frames)
      BY <1>2 DEF Outcomes, Clients
    <3>3. /\ d \in Clients /\ d.id = client.id /\ d.next = client.next /\ d.abandoned = client.abandoned
          /\ d.before = client.before
          /\ \/ /\ d.pc = "idle" /\ d.failed /\ d.outcome = "closed"
                /\ d.notifications = client.notifications
             \/ /\ d.pc = client.pc /\ d.outcome = client.outcome /\ (d.failed <=> client.failed)
                /\ d.notifications = Append(client.notifications, Head(lines))
      BY <1>2, <1>3, <3>1, <3>2, RememberIs
    <3>4. Ids(Append(client.notifications, Head(lines)), "update") =
             Ids(client.notifications, "update") \cup {Head(lines).id}
      BY <1>1, <1>3, <3>2, AppendIds
    <3>5. d = client'
      BY <2>1, <3>1
    <3> QED
      BY <1>1, <1>2, <2>1, <3>3, <3>4, <3>5 DEF Got, TypeInv
  <2>2. CASE gone' = gone \cup {Head(lines).id} /\ client' = client
    BY <1>1, <1>2, <1>3, <2>2 DEF Got, TypeInv
  <2> QED
    BY <1>1, <2>1, <2>2
<1>6. TypeInv'
  BY <1>1, <1>2, <1>4, <1>5 DEF TypeInv
<1>7. UpdateInv'
  BY <1>1, <1>2, <1>5, UpdateMoves DEF ClientInv
<1>8. InWriter' = InWriter /\ Outstanding' = Outstanding
  BY <1>1, <1>4 DEF InWriter, Outstanding
<1>9. client'.pc \in {"notifying", "awaiting"} => writer'.pc = "idle"
  BY <1>1, <1>2
<1>10. Active' => ~client'.failed
  BY <1>5 DEF Active
<1>11. MatchInv'
  BY <1>1, <1>2, <1>4, <1>5, <1>6, <1>8, <1>9, <1>10, MatchMoves DEF ClientInv, Active
<1> QED
  BY <1>5, <1>7, <1>11 DEF ClientInv, Missed

\* What is left of the ids when a response is taken.
LEMMA TakenResponse ==
    ASSUME ClientInv, lines # <<>>, Head(lines).kind = "response", lines' = Tail(lines),
           InWriter' = InWriter, UNCHANGED <<stdin, stdout>>, server'.todo = server.todo
    PROVE  /\ lines' \in Seq(Frames) /\ Single(lines', "response")
           /\ Ids(lines', "response") \subseteq Ids(lines, "response")
           /\ Ids(lines', "ask") \subseteq Ids(lines, "ask")
           /\ Outstanding' = Outstanding \ {Head(lines).id} /\ Head(lines).id \in Outstanding
           /\ ~client.failed => 1 .. Head(lines).before \subseteq Got
<1>1. /\ Tail(lines) \in Seq(Frames) /\ Single(Tail(lines), "response")
      /\ Ids(Tail(lines), "response") = Ids(lines, "response") \ {Head(lines).id}
      /\ Ids(Tail(lines), "ask") = Ids(lines, "ask") /\ Head(lines).id \in Ids(lines, "response")
  BY TailIds DEF ClientInv, MatchInv, OnceInv, TypeInv
<1>2. Outstanding' = Outstanding \ {Head(lines).id} /\ Head(lines).id \in Outstanding
  BY <1>1 DEF Outstanding, ClientInv, MatchInv, OnceInv
<1>3. ~client.failed => 1 .. Head(lines).before \subseteq Got
  BY TailIds DEF ClientInv, MatchInv, TypeInv, UpdateInv
<1> QED
  BY <1>1, <1>2, <1>3

\* A response: the answer, a late one, or one that does not match.
LEMMA TakeResponseKeeps == ASSUME ClientInv, TakeResponse PROVE ClientInv' /\ Missed
<1> DEFINE frame == Head(lines)
<1>1. /\ client.pc = "awaiting" /\ lines # <<>> /\ frame.kind = "response" /\ lines' = Tail(lines)
      /\ UNCHANGED <<clientBudget, writer, reader, stdin, stdout, server, gone>>
      /\ client' = IF client.op = "cancel" THEN AcceptCancelled(client, frame)
                   ELSE Accept(client, frame)
  BY DEF TakeResponse, Take, clientThreads, pipes
<1>2. /\ TypeInv /\ client \in Clients /\ Active /\ ~client.failed /\ writer.pc = "idle"
      /\ client.id \notin client.abandoned
  BY <1>1, Awaiting
<1>3. frame \in Frames /\ frame.id \in Nat /\ frame.before \in Nat
  BY <1>1, HeadOfLines
<1>4. InWriter' = InWriter
  BY <1>1 DEF InWriter
<1>5. /\ lines' \in Seq(Frames) /\ Single(lines', "response")
      /\ Ids(lines', "response") \subseteq Ids(lines, "response")
      /\ Ids(lines', "ask") \subseteq Ids(lines, "ask")
      /\ Outstanding' = Outstanding \ {frame.id} /\ frame.id \in Outstanding
      /\ 1 .. frame.before \subseteq Got
  BY <1>1, <1>2, <1>4, TakenResponse
<1>6. server.asks > 0 \/ frame.id \in client.abandoned \cup {client.id}
  BY <1>1, <1>2, <1>5 DEF ClientInv, MatchInv, CoverInv, Covered
<1>7. /\ client' \in Clients /\ client'.id = client.id /\ client'.next = client.next
      /\ client'.notifications = client.notifications /\ ~client'.failed
      /\ client'.abandoned \subseteq client.abandoned
      /\ client.abandoned \ {frame.id} \subseteq client'.abandoned
      /\ \/ /\ client'.pc = "awaiting" /\ client'.outcome = client.outcome
            /\ client'.before = client.before
         \/ /\ client'.pc = "idle" /\ client'.outcome = "answered" /\ frame.id = client.id
            /\ client'.before = frame.before
         \/ /\ client'.pc = "idle" /\ client'.outcome = "mismatch" /\ client'.before = client.before
            /\ server.asks > 0
  <2>1. CASE client' = client
    BY <1>1, <1>2, <2>1
  <2>2. CASE client' = Ended([client EXCEPT !.before = frame.before], "answered") /\ frame.id = client.id
    <3>1. PICK c : c = [client EXCEPT !.before = frame.before]
      OBVIOUS
    <3>2. /\ c \in Clients /\ c.id = client.id /\ c.next = client.next /\ c.failed = client.failed
          /\ c.abandoned = client.abandoned /\ c.notifications = client.notifications
          /\ c.before = frame.before
      BY <1>2, <1>3, <3>1 DEF Clients
    <3>3. client' \in Clients /\ SameClient(c, client') /\ client'.pc = "idle" /\ client'.outcome = "answered"
      BY <2>2, <3>1, <3>2, EndedIs DEF Outcomes
    <3> QED
      BY <1>2, <2>2, <3>2, <3>3 DEF SameClient
  <2>3. CASE client' = Forget(client, frame.id)
    <3>1. client' = [client EXCEPT !.abandoned = @ \ {frame.id}]
      BY <2>3 DEF Forget
    <3> QED
      BY <1>1, <1>2, <3>1 DEF Clients
  <2>4. CASE client' = Ended(client, "mismatch") /\ frame.id \notin client.abandoned \cup {client.id}
    BY <1>2, <1>6, <2>4, EndedIs DEF Outcomes, SameClient
  <2>5. \/ client' = client
        \/ client' = Ended([client EXCEPT !.before = frame.before], "answered") /\ frame.id = client.id
        \/ client' = Forget(client, frame.id)
        \/ client' = Ended(client, "mismatch") /\ frame.id \notin client.abandoned \cup {client.id}
    BY <1>1 DEF Accept, AcceptCancelled
  <2> QED
    BY <2>1, <2>2, <2>3, <2>4, <2>5
<1> HIDE DEF frame
<1>8. TypeInv'
  BY <1>1, <1>2, <1>5, <1>7 DEF TypeInv
<1>9. Got' = Got
  BY <1>1, <1>7 DEF Got
<1>10. UpdateInv'
  BY <1>1, <1>2, <1>5, <1>7, <1>9, UpdateMoves DEF ClientInv, frame
<1>11. Active' => client'.pc = "awaiting"
  BY <1>7 DEF Active
<1>12. client.abandoned \cap Outstanding' \subseteq client'.abandoned
  BY <1>5, <1>7
<1>13. client'.pc = "idle" => server.asks > 0 \/ client.id \notin Outstanding'
  BY <1>5, <1>7
<1>14. ~Active' => client'.pc = "idle"
  BY <1>7 DEF Active
<1>15. client'.outcome = "mismatch" => client.outcome = "mismatch" \/ server.asks > 0
  BY <1>7
<1>16. MatchInv'
  BY <1>1, <1>2, <1>4, <1>5, <1>7, <1>8, <1>11, <1>12, <1>13, <1>14, <1>15, MatchMoves DEF ClientInv
<1> QED
  BY <1>7, <1>10, <1>16 DEF ClientInv, Missed

\* A request of the server is answered.
LEMMA TakeAskAnswerKeeps == ASSUME ClientInv, TakeAskAnswer PROVE ClientInv' /\ Missed
<1>1. /\ client.pc = "awaiting" /\ lines # <<>> /\ Head(lines).kind = "ask" /\ lines' = Tail(lines)
      /\ UNCHANGED <<stdin, stdout, server, reader, gone>>
  BY DEF TakeAskAnswer, Take, pipes
<1>2. PICK c : c = [client EXCEPT !.answered = @ + 1]
  OBVIOUS
<1>3. \/ client' = Ended(c, "limit") /\ UNCHANGED <<clientBudget, writer>>
      \/ Write(c, Frame("reply", Head(lines).id))
  BY <1>2 DEF TakeAskAnswer
<1>4. /\ TypeInv /\ client \in Clients /\ Active /\ ~client.failed /\ writer.pc = "idle"
      /\ client.id \notin client.abandoned
  BY <1>1, Awaiting
<1>5. Head(lines) \in Frames /\ Head(lines).id \in Nat /\ server.asks > 0
  BY <1>1, HeadOfLines
<1>6. c \in Clients /\ SameClient(client, c) /\ c.outcome = client.outcome
  BY <1>2, <1>4 DEF Clients, SameClient
<1>7. CASE client' = Ended(c, "limit") /\ UNCHANGED <<clientBudget, writer>>
  <2>1. client' \in Clients /\ SameClient(c, client') /\ client'.pc = "idle" /\ client'.outcome = "limit"
    BY <1>6, <1>7, EndedIs DEF Outcomes
  <2>2. SameClient(client, client')
    BY <1>6, <2>1 DEF SameClient
  <2>3. /\ lines' \in Seq(Frames) /\ Single(lines', "response")
        /\ Ids(lines', "response") = Ids(lines, "response") /\ Ids(lines', "ask") \subseteq Ids(lines, "ask")
    BY <1>1, TakenOther
  <2>4. TypeInv'
    BY <1>1, <1>4, <1>7, <2>1, <2>3 DEF TypeInv
  <2>5. Got' = Got
    BY <1>1, <2>2 DEF Got, SameClient
  <2>6. UpdateInv'
    BY <1>1, <1>4, <2>1, <2>2, <2>5, UpdateMoves DEF ClientInv, SameClient
  <2>7. InWriter' = InWriter
    BY <1>7 DEF InWriter
  <2>8. ~Active'
    BY <2>1 DEF Active
  <2>9. MatchInv'
    BY <1>1, <1>4, <1>5, <1>7, <2>1, <2>2, <2>3, <2>4, <2>7, <2>8, MatchMoves DEF ClientInv, SameClient
  <2> QED
    BY <2>1, <2>6, <2>9 DEF ClientInv, Missed
<1>8. CASE Write(c, Frame("reply", Head(lines).id))
  <2>1. PICK f : f = Frame("reply", Head(lines).id)
    OBVIOUS
  <2>2. f \in Frames /\ f.kind = "reply"
    BY <1>5, <2>1, FrameType
  <2> QED
    BY <1>1, <1>5, <1>6, <1>8, <2>1, <2>2, SendKeeps
<1> QED
  BY <1>3, <1>7, <1>8

\* Elsewhere it is compared with the ids of the client.
LEMMA TakeAskElsewhereKeeps == ASSUME ClientInv, TakeAskElsewhere PROVE ClientInv' /\ Missed
<1>1. /\ client.pc = "awaiting" /\ lines # <<>> /\ Head(lines).kind = "ask" /\ lines' = Tail(lines)
      /\ UNCHANGED <<clientBudget, writer, reader, stdin, stdout, server, gone>>
      /\ \/ client' = client \/ client' = Forget(client, Head(lines).id)
         \/ client' = Ended(client, "mismatch")
  BY DEF TakeAskElsewhere, Take, clientThreads, pipes
<1>2. /\ TypeInv /\ client \in Clients /\ Active /\ ~client.failed /\ writer.pc = "idle"
      /\ client.id \notin client.abandoned
  BY <1>1, Awaiting
<1>3. server.asks > 0
  BY <1>1, HeadOfLines
<1>4. /\ client' \in Clients /\ client'.id = client.id /\ client'.next = client.next
      /\ client'.notifications = client.notifications /\ ~client'.failed
      /\ client'.abandoned \subseteq client.abandoned /\ client'.before = client.before
      /\ \/ client'.pc = "awaiting" /\ client'.outcome = client.outcome
         \/ client'.pc = "idle" /\ client'.outcome = "mismatch"
  <2>1. CASE client' = client
    BY <1>1, <1>2, <2>1
  <2>2. CASE client' = [client EXCEPT !.abandoned = @ \ {Head(lines).id}]
    BY <1>1, <1>2, <2>2 DEF Clients
  <2>3. CASE client' = Ended(client, "mismatch")
    BY <1>2, <2>3, EndedIs DEF Outcomes, SameClient
  <2> QED
    BY <1>1, <2>1, <2>2, <2>3 DEF Forget
<1>5. /\ lines' \in Seq(Frames) /\ Single(lines', "response")
      /\ Ids(lines', "response") = Ids(lines, "response") /\ Ids(lines', "ask") \subseteq Ids(lines, "ask")
  BY <1>1, TakenOther
<1>6. TypeInv'
  BY <1>1, <1>2, <1>4, <1>5 DEF TypeInv
<1>7. Got' = Got
  BY <1>1, <1>4 DEF Got
<1>8. UpdateInv'
  BY <1>1, <1>2, <1>4, <1>7, UpdateMoves DEF ClientInv
<1>9. InWriter' = InWriter
  BY <1>1 DEF InWriter
<1>10. MatchInv'
  BY <1>1, <1>2, <1>3, <1>4, <1>5, <1>6, <1>9, MatchMoves DEF ClientInv
<1> QED
  BY <1>4, <1>8, <1>10 DEF ClientInv, Missed

\* A frame is taken while the client waits for an update.
LEMMA TakeWaitingKeeps == ASSUME ClientInv, TakeWaiting PROVE ClientInv' /\ Missed
<1>1. /\ client.pc = "waiting" /\ lines # <<>> /\ lines' = Tail(lines)
      /\ UNCHANGED <<clientBudget, writer, reader, stdin, stdout, server>>
  BY DEF TakeWaiting, clientThreads, pipes
<1>2. /\ TypeInv /\ client \in Clients /\ ~Active /\ client.notifications \in Seq(Frames)
      /\ Ids(client.notifications, "update") = {}
  BY <1>1 DEF ClientInv, MatchInv, TypeInv, UpdateInv, Active, Clients
<1>3. Head(lines) \in Frames /\ Head(lines).id \in Nat
  BY <1>1, HeadOfLines
<1>4. InWriter' = InWriter
  BY <1>1 DEF InWriter
<1>5. /\ lines' \in Seq(Frames) /\ Single(lines', "response")
      /\ Ids(lines', "response") \subseteq Ids(lines, "response")
      /\ Ids(lines', "ask") \subseteq Ids(lines, "ask")
  BY <1>1, <1>4, TakenOther, TakenResponse
<1>6. /\ client' \in Clients /\ client'.id = client.id /\ client'.next = client.next
      /\ client'.abandoned = client.abandoned /\ client'.before = client.before
      /\ gone' \subseteq Nat /\ Got \subseteq Got' /\ (client.failed => client'.failed) /\ ~Active'
      /\ client'.outcome = "mismatch" => client.outcome = "mismatch"
      /\ client'.pc = "waiting" => Ids(client'.notifications, "update") = {}
      /\ Head(lines).kind = "update" => Head(lines).id \in Got'
      /\ client'.outcome = "missed" /\ client'.pc = "idle" => client'.failed
  <2>1. CASE client' = Ended(client, "updated") /\ gone' = gone \cup {Head(lines).id}
    <3>1. client' \in Clients /\ SameClient(client, client') /\ client'.pc = "idle" /\ client'.outcome = "updated"
      BY <1>2, <2>1, EndedIs DEF Outcomes
    <3> QED
      BY <1>2, <1>3, <2>1, <3>1 DEF SameClient, Got, Active, TypeInv
  <2>2. CASE /\ Head(lines).kind = "ask"
             /\ client' = Remember(client, Head(lines), "missed") /\ gone' = gone
    <3>1. PICK d : d = Remember(client, Head(lines), "missed")
      OBVIOUS
    <3>2. "missed" \in Outcomes
      BY DEF Outcomes
    <3>3. /\ d \in Clients /\ d.id = client.id /\ d.next = client.next /\ d.abandoned = client.abandoned
          /\ d.before = client.before
          /\ \/ /\ d.pc = "idle" /\ d.failed /\ d.outcome = "missed"
                /\ d.notifications = client.notifications
             \/ /\ d.pc = client.pc /\ d.outcome = client.outcome /\ (d.failed <=> client.failed)
                /\ d.notifications = Append(client.notifications, Head(lines))
      BY <1>2, <1>3, <3>1, <3>2, RememberIs
    <3>4. Ids(Append(client.notifications, Head(lines)), "update") = Ids(client.notifications, "update")
      BY <1>2, <1>3, <2>2, AppendIds
    <3>5. d = client'
      BY <2>2, <3>1
    <3> QED
      BY <1>1, <1>2, <2>2, <3>3, <3>4, <3>5 DEF Got, Active, TypeInv
  <2>3. CASE Head(lines).kind = "response" /\ client' = client /\ gone' = gone
    BY <1>1, <1>2, <2>3 DEF Got, Active, TypeInv
  <2> QED
    BY <2>1, <2>2, <2>3 DEF TakeWaiting
<1>7. TypeInv'
  BY <1>1, <1>2, <1>5, <1>6 DEF TypeInv
<1>8. UpdateInv'
  BY <1>1, <1>2, <1>6, UpdateMoves DEF ClientInv
<1>9. client'.pc \notin {"notifying", "awaiting"}
  BY <1>6 DEF Active
<1>10. client'.abandoned \subseteq client.abandoned \cup {client.id} /\ client.abandoned \subseteq client'.abandoned
  BY <1>6
<1>11. MatchInv'
  BY <1>1, <1>2, <1>4, <1>5, <1>6, <1>7, <1>9, <1>10, MatchMoves DEF ClientInv
<1> QED
  BY <1>6, <1>8, <1>11 DEF ClientInv, Missed

-----------------------------------------------------------------------------
(* The steps of the threads, the server and the clock.                      *)

\* They leave the client alone: no id is added, and each stays in one place.
LEMMA OthersMove ==
    ASSUME MatchInv, client' = client, TypeInv', OnceInv', WriterInv',
           Outstanding' \subseteq Outstanding,
           server.asks > 0 => server'.asks > 0,
           reader.ended /\ lines = <<>> => reader'.ended /\ lines' = <<>>,
           clientBudget.exhausted => clientBudget'.exhausted
    PROVE  MatchInv'
<1>1. Active' <=> Active
  BY DEF Active
<1>2. FreshInv'
  BY <1>1 DEF MatchInv, FreshInv
<1>3. CoverInv'
  BY <1>1 DEF MatchInv, CoverInv, Covered
<1>4. NoFalseMismatch'
  BY DEF MatchInv, NoFalseMismatch
<1> QED
  BY <1>2, <1>3, <1>4 DEF MatchInv

\* The writer puts its frame into the pipe.
LEMMA WriterWritesKeeps == ASSUME ClientInv, WriterWrites PROVE ClientInv'
<1>1. /\ writer.pc = "writing" /\ stdin' = stdin \o SetToSeq(writer.frame)
      /\ writer' = [writer EXCEPT !.pc = "written"]
      /\ UNCHANGED <<client, clientBudget, server, stdout, reader, lines, gone>>
  BY DEF WriterWrites
<1>2. PICK f \in Frames : writer.frame = {f}
  BY <1>1 DEF ClientInv, MatchInv, WriterInv
<1>3. TypeInv /\ writer \in Writers /\ stdin \in Seq(Frames) /\ f.id \in Nat
  BY DEF ClientInv, MatchInv, TypeInv, Frames
<1>4. stdin' = Append(stdin, f)
  BY <1>1, <1>2, <1>3, OneFrame
<1>5. writer' \in Writers /\ writer'.pc = "written"
  BY <1>1, <1>3 DEF Writers
<1>6. /\ stdin' \in Seq(Frames)
      /\ Ids(stdin', "call") = Ids(stdin, "call") \cup (IF f.kind = "call" THEN {f.id} ELSE {})
      /\ Single(stdin, "call") /\ (f.kind = "call" => f.id \notin Ids(stdin, "call")) =>
            Single(stdin', "call")
  BY <1>2, <1>3, <1>4, AppendIds
<1>7. InWriter' = {} /\ InWriter = (IF f.kind = "call" THEN {f.id} ELSE {})
  BY <1>1, <1>2, <1>3, <1>5 DEF InWriter
<1>8. Outstanding' = Outstanding
  BY <1>1, <1>6, <1>7 DEF Outstanding
<1>9. TypeInv'
  BY <1>1, <1>3, <1>5, <1>6 DEF TypeInv
<1>10. OnceInv'
  BY <1>1, <1>6, <1>7 DEF ClientInv, MatchInv, OnceInv
<1>11. WriterInv'
  BY <1>1, <1>5 DEF ClientInv, MatchInv, WriterInv, Active
<1>12. MatchInv'
  BY <1>1, <1>8, <1>9, <1>10, <1>11, OthersMove DEF ClientInv
<1>13. UpdateInv'
  BY <1>1 DEF ClientInv, UpdateInv, Got
<1> QED
  BY <1>12, <1>13 DEF ClientInv

\* The writer ends with the frame it had.
LEMMA WriterEndsKeeps == ASSUME ClientInv, WriterEnds PROVE ClientInv'
<1>1. /\ writer' = [writer EXCEPT !.pc = "ended", !.frame = {}]
      /\ UNCHANGED <<client, clientBudget, stdin, stdout, server, reader, lines, gone>>
      /\ writer.pc = "writing" \/ Dropped
  BY DEF WriterEnds, pipes
<1>2. TypeInv /\ writer \in Writers
  BY DEF ClientInv, MatchInv, TypeInv
<1>3. writer' \in Writers /\ writer'.pc = "ended"
  BY <1>1, <1>2 DEF Writers
<1>4. InWriter' = {}
  BY <1>3 DEF InWriter
<1>5. Outstanding' \subseteq Outstanding
  BY <1>1, <1>4 DEF Outstanding
<1>6. TypeInv'
  BY <1>1, <1>2, <1>3 DEF TypeInv
<1>7. OnceInv'
  BY <1>1, <1>4 DEF ClientInv, MatchInv, OnceInv
<1>8. client.pc \notin {"notifying", "awaiting"}
  BY <1>1 DEF Dropped, ClientInv, MatchInv, WriterInv
<1>9. WriterInv'
  BY <1>1, <1>3, <1>8 DEF ClientInv, MatchInv, WriterInv, Active
<1>10. MatchInv'
  BY <1>1, <1>5, <1>6, <1>7, <1>9, OthersMove DEF ClientInv
<1>11. UpdateInv'
  BY <1>1 DEF ClientInv, UpdateInv, Got
<1> QED
  BY <1>10, <1>11 DEF ClientInv

\* The reader moves a frame from the pipe into the queue, or loses it and ends.
LEMMA ReaderReadsKeeps == ASSUME ClientInv, ReaderReads PROVE ClientInv'
<1> DEFINE f == Head(stdout)
<1>1. /\ ~reader.ended /\ stdout # <<>> /\ stdout' = Tail(stdout)
      /\ UNCHANGED <<client, clientBudget, writer, stdin, server, gone>>
      /\ \/ lines' = Append(lines, f) /\ reader' = reader
         \/ reader' = [reader EXCEPT !.ended = TRUE] /\ lines' = lines
  BY DEF ReaderReads
<1>2. /\ TypeInv /\ stdout \in Seq(Frames) /\ lines \in Seq(Frames) /\ OnceInv
      /\ Single(stdout, "response") /\ Single(lines, "response")
      /\ reader \in [ended : BOOLEAN, cancelled : BOOLEAN]
  BY DEF ClientInv, MatchInv, TypeInv, OnceInv
<1>3. /\ f \in Frames /\ stdout' \in Seq(Frames)
      /\ \A kind : f.kind = kind => f.id \in Ids(stdout, kind)
      /\ \A kind : f.kind # kind => Ids(stdout', kind) = Ids(stdout, kind)
      /\ Single(stdout', "response")
      /\ f.kind = "response" => Ids(stdout', "response") = Ids(stdout, "response") \ {f.id}
      /\ \A kind : f.kind = kind => Ids(stdout, kind) = Ids(stdout', kind) \cup {f.id}
      /\ \A base : Explained(stdout, base) =>
            /\ f.kind # "update" => Explained(stdout', base)
            /\ Explained(stdout', base \cup {f.id})
            /\ f.kind = "response" => 1 .. f.before \subseteq base
  BY <1>1, <1>2, TailIds
<1> HIDE DEF f
<1>4. InWriter' = InWriter /\ Got' = Got
  BY <1>1 DEF InWriter, Got
<1>5. CASE reader' = [reader EXCEPT !.ended = TRUE] /\ lines' = lines
  <2>1. reader' \in [ended : BOOLEAN, cancelled : BOOLEAN] /\ reader'.ended
    BY <1>2, <1>5
  <2>2. /\ Ids(stdout', "response") \subseteq Ids(stdout, "response")
        /\ Ids(stdout', "ask") \subseteq Ids(stdout, "ask")
    BY <1>3
  <2>3. TypeInv'
    BY <1>1, <1>2, <1>3, <1>5, <2>1 DEF TypeInv
  <2>4. OnceInv'
    BY <1>1, <1>2, <1>3, <1>4, <1>5, <2>2 DEF OnceInv
  <2>5. Outstanding' \subseteq Outstanding
    BY <1>1, <1>4, <1>5, <2>2 DEF Outstanding
  <2>6. WriterInv'
    BY <1>1, <1>5, <2>2 DEF ClientInv, MatchInv, WriterInv, Active
  <2>7. MatchInv'
    BY <1>1, <1>5, <2>1, <2>3, <2>4, <2>5, <2>6, OthersMove DEF ClientInv
  <2>8. UpdateInv'
    BY <1>1, <1>4, <1>5, <2>1 DEF ClientInv, UpdateInv
  <2> QED
    BY <2>7, <2>8 DEF ClientInv
<1>6. CASE lines' = Append(lines, f) /\ reader' = reader
  <2>1. /\ lines' \in Seq(Frames)
        /\ \A kind : Ids(lines', kind) = Ids(lines, kind) \cup (IF f.kind = kind THEN {f.id} ELSE {})
        /\ Single(lines, "response") /\ (f.kind = "response" => f.id \notin Ids(lines, "response")) =>
              Single(lines', "response")
        /\ \A base : /\ Explained(lines, base)
                     /\ f.kind = "response" => 1 .. f.before \subseteq base \cup Ids(lines, "update")
                     => Explained(lines', base)
    BY <1>2, <1>3, <1>6, AppendIds
  <2>2. f.kind = "response" => f.id \in Ids(stdout, "response") /\ f.id \notin Ids(lines, "response")
    BY <1>2, <1>3 DEF OnceInv
  <2>3. /\ Single(lines', "response")
        /\ Ids(stdout', "response") \cup Ids(lines', "response") =
              Ids(stdout, "response") \cup Ids(lines, "response")
        /\ Ids(stdout', "response") \cap Ids(lines', "response") = {}
    <3>1. CASE f.kind = "response"
      <4>1. /\ Ids(lines', "response") = Ids(lines, "response") \cup {f.id}
            /\ Ids(stdout', "response") = Ids(stdout, "response") \ {f.id}
            /\ Ids(stdout, "response") \cap Ids(lines, "response") = {}
        BY <1>2, <1>3, <2>1, <3>1 DEF OnceInv
      <4> QED
        BY <1>2, <2>1, <2>2, <3>1, <4>1
    <3>2. CASE f.kind # "response"
      <4>1. /\ Ids(lines', "response") = Ids(lines, "response")
            /\ Ids(stdout', "response") = Ids(stdout, "response")
            /\ Ids(stdout, "response") \cap Ids(lines, "response") = {}
        BY <1>2, <1>3, <2>1, <3>2 DEF OnceInv
      <4> QED
        BY <1>2, <2>1, <3>2, <4>1
    <3> QED
      BY <3>1, <3>2
  <2>4. /\ Ids(stdout', "ask") \cup Ids(lines', "ask") = Ids(stdout, "ask") \cup Ids(lines, "ask")
        /\ Ids(stdout', "update") \cup Ids(lines', "update") =
              Ids(stdout, "update") \cup Ids(lines, "update")
    <3>1. ASSUME NEW kind
          PROVE  Ids(stdout', kind) \cup Ids(lines', kind) = Ids(stdout, kind) \cup Ids(lines, kind)
      <4>1. CASE f.kind = kind
        <5>1. Ids(lines', kind) = Ids(lines, kind) \cup {f.id}
              /\ Ids(stdout, kind) = Ids(stdout', kind) \cup {f.id}
          BY <1>3, <2>1, <4>1
        <5> QED
          BY <5>1
      <4>2. CASE f.kind # kind
        <5>1. Ids(lines', kind) = Ids(lines, kind) /\ Ids(stdout', kind) = Ids(stdout, kind)
          BY <1>3, <2>1, <4>2
        <5> QED
          BY <5>1
      <4> QED
        BY <4>1, <4>2
    <3> QED
      BY <3>1
  <2>5. TypeInv'
    BY <1>1, <1>2, <1>3, <1>6, <2>1 DEF TypeInv
  <2>6. OnceInv'
    BY <1>1, <1>2, <1>3, <1>4, <2>3 DEF OnceInv
  <2>7. Outstanding' = Outstanding
    BY <1>1, <1>4, <2>3 DEF Outstanding
  <2>8. WriterInv'
    BY <1>1, <2>4 DEF ClientInv, MatchInv, WriterInv, Active
  <2>9. MatchInv'
    BY <1>1, <2>5, <2>6, <2>7, <2>8, OthersMove DEF ClientInv
  <2>10. UpdateInv'
    <3>1. client'.pc = "waiting" => Ids(client'.notifications, "update") = {}
      BY <1>1 DEF ClientInv, UpdateInv
    <3> SUFFICES ASSUME ~client.failed
                 PROVE  /\ 1 .. client.before \subseteq Got
                        /\ Explained(lines', Got)
                        /\ Explained(stdout', Got \cup Ids(lines', "update"))
                        /\ 1 .. server.updates \subseteq
                              Got \cup Ids(lines', "update") \cup Ids(stdout', "update")
      BY <1>1, <1>4, <3>1 DEF UpdateInv
    <3>2. /\ 1 .. client.before \subseteq Got /\ Explained(lines, Got)
          /\ Explained(stdout, Got \cup Ids(lines, "update"))
          /\ 1 .. server.updates \subseteq Got \cup Ids(lines, "update") \cup Ids(stdout, "update")
      BY <1>1 DEF ClientInv, UpdateInv
    <3>3. Explained(lines', Got)
      BY <1>3, <2>1, <3>2
    <3>4. Explained(stdout', Got \cup Ids(lines', "update"))
      <4>1. CASE f.kind = "update"
        <5>1. Explained(stdout', (Got \cup Ids(lines, "update")) \cup {f.id})
          BY <1>3, <3>2
        <5>2. Ids(lines', "update") = Ids(lines, "update") \cup {f.id}
          BY <2>1, <4>1
        <5>3. (Got \cup Ids(lines, "update")) \cup {f.id} = Got \cup Ids(lines', "update")
          BY <5>2
        <5> QED
          BY <5>1, <5>3
      <4>2. CASE f.kind # "update"
        <5>1. Ids(lines', "update") = Ids(lines, "update")
          BY <2>1, <4>2
        <5> QED
          BY <1>3, <3>2, <4>2, <5>1
      <4> QED
        BY <4>1, <4>2
    <3> QED
      BY <2>4, <3>2, <3>3, <3>4
  <2> QED
    BY <2>9, <2>10 DEF ClientInv
<1> QED
  BY <1>1, <1>5, <1>6

\* The reader ends.
LEMMA ReaderEndsKeeps == ASSUME ClientInv, ReaderEnds PROVE ClientInv'
<1>1. /\ reader' = [reader EXCEPT !.ended = TRUE]
      /\ UNCHANGED <<client, clientBudget, writer, stdin, stdout, server, lines, gone>>
  BY DEF ReaderEnds, pipes
<1>2. TypeInv /\ OnceInv /\ WriterInv /\ reader \in [ended : BOOLEAN, cancelled : BOOLEAN]
  BY DEF ClientInv, MatchInv, TypeInv
<1>3. reader' \in [ended : BOOLEAN, cancelled : BOOLEAN] /\ reader'.ended
  BY <1>1, <1>2
<1>4. InWriter' = InWriter /\ Got' = Got
  BY <1>1 DEF InWriter, Got
<1>5. TypeInv'
  BY <1>1, <1>2, <1>3 DEF TypeInv
<1>6. OnceInv' /\ Outstanding' = Outstanding
  BY <1>1, <1>2, <1>4 DEF OnceInv, Outstanding
<1>7. WriterInv'
  BY <1>1, <1>2 DEF WriterInv, Active
<1>8. MatchInv'
  BY <1>1, <1>3, <1>5, <1>6, <1>7, OthersMove DEF ClientInv
<1>9. UpdateInv'
  BY <1>1, <1>3, <1>4 DEF ClientInv, UpdateInv
<1> QED
  BY <1>8, <1>9 DEF ClientInv

\* The server takes a frame: a request is now its own.
LEMMA ServerReadsKeeps == ASSUME ClientInv, ServerReads PROVE ClientInv'
<1> DEFINE f == Head(stdin)
<1>1. /\ stdin # <<>> /\ stdin' = Tail(stdin)
      /\ UNCHANGED <<client, clientBudget, writer, reader, stdout, lines, gone>>
      /\ \/ f.kind = "call" /\ server' = [server EXCEPT !.todo = @ \cup {f.id}]
         \/ f.kind # "call" /\ server' = server
         \/ f.kind # "call" /\ server' = [server EXCEPT !.todo = @ \ {f.id}]
  BY DEF ServerReads, clientThreads
<1>2. TypeInv /\ OnceInv /\ WriterInv /\ stdin \in Seq(Frames) /\ Single(stdin, "call")
  BY DEF ClientInv, MatchInv, TypeInv, OnceInv
<1>3. /\ f \in Frames /\ stdin' \in Seq(Frames) /\ Single(stdin', "call")
      /\ f.kind = "call" => /\ f.id \in Ids(stdin, "call")
                            /\ Ids(stdin', "call") = Ids(stdin, "call") \ {f.id}
      /\ f.kind # "call" => Ids(stdin', "call") = Ids(stdin, "call")
  BY <1>1, <1>2, TailIds
<1> HIDE DEF f
<1>4. InWriter' = InWriter /\ Got' = Got
  BY <1>1 DEF InWriter, Got
<1>5. f.id \in Nat
  BY <1>3 DEF Frames
<1>6. /\ server' \in [up : BOOLEAN, held : BOOLEAN, todo : SUBSET Nat, updates : Nat, asks : Nat]
      /\ server'.asks = server.asks /\ server'.updates = server.updates
      /\ \/ f.kind = "call" /\ server'.todo = server.todo \cup {f.id}
         \/ f.kind # "call" /\ server'.todo \subseteq server.todo
  <2>1. server \in [up : BOOLEAN, held : BOOLEAN, todo : SUBSET Nat, updates : Nat, asks : Nat]
    BY <1>2 DEF TypeInv
  <2>2. CASE f.kind = "call" /\ server' = [server EXCEPT !.todo = @ \cup {f.id}]
    BY <1>5, <2>1, <2>2
  <2>3. CASE f.kind # "call" /\ server' = server
    BY <2>1, <2>3
  <2>4. CASE f.kind # "call" /\ server' = [server EXCEPT !.todo = @ \ {f.id}]
    BY <2>1, <2>4
  <2> QED
    BY <1>1, <2>2, <2>3, <2>4
<1>7. TypeInv'
  BY <1>1, <1>2, <1>3, <1>6 DEF TypeInv
<1>8. OnceInv' /\ Outstanding' \subseteq Outstanding
  <2>1. CASE f.kind = "call" /\ server'.todo = server.todo \cup {f.id}
    BY <1>1, <1>2, <1>3, <1>4, <2>1 DEF OnceInv, Outstanding
  <2>2. CASE f.kind # "call" /\ server'.todo \subseteq server.todo
    BY <1>1, <1>2, <1>3, <1>4, <2>2 DEF OnceInv, Outstanding
  <2> QED
    BY <1>6, <2>1, <2>2
<1>9. WriterInv'
  BY <1>1, <1>2, <1>6 DEF WriterInv, Active
<1>10. MatchInv'
  BY <1>1, <1>6, <1>7, <1>8, <1>9, OthersMove DEF ClientInv
<1>11. UpdateInv'
  BY <1>1, <1>4, <1>6 DEF ClientInv, UpdateInv
<1> QED
  BY <1>10, <1>11 DEF ClientInv

\* The server sends a frame.
LEMMA ServerWritesKeeps ==
    ASSUME ClientInv, NEW f \in Frames, ServerWrites(f),
           server' \in [up : BOOLEAN, held : BOOLEAN, todo : SUBSET Nat, updates : Nat, asks : Nat],
           \/ /\ f.kind = "response" /\ f.id \in server.todo /\ server'.todo = server.todo \ {f.id}
              /\ server'.asks = server.asks /\ server'.updates = server.updates
              /\ f.before = server.updates
           \/ /\ f.kind = "ask" /\ server'.todo = server.todo
              /\ server'.asks > 0 /\ server'.updates = server.updates
           \/ /\ f.kind = "update" /\ server'.todo = server.todo /\ server'.asks = server.asks
              /\ server'.updates = server.updates + 1 /\ f.id = server.updates + 1
    PROVE  ClientInv'
<1>1. stdout' = Append(stdout, f) /\ UNCHANGED <<client, clientBudget, writer, reader, stdin, lines, gone>>
  BY DEF ServerWrites, clientThreads
<1>2. /\ TypeInv /\ OnceInv /\ WriterInv /\ stdout \in Seq(Frames) /\ Single(stdout, "response")
      /\ server.updates \in Nat /\ server.asks \in Nat
  BY DEF ClientInv, MatchInv, TypeInv, OnceInv
<1>3. /\ stdout' \in Seq(Frames)
      /\ \A kind : Ids(stdout', kind) = Ids(stdout, kind) \cup (IF f.kind = kind THEN {f.id} ELSE {})
      /\ (f.kind = "response" => f.id \notin Ids(stdout, "response")) => Single(stdout', "response")
      /\ \A base : /\ Explained(stdout, base)
                   /\ f.kind = "response" => 1 .. f.before \subseteq base \cup Ids(stdout, "update")
                   => Explained(stdout', base)
  BY <1>1, <1>2, AppendIds
<1>4. InWriter' = InWriter /\ Got' = Got
  BY <1>1 DEF InWriter, Got
<1>5. TypeInv'
  BY <1>1, <1>2, <1>3 DEF TypeInv
<1>6. OnceInv' /\ Outstanding' \subseteq Outstanding
  <2>1. CASE f.kind = "response" /\ f.id \in server.todo /\ server'.todo = server.todo \ {f.id}
    <3>1. f.id \notin Ids(stdout, "response") /\ Ids(stdout', "response") = Ids(stdout, "response") \cup {f.id}
      BY <1>2, <1>3, <2>1 DEF OnceInv
    <3> QED
      BY <1>1, <1>2, <1>3, <1>4, <2>1, <3>1 DEF OnceInv, Outstanding
  <2>2. CASE f.kind # "response" /\ server'.todo = server.todo
    <3>1. /\ Ids(stdout', "response") = Ids(stdout, "response") \cup
                                         (IF f.kind = "response" THEN {f.id} ELSE {})
          /\ Single(stdout', "response")
      BY <1>3, <2>2
    <3>2. Ids(stdout', "response") = Ids(stdout, "response")
      BY <2>2, <3>1
    <3> QED
      BY <1>1, <1>2, <1>4, <2>2, <3>1, <3>2 DEF OnceInv, Outstanding
  <2> QED
    BY <2>1, <2>2
<1>7. WriterInv'
  <2>1. server'.asks = 0 => server.asks = 0 /\ f.kind # "ask"
    OBVIOUS
  <2>2. Ids(stdout', "ask") = Ids(stdout, "ask") \cup (IF f.kind = "ask" THEN {f.id} ELSE {})
    BY <1>3
  <2> QED
    BY <1>1, <1>2, <2>1, <2>2 DEF WriterInv, Active
<1>8. server.asks > 0 => server'.asks > 0
  OBVIOUS
<1>9. MatchInv'
  BY <1>1, <1>5, <1>6, <1>7, <1>8, OthersMove DEF ClientInv
<1>10. UpdateInv'
  <2>1. client'.pc = "waiting" => Ids(client'.notifications, "update") = {}
    BY <1>1 DEF ClientInv, UpdateInv
  <2>2. ~client.failed => 1 .. client.before \subseteq Got /\ Explained(lines, Got)
    BY DEF ClientInv, UpdateInv
  <2>3. ASSUME ~client.failed, ~reader.ended
        PROVE  /\ Explained(stdout', Got \cup Ids(lines, "update"))
               /\ 1 .. server'.updates \subseteq Got \cup Ids(lines, "update") \cup Ids(stdout', "update")
    <3>1. /\ Explained(stdout, Got \cup Ids(lines, "update"))
          /\ 1 .. server.updates \subseteq Got \cup Ids(lines, "update") \cup Ids(stdout, "update")
      BY <2>3 DEF ClientInv, UpdateInv
    <3>2. Explained(stdout', Got \cup Ids(lines, "update"))
      <4>1. f.kind = "response" => f.before = server.updates
        OBVIOUS
      <4> QED
        BY <1>3, <3>1, <4>1
    <3>3. CASE server'.updates = server.updates
      BY <1>3, <3>1, <3>2, <3>3
    <3>4. CASE f.kind = "update" /\ server'.updates = server.updates + 1 /\ f.id = server.updates + 1
      <4>1. Ids(stdout', "update") = Ids(stdout, "update") \cup {server.updates + 1}
        BY <1>3, <3>4
      <4>2. 1 .. server'.updates \subseteq (1 .. server.updates) \cup {server.updates + 1}
        BY <1>2, <3>4
      <4> QED
        BY <3>1, <3>2, <4>1, <4>2
    <3> QED
      BY <3>3, <3>4
  <2> QED
    BY <1>1, <1>4, <2>1, <2>2, <2>3 DEF UpdateInv
<1> QED
  BY <1>9, <1>10 DEF ClientInv

\* An answer, an update, a request of the server.
LEMMA ServerSendsKeeps ==
    ASSUME ClientInv, (\E id \in server.todo : ServerAnswers(id)) \/ ServerUpdates \/ ServerAsks
    PROVE  ClientInv'
<1>1. server \in [up : BOOLEAN, held : BOOLEAN, todo : SUBSET Nat, updates : Nat, asks : Nat]
  BY DEF ClientInv, MatchInv, TypeInv
<1>2. ASSUME NEW id \in server.todo, ServerAnswers(id) PROVE ClientInv'
  <2>1. PICK n \in Nat : n = server.updates
    BY <1>1
  <2>2. id \in Nat
    BY <1>1
  <2>3. PICK f : f = [Frame("response", id) EXCEPT !.before = n]
    OBVIOUS
  <2>4. f \in Frames /\ f.kind = "response" /\ f.id = id /\ f.before = n
    BY <2>1, <2>2, <2>3 DEF Frame, Frames
  <2>5. ServerWrites(f) /\ server' = [server EXCEPT !.todo = @ \ {id}]
    BY <1>2, <2>1, <2>3 DEF ServerAnswers
  <2>6. /\ server' \in [up : BOOLEAN, held : BOOLEAN, todo : SUBSET Nat, updates : Nat, asks : Nat]
        /\ server'.todo = server.todo \ {id} /\ server'.asks = server.asks
        /\ server'.updates = server.updates
    BY <1>1, <2>5
  <2> QED
    BY <1>2, <2>1, <2>4, <2>5, <2>6, ServerWritesKeeps
<1>3. CASE ServerUpdates
  <2>1. PICK n \in Nat : n = server.updates + 1
    BY <1>1
  <2>2. PICK f : f = Frame("update", n)
    OBVIOUS
  <2>3. f \in Frames /\ f.kind = "update" /\ f.id = n
    BY <2>2, FrameType
  <2>4. ServerWrites(f) /\ server' = [server EXCEPT !.updates = n]
    BY <1>1, <1>3, <2>1, <2>2 DEF ServerUpdates
  <2>5. /\ server' \in [up : BOOLEAN, held : BOOLEAN, todo : SUBSET Nat, updates : Nat, asks : Nat]
        /\ server'.todo = server.todo /\ server'.asks = server.asks /\ server'.updates = n
    BY <1>1, <2>4
  <2> QED
    BY <2>1, <2>3, <2>4, <2>5, ServerWritesKeeps
<1>4. CASE ServerAsks
  <2>1. PICK n \in Nat : n = server.asks + 1
    BY <1>1
  <2>2. PICK f : f = Frame("ask", n)
    OBVIOUS
  <2>3. f \in Frames /\ f.kind = "ask"
    BY <2>2, FrameType
  <2>4. ServerWrites(f) /\ server' = [server EXCEPT !.asks = n]
    BY <1>1, <1>4, <2>1, <2>2 DEF ServerAsks
  <2>5. /\ server' \in [up : BOOLEAN, held : BOOLEAN, todo : SUBSET Nat, updates : Nat, asks : Nat]
        /\ server'.todo = server.todo /\ server'.asks = n /\ server'.updates = server.updates
    BY <1>1, <2>4
  <2>6. n > 0
    BY <1>1, <2>1
  <2> QED
    BY <2>3, <2>4, <2>5, <2>6, ServerWritesKeeps
<1> QED
  BY <1>2, <1>3, <1>4

\* The server ends, the budget is spent, or nothing happens.
LEMMA ServerExitsKeeps == ASSUME ClientInv, ServerExits PROVE ClientInv'
<1>1. UNCHANGED <<client, clientBudget, writer, reader, stdin, stdout, lines, gone>> /\ Ends
  BY DEF ServerExits, clientThreads, pipes
<1>2. TypeInv /\ OnceInv /\ WriterInv
  BY DEF ClientInv, MatchInv
<1>3. /\ server' \in [up : BOOLEAN, held : BOOLEAN, todo : SUBSET Nat, updates : Nat, asks : Nat]
      /\ server'.todo = {} /\ server'.asks = server.asks /\ server'.updates = server.updates
  BY <1>1, <1>2 DEF Ends, TypeInv
<1>4. InWriter' = InWriter /\ Got' = Got
  BY <1>1 DEF InWriter, Got
<1>5. TypeInv'
  BY <1>1, <1>2, <1>3 DEF TypeInv
<1>6. OnceInv' /\ Outstanding' \subseteq Outstanding
  BY <1>1, <1>2, <1>3, <1>4 DEF OnceInv, Outstanding
<1>7. WriterInv'
  BY <1>1, <1>2, <1>3 DEF WriterInv, Active
<1>8. MatchInv'
  BY <1>1, <1>3, <1>5, <1>6, <1>7, OthersMove DEF ClientInv
<1>9. UpdateInv'
  BY <1>1, <1>3, <1>4 DEF ClientInv, UpdateInv
<1> QED
  BY <1>8, <1>9 DEF ClientInv

\* The deadline of the evaluation passes, or nothing happens.
LEMMA ExpireKeeps == ASSUME ClientInv, ClientExpires \/ UNCHANGED clientVars PROVE ClientInv'
<1>1. UNCHANGED <<client, writer, reader, stdin, stdout, server, lines, gone>>
      /\ (clientBudget' = clientBudget \/ clientBudget' = [clientBudget EXCEPT !.exhausted = TRUE])
  BY DEF ClientExpires, clientVars, clientThreads, pipes
<1>2. TypeInv /\ OnceInv /\ WriterInv
  BY DEF ClientInv, MatchInv
<1>3. clientBudget' \in [requests : Nat, exhausted : BOOLEAN] /\ (clientBudget.exhausted => clientBudget'.exhausted)
  BY <1>1, <1>2 DEF TypeInv
<1>4. InWriter' = InWriter /\ Got' = Got
  BY <1>1 DEF InWriter, Got
<1>5. TypeInv'
  BY <1>1, <1>2, <1>3 DEF TypeInv
<1>6. OnceInv' /\ Outstanding' = Outstanding
  BY <1>1, <1>2, <1>4 DEF OnceInv, Outstanding
<1>7. WriterInv'
  BY <1>1, <1>2 DEF WriterInv, Active
<1>8. MatchInv'
  BY <1>1, <1>3, <1>5, <1>6, <1>7, OthersMove DEF ClientInv
<1>9. UpdateInv'
  BY <1>1, <1>4 DEF ClientInv, UpdateInv
<1> QED
  BY <1>8, <1>9 DEF ClientInv

-----------------------------------------------------------------------------
(* The theorems.                                                            *)

\* A connection begins with empty queues.
LEMMA ClientInit == McpInit => ClientInv
<1> SUFFICES ASSUME McpInit PROVE ClientInv
  OBVIOUS
<1> USE DEF McpInit
<1>1. TypeInv
  <2>1. <<>> \in Seq(Frames)
    OBVIOUS
  <2>2. client \in Clients
    BY <2>1 DEF Clients, Outcomes
  <2> QED
    BY <2>1, <2>2 DEF TypeInv, Writers
<1>2. \A kind : Ids(<<>>, kind) = {} /\ Single(<<>>, kind)
  BY DEF Ids, Single
<1>3. \A base : Explained(<<>>, base)
  BY DEF Explained
<1>4. InWriter = {}
  BY DEF InWriter
<1>5. Outstanding = {}
  BY <1>2, <1>4 DEF Outstanding
<1>6. OnceInv
  BY <1>2, <1>4 DEF OnceInv
<1>7. ~Active
  BY DEF Active
<1>8. FreshInv /\ WriterInv /\ CoverInv /\ NoFalseMismatch
  BY <1>2, <1>5, <1>7 DEF FreshInv, WriterInv, CoverInv, Covered, NoFalseMismatch
<1>9. UpdateInv
  <2>1. 1 .. 0 = {}
    OBVIOUS
  <2> QED
    BY <1>2, <1>3, <2>1 DEF UpdateInv, Got
<1> QED
  BY <1>1, <1>6, <1>8, <1>9 DEF ClientInv, MatchInv

\* Every step keeps the invariant, and loses no update.
LEMMA ClientNext == ClientInv /\ [McpNext]_clientVars => ClientInv' /\ Missed
<1> SUFFICES ASSUME ClientInv, [McpNext]_clientVars PROVE ClientInv' /\ Missed
  OBVIOUS
<1>1. CASE Proceed
  BY <1>1, WrittenKeeps, WriteFailsKeeps, NotifyKeeps, TakeUpdateKeeps, TakeResponseKeeps,
     TakeAskAnswerKeeps, TakeAskElsewhereKeeps, TimesOutKeeps, ClosedKeeps, TakeWaitingKeeps,
     DropKeeps DEF Proceed
<1>2. CASE Start
  BY <1>2, BeginKeeps, BeginWaitKeeps, DropKeeps DEF Start
<1>3. CASE Threads
  <2>1. client' = client
    BY <1>3 DEF Threads, WriterWrites, WriterEnds, ReaderReads, ReaderEnds
  <2> QED
    BY <1>3, <2>1, WriterWritesKeeps, WriterEndsKeeps, ReaderReadsKeeps, ReaderEndsKeeps
       DEF Threads, Missed
<1>4. CASE Server
  <2>1. client' = client
    BY <1>4 DEF Server, ServerReads, ServerAnswers, ServerUpdates, ServerAsks, ServerExits, ServerWrites
  <2> QED
    BY <1>4, <2>1, ServerReadsKeeps, ServerSendsKeeps, ServerExitsKeeps DEF Server, Missed
<1>5. CASE ClientExpires \/ UNCHANGED clientVars
  BY <1>5, ExpireKeeps DEF ClientExpires, clientVars, Missed
<1> QED
  BY <1>1, <1>2, <1>3, <1>4, <1>5 DEF McpNext

\* A server that answers each request at most once, however late, and asks
\* nothing itself is never reported for a response that does not match: the
\* ids of the requests that were given up are kept until their answers come
\* (is_abandoned_reply, abandon).
THEOREM ResponsesMatch == McpSpec => []NoFalseMismatch
<1>1. ClientInv => NoFalseMismatch
  BY DEF ClientInv, MatchInv
<1> QED
  BY <1>1, ClientInit, ClientNext, PTL DEF McpSpec

\* A wait for an update that misses leaves behind no update that the server
\* had sent before the last response that was taken: it has been reported, or
\* was skipped by an operation that does not keep updates, or the connection
\* has failed (remember_notification, wait_for_resource_update).
THEOREM UpdatesAreKept == McpSpec => UpdatesKept
<1>1. ClientInv /\ [McpNext]_clientVars =>
         (client' # client /\ client'.pc = "idle" /\ client'.outcome = "missed" =>
             client'.failed \/ 1 .. client.before \subseteq gone)
  BY ClientNext DEF Missed
<1> QED
  BY <1>1, ClientInit, ClientNext, PTL DEF McpSpec, UpdatesKept
=============================================================================
