----------------------------- MODULE MCStandard -----------------------------
(* Small instances of Command and Standard: a server whose tools do whatever *)
(* a tool can do, and one whose protocol does; and schemas for ToolInput. A  *)
(* behaviour is either a command at work or a schema, which does not change. *)
EXTENDS Command, ToolInput

VARIABLE document   \* the schema, or NoDocument

\* Marks of the logarithmic curve, rounded, at the sizes of the instances.
MCLogCurve(value, full, zero) ==
    IF value <= full THEN 100 ELSE IF value >= zero THEN 0 ELSE 54

Facts(n) == [described |-> n > 0, properties |-> 2, describedProperties |-> n,
             typedProperties |-> 2, readOnly |-> n > 1, destructive |-> FALSE,
             outputSchema |-> n > 0]
A(readOnly, destructive, schema) ==
    [name |-> "a", readOnly |-> readOnly, destructive |-> destructive, refusable |-> TRUE,
     synthesizable |-> TRUE, strings |-> TRUE, schema |-> schema, tokens |-> 1500,
     facts |-> Facts(1)]
B == [A("true", "none", FALSE) EXCEPT !.name = "b", !.refusable = FALSE, !.strings = FALSE,
                                      !.facts = Facts(2)]
Unsynthesizable == [B EXCEPT !.synthesizable = FALSE]

Fine == [refusal |-> {"refused"}, pong |-> {"pong"}, call |-> {"success"},
         case |-> {"passed"}, check |-> {"none"}]
Tools_ == [Fine EXCEPT
             !.refusal = {"refused", "honesty-accepted-invalid", "lost"},
             !.call = {"success", "off-schema", "tool-error", "rejected", "lost"},
             !.case = {"passed", "failed", "lost"}]
Words == [Fine EXCEPT !.refusal = {"error-with-words", "honesty-empty-error", "honesty-wrong-code"},
                      !.pong = {"pong", "lost"}, !.call = {"success", "rpc-error"}]
Frail == [Fine EXCEPT !.check = {"none", "invalid", "lost"}]

Of(tools, answers) ==
    {[tools |-> tools, answers |-> answers, attested |-> attested, skip |-> skip,
      declares |-> TRUE, comesBack |-> BOOLEAN] : attested \in BOOLEAN, skip \in {{}, {"a"}}}

\* Floors and manifests are for small surfaces.
Steady == [Fine EXCEPT !.call = {"success", "tool-error"}]
Commanded == {s \in Of(<<B>>, Steady) : s.attested}

MCSurfaces ==
    Of(<<A("true", "none", TRUE), B>>, Tools_)
    \cup Of(<<B, A("none", "none", FALSE)>>, Tools_)
    \cup Of(<<A("none", "none", FALSE), Unsynthesizable>>, Words)
    \cup Of(<<A("true", "true", FALSE)>>, Words)
    \cup Of(<<A("none", "true", FALSE), B>>, Frail)
    \cup Of(<<>>, Frail)
    \cup Commanded
    \cup {[s EXCEPT !.declares = FALSE] : s \in Of(<<B>>, Frail)}

MCLatencies == {100, 2000}

NoFloors == [score |-> {}, excludeLatency |-> FALSE, areas |-> <<>>]
Plainly == [is |-> "score", floors |-> NoFloors, gateOnly |-> FALSE, selected |-> FALSE]
Probe == [Plainly EXCEPT !.is = "probe"]
FloorsUsed ==
    {[score |-> {80}, excludeLatency |-> e, areas |-> <<>>] : e \in BOOLEAN}
    \cup {[NoFloors EXCEPT !.areas = [a \in {"reliability"} |-> 60]]}
MCCommandsOn(s) ==
    IF s \notin Commanded THEN {Plainly}
    ELSE {[c EXCEPT !.floors = f] : c \in {Plainly, Probe}, f \in FloorsUsed}
         \cup {[Plainly EXCEPT !.floors.excludeLatency = TRUE]}
         \cup {[Probe EXCEPT !.gateOnly = g, !.selected = h] : g, h \in BOOLEAN}
         \cup {[Probe EXCEPT !.gateOnly = TRUE, !.floors = f] : f \in FloorsUsed}

-----------------------------------------------------------------------------
(* ToolInput: an object of two properties, one of which may be anything that *)
(* synthesize_value tells apart, and a definition that may refer to itself.  *)
Typed(type) == [Anything EXCEPT !.type = <<type>>]
Null == Typed("null")
Given(v, binding) == [type |-> <<>>, rule |-> "given", value |-> v, binding |-> binding] @@ Anything
Ref(to) == [rule |-> "ref", to |-> to] @@ Anything
Branch(b) == [rule |-> "branch", branches |-> b] @@ Anything
Arr(n, items) == [Typed("array") EXCEPT !.minItems = n, !.items = items]
Obj(required, properties) ==
    [Typed("object") EXCEPT !.required = required, !.properties = properties]
Self == Obj(<<"a">>, "a" :> Ref("#"))
Fields ==
    {Anything, Null, Typed("string"), Typed("integer"), Typed("boolean"),
     [Typed("integer") EXCEPT !.minimum = {5}], [Typed("integer") EXCEPT !.exclusive = {5}],
     [Typed("integer") EXCEPT !.maximum = {0}],
     [Typed("string") EXCEPT !.min = 20], [Typed("string") EXCEPT !.min = 19], [Typed("string") EXCEPT !.max = 3],
     [Typed("string") EXCEPT !.format = 10], [Typed("string") EXCEPT !.pattern = TRUE],
     [Anything EXCEPT !.type = <<"null", "integer">>],
     [Anything EXCEPT !.type = <<"null">>],
     Ref("#"), Ref("d"), Ref("nowhere"), [Ref("d") EXCEPT !.type = <<"string">>],
     Given(Text(3), TRUE), [Given(Number(7), TRUE) EXCEPT !.type = <<"string">>],
     Given(List(<<Text(1), Object("b" :> Plain("null"))>>), FALSE),
     Given(List(<<List(<<List(<<Plain("null")>>)>>)>>), FALSE),
     Branch(<<Typed("string"), Null>>)}
    \cup {Arr(n, i) : n \in 0 .. 3, i \in {None, Null, Arr(3, Null), Ref("d"), Typed("integer")}}
    \cup {Obj(r, "b" :> f) : r \in {<<>>, <<"b">>, <<"b", "b">>}, f \in {Null, Ref("#"), Typed("string")}}
Definitions == {Null, Ref("d"), Arr(2, Ref("d")), Obj(<<"a", "b">>, ("a" :> Ref("#")) @@ ("b" :> Ref("d")))}
Roots ==
    {[Obj(r, ps) EXCEPT !.open = open, !.patterned = pat] :
        r \in {<<>>, <<"a">>, <<"a", "b">>, <<"c">>}, open \in BOOLEAN, pat \in BOOLEAN,
        ps \in {("a" :> f) @@ ("b" :> g) : f \in Fields, g \in {Anything, [Typed("string") EXCEPT !.min = 19], Arr(2, Null)}}}
    \cup {Obj(<<>>, <<>>), [Obj(<<>>, <<>>) EXCEPT !.open = FALSE]}
MCDocuments == {("#" :> r) @@ ("d" :> d) : r \in Roots, d \in Definitions}

NoDocument == "#" :> None
-----------------------------------------------------------------------------
MCInit ==
    \/ CommandInit /\ document = NoDocument
    \/ /\ CommandInit /\ surface = CHOOSE s \in Surfaces : s.tools = <<>> /\ s.skip = {}
       /\ document \in MCDocuments
MCNext == document = NoDocument /\ CommandNext /\ UNCHANGED document
MCSpec == MCInit /\ [][MCNext]_<<vars, commandVars, document>>

ArgumentsServeTheirPurpose ==
    document # NoDocument => InputsServeTheirPurpose(document, <<"a", "b">>)
=============================================================================
