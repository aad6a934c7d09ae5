------------------------------ MODULE ToolInput ------------------------------
(***************************************************************************)
(* The arguments that the standard battery calls a tool with               *)
(* (src/src/standard.rs:374-624): valid ones built from the tool's input   *)
(* schema, within a budget that a schema which refers to itself cannot     *)
(* outgrow, and ones that the tool must refuse.                            *)
(*                                                                         *)
(* A schema has a type, a sequence of names that is empty where none is    *)
(* declared, and a rule, the first of synthesize_value's that applies:     *)
(*   "ref"      $ref to a definition of the document or, with "#", to it   *)
(*   "given"    const, enum (both binding), default or examples            *)
(*   "branch"   anyOf, oneOf                                               *)
(*   "type"     none of these                                              *)
(* Lengths stand for texts; numbers are integers.                          *)
(***************************************************************************)
EXTENDS Integers, Sequences, SequencesExt, FiniteSetsExt

CONSTANTS
    MaxSchemaDepth,     \* MAX_SCHEMA_DEPTH, 8
    MaxInputBytes,      \* MAX_INPUT_BYTES, 64 KiB
    MaxInputNodes,      \* MAX_INPUT_NODES, 4096
    MaxArrayItems,      \* MAX_ARRAY_ITEMS, 256
    MaxStringBytes      \* MAX_STRING_BYTES, 16 KiB

\* What a schema says nothing of is as in Anything: None, {} where a bound would
\* be the member of a set.
None == [is |-> "none"]
Anything ==
    [type |-> <<>>, rule |-> "type", format |-> 0, pattern |-> FALSE, min |-> 0, max |-> 100,
     minimum |-> {}, exclusive |-> {}, maximum |-> {}, items |-> None, minItems |-> 0,
     required |-> <<>>, properties |-> <<>>, open |-> TRUE, patterned |-> FALSE]

Text(n) == [is |-> "string", length |-> n]
Number(n) == [is |-> "integer", number |-> n]
Plain(type) == [is |-> type]
List(items) == [is |-> "array", items |-> items]
Object(fields) == [is |-> "object", fields |-> fields]

\* A name of the models is one letter long.
NameBytes == 1
Mcpeval == 7
Unknown == "mcpeval_unknown"
-----------------------------------------------------------------------------
(* InputBudget: what is left of it, or Spent *)

Spent == [bytes |-> 0, nodes |-> 0, spent |-> TRUE]
Whole == [bytes |-> MaxInputBytes, nodes |-> MaxInputNodes, spent |-> FALSE]

\* (Mutant of Charge.) Only the bytes of a single text count as too many.
ChargeOneByOne(left, bytes) ==
    IF left.spent \/ bytes > MaxInputBytes \/ left.nodes = 0 THEN Spent
    ELSE [left EXCEPT !.nodes = @ - 1]
Charge(left, bytes) ==
    IF left.spent \/ left.bytes < bytes \/ left.nodes = 0 THEN Spent
    ELSE [left EXCEPT !.bytes = @ - bytes, !.nodes = @ - 1]

\* A text may have to be escaped, each byte of it by six.
Escaped(n) == 6 * n

RECURSIVE ChargeValue(_, _, _)
ChargeValue(left, value, depth) ==
    IF depth > MaxSchemaDepth THEN Spent
    ELSE CASE value.is = "string" -> Charge(left, Escaped(value.length) + 2)
           [] value.is = "array" ->
                FoldLeft(LAMBDA l, item : ChargeValue(l, item, depth + 1),
                         Charge(left, 2 + Len(value.items)), value.items)
           [] value.is = "object" ->
                FoldSet(LAMBDA name, l :
                            ChargeValue(Charge(l, Escaped(NameBytes) + 3),
                                        value.fields[name], depth + 1),
                        Charge(left, 2 + Cardinality(DOMAIN value.fields)), DOMAIN value.fields)
           [] OTHER -> Charge(left, 32)
-----------------------------------------------------------------------------
(* synthesize: a value and what is left; there is no value once it is Spent *)

Refused == [value |-> None, left |-> Spent]
Made(value, left) == IF left.spent THEN Refused ELSE [value |-> value, left |-> left]

StringValue(schema, left) ==
    IF schema.format > 0 THEN Made(Text(schema.format), Charge(left, schema.format + 2))
    ELSE IF schema.pattern \/ schema.min > MaxStringBytes THEN Refused
    ELSE LET long == Max({schema.min, Mcpeval})
         IN Made(Text(Min({schema.max, long})), Charge(left, long + 2))

NumberValue(schema) ==
    LET least == CASE schema.minimum # {}   -> Max(schema.minimum)
                   [] schema.exclusive # {} -> Max(schema.exclusive) + 1
                   [] OTHER                 -> 1
    IN Min({least} \cup schema.maximum)

RECURSIVE ObjectValue(_, _, _, _), SynthesizeValue(_, _, _, _)

\* Every required property, and nothing else.
ObjectValue(schema, document, depth, left) ==
    LET With(made, name) ==
            IF made.left.spent \/ name \notin DOMAIN schema.properties THEN Refused
            ELSE LET field == SynthesizeValue(schema.properties[name], document, depth + 1,
                                              Charge(made.left, Escaped(NameBytes) + 4))
                 IN Made(Object([n \in DOMAIN made.value.fields \cup {name} |->
                             IF n = name THEN field.value ELSE made.value.fields[n]]), field.left)
    IN IF depth > MaxSchemaDepth THEN Refused
       ELSE FoldLeft(With, Made(Object(<<>>), Charge(left, 2)), schema.required)

ArrayValue(schema, document, depth, left) ==
    LET With(made, k) ==
            IF made.left.spent \/ schema.items = None THEN Refused
            ELSE LET item == SynthesizeValue(schema.items, document, depth + 1, made.left)
                 IN Made(List(Append(made.value.items, item.value)), item.left)
    IN IF schema.minItems > MaxArrayItems THEN Refused
       ELSE FoldLeft(With, Made(List(<<>>), Charge(left, 2 + schema.minItems)),
                     [k \in 1 .. schema.minItems |-> k])

SynthesizeValue(schema, document, depth, left) ==
    LET kinds == SelectSeq(schema.type, LAMBDA kind : Len(schema.type) = 1 \/ kind # "null")
    IN CASE left.spent \/ depth > MaxSchemaDepth -> Refused
         [] schema.rule = "ref" ->
              IF schema.to \in DOMAIN document
              THEN SynthesizeValue(document[schema.to], document, depth + 1, left) ELSE Refused
         [] schema.rule = "given" ->
              Made(schema.value, ChargeValue(left, schema.value, depth))
         [] schema.rule = "branch" ->
              SynthesizeValue(schema.branches[1], document, depth + 1, left)
         [] schema.rule = "type" /\ kinds = <<>> -> Refused
         [] schema.rule = "type" /\ kinds # <<>> ->
              CASE kinds[1] = "string"  -> StringValue(schema, left)
                [] kinds[1] = "integer" -> Made(Number(NumberValue(schema)), Charge(left, 32))
                [] kinds[1] = "boolean" -> Made(Plain("boolean"), Charge(left, 5))
                [] kinds[1] = "null"    -> Made(Plain("null"), Charge(left, 4))
                [] kinds[1] = "array"   -> ArrayValue(schema, document, depth, left)
                [] kinds[1] = "object"  -> ObjectValue(schema, document, depth, left)
-----------------------------------------------------------------------------
(* jsonschema: what conforms to a schema (schema.rs, conforms) *)

RECURSIVE Conforms(_, _, _)
Conforms(schema, document, value) ==
    /\ schema.type = <<>> \/ \E k \in DOMAIN schema.type : schema.type[k] = value.is
    /\ schema.rule = "ref" =>
          schema.to \in DOMAIN document /\ Conforms(document[schema.to], document, value)
    /\ schema.rule = "given" /\ schema.binding => value = schema.value
    /\ schema.rule = "branch" =>
          \E k \in DOMAIN schema.branches : Conforms(schema.branches[k], document, value)
    /\ value.is = "string" /\ schema.format = 0 =>
          value.length >= schema.min /\ value.length <= schema.max
    /\ value.is = "integer" =>
         /\ \A bound \in schema.minimum : value.number >= bound
         /\ \A bound \in schema.exclusive : value.number > bound
         /\ \A bound \in schema.maximum : value.number <= bound
    /\ value.is = "array" =>
         /\ Len(value.items) >= schema.minItems
         /\ schema.items # None =>
              \A k \in DOMAIN value.items : Conforms(schema.items, document, value.items[k])
    /\ value.is = "object" =>
         /\ \A k \in DOMAIN schema.required : schema.required[k] \in DOMAIN value.fields
         /\ \A name \in DOMAIN value.fields :
               IF name \in DOMAIN schema.properties
               THEN Conforms(schema.properties[name], document, value.fields[name])
               ELSE schema.open \/ schema.patterned

\* Valid arguments from the document alone, or none.
Synthesize(document) ==
    LET made == ObjectValue(document["#"], document, 0, Whole)
    IN IF ~made.left.spent /\ Conforms(document["#"], document, made.value)
       THEN made.value ELSE None
-----------------------------------------------------------------------------
(* invalid_arguments *)

\* (Mutant of WrongFor.) The same text is put where a text is asked for.
AlwaysMcpeval(type) == Text(Mcpeval)
WrongFor(type) == IF type = "string" THEN Number(12345) ELSE Text(Mcpeval)

\* The rule that applies first; the first typed property is that of the first
\* name in the order of names.
InvalidArguments(schema, names) ==
    LET typed == SelectSeq(names, LAMBDA n : n \in DOMAIN schema.properties
                                             /\ Len(schema.properties[n].type) = 1)
    IN CASE schema.required # <<>> -> Object(<<>>)
         [] schema.required = <<>> /\ typed # <<>> ->
              Object([n \in {typed[1]} |-> WrongFor(schema.properties[n].type[1])])
         [] schema.required = <<>> /\ typed = <<>> /\ ~schema.open ->
              Object([n \in {Unknown} |-> Number(1)])
         [] OTHER -> None
-----------------------------------------------------------------------------
\* The bytes of a value as JSON, its texts escaped no further than they can be.
RECURSIVE Serialized(_)
Serialized(value) ==
    LET names == DOMAIN value.fields
        commas(n) == IF n = 0 THEN 0 ELSE n - 1
    IN CASE value.is = "string"  -> value.length + 2
         [] value.is = "array"   ->
              2 + commas(Len(value.items))
                + FoldLeft(LAMBDA x, item : x + Serialized(item), 0, value.items)
         [] value.is = "object"  ->
              2 + commas(Cardinality(names))
                + FoldSet(LAMBDA n, x : x + NameBytes + 3 + Serialized(value.fields[n]), 0, names)
         [] value.is = "integer" -> 1
         [] OTHER                -> 4

\* Whatever a tool declares, a schema that refers to itself included, what it is
\* called with is no larger than the budget, and what it has to refuse is
\* refused by its schema; else an honest tool would be marked down for
\* accepting it. (A pattern property may take the unknown name: then it does.)
InputsServeTheirPurpose(document, names) ==
    LET schema == document["#"]
        valid == Synthesize(document)
        invalid == InvalidArguments(schema, names)
    IN  /\ valid # None => Serialized(valid) <= MaxInputBytes
        /\ invalid # None /\ ~schema.patterned => ~Conforms(schema, document, invalid)
=============================================================================
