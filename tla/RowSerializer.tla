--------------------------- MODULE RowSerializer ---------------------------
(***************************************************************************)
(* DeltaRowSerializer (serializer.py): a ruleset version to the JSON text  *)
(* of its row and back.  The text is the tree it spells.  Python types     *)
(* JSON lacks travel in envelopes, objects with the two reserved keys      *)
(* below, and a user's mapping that has the first of them is escaped in an *)
(* envelope of its own.                                                    *)
(***************************************************************************)
EXTENDS YamlCompiler, YamlExporter

TypeKey == "$rules_engine_type"
ValueKey == "value"

\* A number of the JSON text, as it is spelled; "marked" is an integer with an e0.
JsonNumber(n, spelling) == [type |-> "json_number", number |-> n, spelling |-> spelling]

TaggedJson(type, encoded) ==
  IF encoded = Refused THEN Refused
  ELSE PyMapping((TypeKey :> PyText(type)) @@ (ValueKey :> encoded))

IsoText(v) == PyText(CHOOSE t \in DOMAIN Spelling : Spelling[t] = v)

\* A float's exponent is spelled e+16, a Decimal's E+16.
FloatSpelling(n) == IF FloatForm(n) = "exponent" THEN "e" ELSE "point"
DecimalSpelling(form) ==
  CASE form = "integral" -> "marked" [] form = "exponent" -> "E" [] OTHER -> form

EscapedNever(v, encoded) == encoded   \* mutant: user data may look like an envelope
Escaped(v, encoded) ==
  IF HasKey(v, TypeKey) THEN TaggedJson("mapping", encoded) ELSE encoded

RECURSIVE CanonicalJson(_)
CanonicalJson(v) ==
  CASE v.type = "decimal" -> JsonNumber(v.number, DecimalSpelling(v.form))
    [] v.type = "float" -> JsonNumber(v.number, FloatSpelling(v.number))
    [] v.type = "int" -> JsonNumber(v.number, "int")
    [] v = PyNonfinite -> Refused
    [] v.type = "instant" -> TaggedJson("datetime", IsoText(v))
    [] v.type = "day" -> TaggedJson("date", IsoText(v))
    [] v.type = "tuple" -> TaggedJson("tuple", ListOf(v.items, CanonicalJson))
    [] v.type = "set" -> TaggedJson("set", ListOf(SetToSeq(v.members), CanonicalJson))
    [] v.type = "list" -> Rebuilt(v, CanonicalJson)
    [] IsMapping(v) -> Escaped(v, Rebuilt(v, CanonicalJson))
    [] OTHER -> v

\* json.loads(text, parse_float=Decimal)
RECURSIVE JsonLoads(_)
JsonLoads(v) ==
  CASE v.type = "json_number" ->
         (CASE v.spelling = "int" -> PyInt(v.number)
            [] v.spelling = "marked" -> PyDecimal(v.number, "integral")
            [] v.spelling = "point" -> PyDecimal(v.number, "point")
            [] OTHER -> PyDecimal(v.number, "exponent"))
    [] v.type \in {"mapping", "list"} -> Rebuilt(v, JsonLoads)
    [] OTHER -> v

UnescapedKept(envelope, contents) == envelope   \* mutant: the escape stays
Unescaped(envelope, contents) == contents

IsEnvelope(v) == DOMAIN v.entries = {TypeKey, ValueKey}

RECURSIVE DecodeJsonTypes(_)
DecodeJsonTypes(v) ==
  CASE v.type = "list" -> Rebuilt(v, DecodeJsonTypes)
    [] ~IsMapping(v) -> v
    [] IsMapping(v) /\ ~IsEnvelope(v) -> Rebuilt(v, DecodeJsonTypes)
    [] OTHER ->
         LET type == v.entries[TypeKey]
             encoded == v.entries[ValueKey]
             contents == Rebuilt(encoded, DecodeJsonTypes)
         IN  CASE type = PyText("date") -> Spelled(encoded, "day")
               [] type = PyText("datetime") -> Spelled(encoded, "instant")
               [] type = PyText("tuple") /\ encoded.type = "list" ->
                    IF contents = Refused THEN Refused ELSE PyTuple(contents.items)
               [] type = PyText("set") /\ encoded.type = "list" ->
                    IF contents = Refused THEN Refused ELSE SetOf(ToSet(contents.items))
               [] type = PyText("mapping") /\ IsMapping(encoded) -> Unescaped(v, contents)
               [] OTHER -> Refused

(***************************************************************************)
(* The row of a version.  Its content hash stands for the payload text, so *)
(* two rows have the same hash exactly when they have the same payload.    *)
(***************************************************************************)
PayloadJson(ruleset) ==
  LET payload == ExportPayload(ruleset)
  IN  IF payload = Refused THEN Refused ELSE CanonicalJson(payload)

ConditionsOf(ruleset) ==
  LET rules == ruleset.rules.items
  IN  FlattenSeq([i \in DOMAIN rules |-> ConditionsIn(rules[i].root_group)])
AssignmentsOf(ruleset) ==
  LET rules == ruleset.rules.items
  IN  FlattenSeq([i \in DOMAIN rules |-> rules[i].assignments.items])

\* Nested calls are counted; the operands of default_if_null are not.
CustomFunctionCount(ruleset) ==
  LET conditions == ConditionsOf(ruleset)
      sides == FlattenSeq([i \in DOMAIN conditions |-> Sides(conditions[i])])
      assignments == AssignmentsOf(ruleset)
      roots == sides \o [i \in DOMAIN assignments |-> assignments[i].value]
      all == FlattenSeq([i \in DOMAIN roots |-> OperandTree(roots[i])])
  IN  Len(SelectSeq(all, LAMBDA o : o.kind = "custom_function"))

SerializeRulesetVersion(ruleset) ==
  LET payload == PayloadJson(ruleset)
  IN  IF payload = Refused THEN Refused
      ELSE [ruleset_name |-> ruleset.ruleset_name, payload_json |-> payload,
            content_hash |-> payload,
            rule_count |-> Len(ruleset.rules.items),
            condition_count |-> Len(ConditionsOf(ruleset)),
            assignment_count |-> Len(AssignmentsOf(ruleset)),
            custom_function_count |-> CustomFunctionCount(ruleset)]

DeserializeRulesetVersion(row) ==
  LET payload == DecodeJsonTypes(JsonLoads(row.payload_json))
  IN  IF payload = Refused THEN Refused ELSE CompilePayload(payload)
=============================================================================
