--------------------------- MODULE YamlExporter ---------------------------
(***************************************************************************)
(* YamlRulesetExporter.export_payload (exporter_yaml.py): a ruleset in the *)
(* authoring vocabulary the compiler reads.  Refused stands for the        *)
(* TypeError or ValueError of a value that has no place in it.             *)
(***************************************************************************)
EXTENDS PythonValues, TLC

Mapping(entries) == IF Built(entries) = Refused THEN Refused ELSE PyMapping(entries)

\* One entry, left out when the value is absent.
Given(k, v, present) == IF present THEN k :> v ELSE [j \in {} |-> v]
Optional(k, v) == Given(k, v, v # PyNone)

RECURSIVE ExportValue(_), ExportArg(_), ExportOperand(_)

ExportValue(v) ==
  CASE IsOperand(v) -> Refused
    [] IsCollection(v) \/ IsMapping(v) -> Rebuilt(v, ExportValue)
    [] OTHER -> v

\* Custom-function arguments may hold operands at any depth.
ExportArg(v) ==
  CASE IsOperand(v) -> ExportOperand(v)
    [] IsCollection(v) \/ IsMapping(v) -> Rebuilt(v, ExportArg)
    [] OTHER -> ExportValue(v)

\* An untyped default that is no mapping is written bare, without its own default.
ExportDefault(default) ==
  IF default.value_type # PyNone \/ IsMapping(default.value)
  THEN ExportOperand(default) ELSE ExportValue(default.value)

WithoutDefaultPayload(operand) ==
  CASE operand.kind = "literal" ->
         ("literal" :> ExportValue(operand.value)) @@ Optional("value_type", operand.value_type)
    [] operand.kind = "custom_function" ->
         "custom_function" :>
           Mapping(("name" :> operand.name) @@ ("args" :> Rebuilt(operand.args, ExportArg)))
    [] OTHER -> operand.kind :> operand.name

ExportOperand(operand) ==
  LET default == operand.default_if_null
  IN  Mapping(WithoutDefaultPayload(operand) @@
        Given("default_if_null", ExportDefault(default), default # PyNone))

\* format(value, "f"): the value of a decimal, not how it was written.
ExportDecimal(v) == PyDigits(v.number)

ExportCondition(c) ==
  Mapping(
    ("condition_id" :> c.condition_id) @@ ("left" :> ExportOperand(c.left)) @@
    ("operator" :> c.operator) @@
    Optional("right", IF c.right = PyNone THEN PyNone ELSE ExportOperand(c.right)) @@
    ("tolerance_abs" :> ExportDecimal(c.tolerance_abs)) @@
    Given("error_on_null", c.error_on_null, c.error_on_null = PyBool(TRUE)) @@
    ("active_flag" :> c.active_flag))

Concat(a, b) == IF Refused \in {a, b} THEN Refused ELSE PyList(a.items \o b.items)

\* A group's conditions come before its nested groups, however they were authored.
RECURSIVE ExportGroup(_)
ExportGroup(g) ==
  Mapping(("condition_group_id" :> g.condition_group_id) @@
          (g.logical_operator.text :>
             Concat(ListOf(g.conditions.items, ExportCondition),
                    ListOf(g.groups.items, ExportGroup))))

ExportAssignmentUnnamed(a) ==   \* mutant: the id is left to the compiler to make
  Mapping(("target_field" :> a.target_field) @@ ("value" :> ExportOperand(a.value)))
ExportAssignment(a) ==
  Mapping(("assignment_id" :> a.assignment_id) @@ ("target_field" :> a.target_field) @@
          ("value" :> ExportOperand(a.value)))

ExportRule(r) ==
  Mapping(
    ("rule_id" :> r.rule_id) @@ ("rule_name" :> r.rule_name) @@
    ("rule_order" :> r.rule_order) @@ ("active_flag" :> r.active_flag) @@
    ("stop_on_match" :> r.stop_on_match) @@ Optional("description", r.description) @@
    ("when" :> ExportGroup(r.root_group)) @@
    ("assign" :> ListOf(r.assignments.items, ExportAssignment)))

ExportPayload(ruleset) ==
  Mapping(
    ("ruleset_id" :> ruleset.ruleset_id) @@ ("ruleset_name" :> ruleset.ruleset_name) @@
    ("version" :> ruleset.version) @@ Optional("description", ruleset.description) @@
    Optional("owner", ruleset.owner) @@
    Optional("owner_department", ruleset.owner_department) @@
    ("rules" :> ListOf(ruleset.rules.items, ExportRule)))
=============================================================================
