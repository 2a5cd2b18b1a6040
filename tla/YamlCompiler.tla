--------------------------- MODULE YamlCompiler ---------------------------
(***************************************************************************)
(* YamlRulesetCompiler.compile_payload (compiler_yaml.py): from the parsed *)
(* mapping of a YAML document, or of a persisted row, to a ruleset.        *)
(* Refused stands for the CompilationError of any of its checks.           *)
(***************************************************************************)
EXTENDS PythonValues, TLC

CONSTANT LongMax   \* largest value of an integer literal

LogicalOperators == {"all", "any"}
ComparisonOperators ==
  {"eq", "ne", "gt", "ge", "lt", "le", "in", "not_in", "between", "not_between",
   "like", "not_like", "contains", "not_contains", "starts_with", "ends_with",
   "is_null", "is_not_null"}
OperandKeys == {"field", "assigned", "literal", "custom_function"}

\* Reading an entry of a mapping that may lack it, or may have the wrong type.
Entry(m, k, default) == IF HasKey(m, k) THEN m.entries[k] ELSE default
Checked(v, ok) == IF ok THEN v ELSE Refused
RequireStr(m, k) == LET v == Entry(m, k, PyNone) IN Checked(v, IsNonEmptyText(v))
StrOrDefault(m, k, default) == IF HasKey(m, k) THEN RequireStr(m, k) ELSE default
OptionalStr(m, k) == LET v == Entry(m, k, PyNone) IN Checked(v, v = PyNone \/ IsText(v))
IntOrDefault(m, k, default) == LET v == Entry(m, k, default) IN Checked(v, v.type = "int")
BoolOrDefault(m, k, b) == LET v == Entry(m, k, PyBool(b)) IN Checked(v, v.type = "bool")
OnlyKeys(m, allowed) == DOMAIN m.entries \subseteq allowed

(***************************************************************************)
(* Literals.                                                               *)
(***************************************************************************)
CanonicalHint(hint) ==
  CASE hint.text \in {"int", "long"} -> "integer"
    [] hint.text \in {"float", "number"} -> "double"
    [] hint.text = "str" -> "string"
    [] hint.text = "bool" -> "boolean"
    [] OTHER -> hint.text

IsNumber(v) == v.type \in {"int", "float", "decimal"}
Spelled(v, type) ==
  IF v.type = "text" /\ v.text \in DOMAIN Spelling THEN Checked(Spelling[v.text],
       Spelling[v.text].type = type) ELSE Refused

\* Decimal(str(value)); a bool, a date or other text is no number.
AsDecimal(v) ==
  CASE v.type = "decimal" -> v
    [] v.type \in {"int", "digits"} ->
         PyDecimal(v.number, IF v.number % Unit = 0 THEN "integral" ELSE "point")
    [] v.type = "float" -> PyDecimal(v.number, FloatForm(v.number))
    [] OTHER -> Refused

AsDay(v) ==
  CASE v.type = "instant" -> PyDay(v.day)
    [] v.type = "day" -> v
    [] OTHER -> Spelled(v, "day")

\* A timestamp needs an offset and is turned to UTC; timestamp_ntz must have none.
AsTimestamp(v, aware) ==
  LET t == IF v.type = "instant" THEN v ELSE Spelled(v, "instant")
  IN  IF t = Refused \/ (t.zone # "none") # aware THEN Refused
      ELSE [t EXCEPT !.zone = IF aware THEN "utc" ELSE "none"]

AsInteger(v) ==
  IF IsNumber(v) /\ v.number % Unit = 0 /\ v.number \in -(LongMax + Unit) .. LongMax
  THEN PyInt(v.number) ELSE Refused

NormalizedTyped(v, hint) ==
  IF v = PyNone THEN v
  ELSE CASE hint = "string" -> Checked(v, IsText(v))
         [] hint = "integer" -> AsInteger(v)
         [] hint = "double" -> IF IsNumber(v) THEN PyFloat(v.number) ELSE Refused
         [] hint = "date" -> AsDay(v)
         [] hint = "timestamp" -> AsTimestamp(v, TRUE)
         [] hint = "timestamp_ntz" -> AsTimestamp(v, FALSE)
         [] hint = "boolean" -> Checked(v, v.type = "bool")
         [] hint = "decimal" -> AsDecimal(v)
         [] OTHER -> v

RECURSIVE NormalizedLiteral(_, _)
NormalizedLiteral(v, hint) ==
  IF IsCollection(v) \/ IsMapping(v) THEN Rebuilt(v, LAMBDA x : NormalizedLiteral(x, hint))
  ELSE IF v = PyNonfinite THEN Refused
  ELSE IF hint # PyNone THEN NormalizedTyped(v, CanonicalHint(hint))
  ELSE IF v.type = "float" THEN AsDecimal(v) ELSE v

(***************************************************************************)
(* Operands.                                                               *)
(***************************************************************************)
LiteralOf(v, hint) ==
  LET value == NormalizedLiteral(v, hint)
  IN  IF value = Refused THEN Refused ELSE LiteralOperand(value, hint)

\* The literal and value_type entries of a mapping.
TypedLiteral(m) ==
  LET hint == IF HasKey(m, "value_type") THEN RequireStr(m, "value_type") ELSE PyNone
  IN  IF hint = Refused THEN Refused ELSE LiteralOf(m.entries["literal"], hint)

CompileDefaultIfNull(v) ==
  LET bare == ~IsMapping(v)
      raw == IF bare THEN v ELSE Entry(v, "literal", PyNone)
  IN  IF raw = PyNone \/ (~bare /\ ~OnlyKeys(v, {"literal", "value_type"})) THEN Refused
      ELSE IF bare THEN LiteralOf(v, PyNone) ELSE TypedLiteral(v)

RECURSIVE CompileOperand(_), CompileArg(_)

CompileArg(v) ==
  IF IsMapping(v) /\ OperandKeys \cap DOMAIN v.entries # {} THEN CompileOperand(v)
  ELSE IF IsMapping(v) \/ IsCollection(v) THEN Rebuilt(v, CompileArg)
  ELSE NormalizedLiteral(v, PyNone)

CompileCall(call) ==
  IF ~IsMapping(call) \/ ~OnlyKeys(call, {"name", "args"}) THEN Refused
  ELSE LET name == RequireStr(call, "name")
           raw == Entry(call, "args", PyMapping([k \in {} |-> PyNone]))
           args == IF IsMapping(raw) THEN Rebuilt(raw, CompileArg) ELSE Refused
       IN  IF Refused \in {name, args} THEN Refused ELSE CustomFunctionOperand(name, args)

WithoutDefault(kind, m) ==
  CASE kind = "literal" -> TypedLiteral(m)
    [] kind = "custom_function" -> CompileCall(m.entries["custom_function"])
    [] OTHER -> LET name == RequireStr(m, kind)
                IN  IF name = Refused THEN Refused
                    ELSE IF kind = "field" THEN FieldOperand(name) ELSE AssignedOperand(name)

CompileOperand(m) ==
  IF ~IsMapping(m) THEN Refused
  ELSE LET kinds == OperandKeys \cap DOMAIN m.entries
           kind == CHOOSE k \in kinds : TRUE
           hints == IF kind = "literal" THEN {"value_type"} ELSE {}
           default == IF HasKey(m, "default_if_null")
                      THEN CompileDefaultIfNull(m.entries["default_if_null"]) ELSE PyNone
       IN  IF Cardinality(kinds) # 1 \/ ~OnlyKeys(m, {kind, "default_if_null"} \cup hints)
           THEN Refused
           ELSE LET operand == WithoutDefault(kind, m)
                IN  IF Refused \in {operand, default} THEN Refused
                    ELSE [operand EXCEPT !.default_if_null = default]

(***************************************************************************)
(* Conditions, groups, assignments and rules.  An id the author leaves out *)
(* is made from the place of its object.                                   *)
(***************************************************************************)
Id(prefix, suffix) == PyText(prefix.text \o suffix)

CompileCondition(m, id) ==
  IF ~OnlyKeys(m, {"condition_id", "left", "operator", "right", "tolerance_abs",
                   "error_on_null", "active_flag"})
  THEN Refused
  ELSE LET operator == RequireStr(m, "operator")
           right == Entry(m, "right", PyNone)
       IN  Built(
             [condition_id |-> StrOrDefault(m, "condition_id", id),
              left |-> CompileOperand(Entry(m, "left", PyNone)),
              operator |-> Checked(operator, operator \in {PyText(o) : o \in ComparisonOperators}),
              right |-> IF right = PyNone THEN PyNone ELSE CompileOperand(right),
              tolerance_abs |-> AsDecimal(Entry(m, "tolerance_abs", PyDigits(0))),
              error_on_null |-> BoolOrDefault(m, "error_on_null", FALSE),
              active_flag |-> BoolOrDefault(m, "active_flag", TRUE)])

LogicalKeys(m) == LogicalOperators \cap DOMAIN m.entries

\* The tuple of the items that pass the test.
Only(items, Test(_)) == PyTuple(SelectSeq(items, Test))

RECURSIVE CompileGroup(_, _)
CompileGroup(m, id) ==
  IF Cardinality(LogicalKeys(m)) # 1 \/ ~OnlyKeys(m, LogicalKeys(m) \cup {"condition_group_id"})
  THEN Refused
  ELSE LET operator == CHOOSE o \in LogicalKeys(m) : TRUE
           group_id == StrOrDefault(m, "condition_group_id", id)
           raw == m.entries[operator]
           Item(i, item) ==
             CASE ~IsMapping(item) -> Refused
               [] IsMapping(item) /\ LogicalKeys(item) # {} -> CompileGroup(item, Id(group_id, ":g" \o ToString(i)))
               [] OTHER -> CompileCondition(item, Id(group_id, ":c" \o ToString(i)))
           items == IF raw.type = "list" /\ group_id # Refused
                    THEN Enumerated(raw.items, Item) ELSE Refused
           IsGroup(item) == "logical_operator" \in DOMAIN item
       IN  IF items = Refused THEN Refused
           ELSE [condition_group_id |-> group_id,
                 logical_operator |-> PyText(operator),
                 conditions |-> Only(items.items, LAMBDA item : ~IsGroup(item)),
                 groups |-> Only(items.items, IsGroup)]

\* assign is a list of assignments, or the shorthand mapping from target to value.
CompileAssignment(m, rule_id) ==
  IF ~IsMapping(m) \/ ~OnlyKeys(m, {"assignment_id", "target_field", "value"}) THEN Refused
  ELSE LET target == RequireStr(m, "target_field")
       IN  IF target = Refused THEN Refused
           ELSE Built(
             [assignment_id |-> StrOrDefault(m, "assignment_id",
                                  PyText("assignment:" \o rule_id.text \o ":" \o target.text)),
              target_field |-> target,
              value |-> CompileOperand(Entry(m, "value", PyNone))])

Shorthand(rule_id, target, v) ==
  IF ~IsTextKey(target) \/ ~IsNonEmptyText(PyText(target)) THEN Refused
  ELSE Built(
    [assignment_id |-> PyText("assignment:" \o rule_id.text \o ":" \o target),
     target_field |-> PyText(target),
     value |-> IF IsMapping(v) THEN CompileOperand(v) ELSE LiteralOf(v, PyNone)])

CompileAssignments(assign, rule_id) ==
  CASE IsMapping(assign) ->
         Enumerated(SetToSeq(DOMAIN assign.entries),
                    LAMBDA i, target : Shorthand(rule_id, target, assign.entries[target]))
    [] assign.type = "list" ->
         Enumerated(assign.items, LAMBDA i, m : CompileAssignment(m, rule_id))
    [] OTHER -> Refused

CompileRule(i, m) ==
  IF ~IsMapping(m) THEN Refused
  ELSE LET rule_id == StrOrDefault(m, "rule_id", PyText("rule:" \o ToString(i)))
           when == Entry(m, "when", PyNone)
       IN  IF \/ rule_id = Refused \/ ~IsMapping(when)
              \/ ~OnlyKeys(m, {"rule_id", "rule_name", "rule_order", "description", "when",
                               "assign", "active_flag", "stop_on_match"})
           THEN Refused
           ELSE Built(
             [rule_id |-> rule_id,
              rule_name |-> RequireStr(m, "rule_name"),
              rule_order |-> IntOrDefault(m, "rule_order", PyInt(i * Unit)),
              root_group |-> CompileGroup(when, PyText("cg:" \o rule_id.text \o ":root")),
              assignments |-> CompileAssignments(Entry(m, "assign", PyNone), rule_id),
              active_flag |-> BoolOrDefault(m, "active_flag", TRUE),
              stop_on_match |-> BoolOrDefault(m, "stop_on_match", FALSE),
              description |-> OptionalStr(m, "description")])

CompilePayload(m) ==
  IF \/ ~IsMapping(m)
     \/ ~OnlyKeys(m, {"ruleset_id", "ruleset_name", "version", "description", "owner",
                      "owner_department", "rules"})
     \/ Entry(m, "rules", PyNone).type # "list"
  THEN Refused
  ELSE Built(
    [ruleset_id |-> RequireStr(m, "ruleset_id"),
     ruleset_name |-> RequireStr(m, "ruleset_name"),
     version |-> RequireStr(m, "version"),
     rules |-> Enumerated(m.entries["rules"].items, CompileRule),
     description |-> OptionalStr(m, "description"),
     owner |-> OptionalStr(m, "owner"),
     owner_department |-> OptionalStr(m, "owner_department")])
=============================================================================
