----------------------- MODULE MCRulesEngineService -----------------------
(***************************************************************************)
(* The drafts of one caller.  Some carry one value of every kind a literal *)
(* or an argument can have through publication and loading; they read a    *)
(* column the DataFrame lacks, so they are not evaluated.  The others are  *)
(* small rulesets over two columns that are.                               *)
(***************************************************************************)
EXTENDS RulesEngineService

\* The rows of every evaluation, worked out once.
CONSTANT Evaluations

(***************************************************************************)
(* Values.                                                                 *)
(***************************************************************************)
T(t) == PyText(t)
I(n) == PyInt(n * Unit)
Half == PyFloat(1)
HalfDecimal == PyDecimal(1, "point")
MCHugeNumbers == {40}
Day == PyDay(1)
Noon(zone) == PyInstant(1, 12, zone)
MCSpelling ==
  ("2026-01-31" :> Day) @@ ("2026-01-31T12:00:00" :> Noon("none"))
    @@ ("2026-01-31T12:00:00+00:00" :> Noon("utc"))
    @@ ("2026-01-31T14:00:00+02:00" :> Noon("offset"))
MCWordNumber(t) == IF t = "x" THEN 1 ELSE 2

Entries1(k, v) == PyMapping(k :> v)
Entries2(k, v, j, w) == PyMapping((k :> v) @@ (j :> w))

\* A user's mapping that looks like a date, like an escape, or like neither.
LikeADate == Entries2(TypeKey, T("date"), ValueKey, T("2026-01-31"))
LikeAnEscape == Entries2(TypeKey, T("mapping"), ValueKey, Entries1("a", I(1)))
HalfTyped == Entries1(TypeKey, I(1))

\* What the YAML loader makes of a document: a number with a point or an exponent is
\* a Decimal, and nan and inf are refused.  Its tags make tuples and sets.
YamlScalars ==
  {PyNone, PyBool(TRUE), I(0), PyInt(40),
   PyDecimal(1, "point"), PyDecimal(2, "integral"), PyDecimal(40, "exponent"),
   T("x"), PyDigits(2), T("2026-01-31"), Day}
    \cup {Noon(z) : z \in {"none", "utc", "offset"}}
YamlComposite ==
  {PyList(<<I(1), HalfDecimal, PyNone>>), PyList(<<PyList(<<Day>>), Entries1("a", Noon("utc"))>>),
   LikeADate, LikeAnEscape, HalfTyped, Entries1("a", LikeADate), Entries1("#1", I(1)),
   Entries2("#1", I(1), "1", I(0)), PyList(<<LikeAnEscape>>),
   PyTuple(<<I(1), HalfDecimal>>), PySet({I(1), I(2)}), PySet({PyTuple(<<Day>>)}),
   PyList(<<PyTuple(<<>>), PySet({})>>)}

\* What only a program can put into a ruleset.
PythonScalars == YamlScalars \cup {Half, PyFloat(2), PyFloat(40), PyNonfinite}
PythonComposite == YamlComposite \cup {PyList(<<I(1), Half>>), PyTuple(<<Half>>), Entries1("#1", Half)}
Hints ==
  {"integer", "long", "number", "str", "bool", "date", "timestamp", "timestamp_ntz",
   "decimal", "uuid"}

(***************************************************************************)
(* YAML payloads.                                                          *)
(***************************************************************************)
FieldY(name) == Entries1("field", T(name))
AssignedY(name) == Entries1("assigned", T(name))
LiteralY(v) == Entries1("literal", v)
TypedY(v, hint) == Entries2("literal", v, "value_type", T(hint))
CallY(name, args) ==
  Entries1("custom_function", Entries2("name", T(name), "args", args))
With(m, k, v) == PyMapping((k :> v) @@ m.entries)
Without(m, k) == PyMapping([j \in DOMAIN m.entries \ {k} |-> m.entries[j]])

TestY(left, operator, right) ==
  PyMapping(("left" :> left) @@ ("operator" :> T(operator)) @@ ("right" :> right))
NullTestY(left) == Entries2("left", left, "operator", T("is_null"))
GroupY(operator, items) == Entries1(operator, PyList(items))

RuleY(order, group, assign) ==
  PyMapping(("rule_name" :> T("rule")) @@ ("rule_order" :> I(order)) @@ ("when" :> group)
              @@ ("assign" :> assign))
RulesetY(rules) ==
  PyMapping(("ruleset_id" :> T("q")) @@ ("ruleset_name" :> T("Q")) @@ ("version" :> T("v"))
              @@ ("owner" :> T("o")) @@ ("owner_department" :> T("d")) @@ ("rules" :> PyList(rules)))

\* One rule about a column the DataFrame lacks.
AboutY(operand) ==
  RulesetY(<< RuleY(1, GroupY("all", << NullTestY(FieldY("other")) >>),
                    Entries1("grade", operand)) >>)

\* Two rules with a condition after a nested group, each part of which may have
\* optional entries; what the author writes out is not what the compiler would make.
TwoRulesY(nested, condition, assignment, first, second, whole) ==
  LET Also(m, entries) == PyMapping(entries @@ m.entries)
      test == TestY(FieldY("other"), "eq", LiteralY(I(1)))
      group == GroupY("any", << Also(GroupY("all", << NullTestY(FieldY("other")) >>), nested),
                                Also(test, condition) >>)
      assign == PyList(<< Also(Entries2("target_field", T("grade"), "value", LiteralY(HalfDecimal)),
                               assignment) >>)
      between == TestY(FieldY("other"), "between", LiteralY(PyList(<<I(0), I(1)>>)))
  IN  Also(RulesetY(<< Also(RuleY(2, group, assign), first),
                       Also(RuleY(1, GroupY("all", <<between>>), Entries1("grade", I(1))), second) >>),
           whole)

Nothing == [k \in {} |-> PyNone]
Tolerances ==
  {I(0), I(1), HalfDecimal, PyDecimal(2, "integral"), PyDecimal(40, "exponent"), PyDigits(1)}

\* The nested group, its sibling, an assignment, the rules and the ruleset are named,
\* described and switched one by one, then all at once.
WrittenOut ==
  {TwoRulesY(Nothing, "tolerance_abs" :> t, Nothing, Nothing, Nothing, Nothing) : t \in Tolerances}
    \cup {
      TwoRulesY(Nothing, Nothing, Nothing, Nothing, Nothing, Nothing),
      TwoRulesY("condition_group_id" :> T("g"), Nothing, Nothing, Nothing, Nothing, Nothing),
      TwoRulesY(Nothing, "condition_id" :> T("c"), Nothing, Nothing, Nothing, Nothing),
      TwoRulesY(Nothing, "active_flag" :> PyBool(FALSE), Nothing, Nothing, Nothing, Nothing),
      TwoRulesY(Nothing, "error_on_null" :> PyBool(TRUE), Nothing, Nothing, Nothing, Nothing),
      TwoRulesY(Nothing, Nothing, "assignment_id" :> T("a"), Nothing, Nothing, Nothing),
      \* the places of the two rules, exchanged
      TwoRulesY(Nothing, Nothing, Nothing, "rule_id" :> T("rule:2"), "rule_id" :> T("rule:1"), Nothing),
      TwoRulesY(Nothing, Nothing, Nothing, "description" :> T("d"), "description" :> T(""), Nothing),
      TwoRulesY(Nothing, Nothing, Nothing, "stop_on_match" :> PyBool(TRUE),
                "active_flag" :> PyBool(FALSE), Nothing),
      TwoRulesY(Nothing, Nothing, Nothing, Nothing, Nothing, "description" :> T("d")),
      TwoRulesY("condition_group_id" :> T("g"),
                ("condition_id" :> T("c")) @@ ("tolerance_abs" :> PyDecimal(40, "exponent"))
                  @@ ("error_on_null" :> PyBool(TRUE)) @@ ("active_flag" :> PyBool(TRUE)),
                "assignment_id" :> T("a"),
                ("rule_id" :> T("r")) @@ ("description" :> T("d")) @@ ("stop_on_match" :> PyBool(TRUE)),
                ("rule_id" :> T("s")) @@ ("active_flag" :> PyBool(FALSE)),
                "description" :> T("d")) }

YamlPayloads ==
  WrittenOut \cup
  {AboutY(LiteralY(v)) : v \in YamlScalars \cup YamlComposite}
    \cup {AboutY(TypedY(v, h)) : v \in YamlScalars \cup {PyList(<<Day>>)}, h \in Hints}
    \cup {AboutY(CallY("pick", Entries1("values", v))) : v \in YamlScalars \cup YamlComposite}
    \cup {AboutY(With(FieldY("other"), "default_if_null", v)) : v \in YamlScalars \cup YamlComposite
            \cup {LiteralY(v) : v \in {I(1), PyNone, LikeADate}} \cup {TypedY(Day, "date")}}
    \cup { \* nested calls, with operands inside an argument's collection
      AboutY(CallY("pick", Entries1("values",
        PyList(<<CallY("half", Entries1("value", FieldY("other"))), LiteralY(I(1)), HalfDecimal>>)))),
      \* refused by the compiler
      With(AboutY(LiteralY(I(1))), "status", T("published")),
      Without(AboutY(LiteralY(I(1))), "rules"),
      AboutY(With(FieldY("other"), "assigned", T("grade"))),
      AboutY(CallY("pick", I(1))),
      RulesetY(<< RuleY(1, With(GroupY("all", <<>>), "any", PyList(<<>>)),
                        Entries1("grade", I(1))) >>),
      \* refused by the validator
      RulesetY(<<>>), Without(AboutY(LiteralY(I(1))), "owner"),
      AboutY(CallY("unknown", Entries1("value", I(1)))),
      AboutY(CallY("half", Entries1("value", T("x")))),
      AboutY(CallY("half", Entries2("value", I(1), "more", I(1)))),
      RulesetY(<< RuleY(1, GroupY("all", <<>>), Entries1("grade", I(1))) >>),
      RulesetY(<< RuleY(1, GroupY("all", << With(TestY(FieldY("other"), "like", LiteralY(T("x"))),
                                                 "tolerance_abs", I(1)) >>),
                        Entries1("grade", I(1))) >>),
      TwoRulesY(Nothing, "tolerance_abs" :> I(-1), Nothing, Nothing, Nothing, Nothing) }

(***************************************************************************)
(* Rulesets to evaluate: base grades every row with a level, read looks at *)
(* the grade in a nested group and inside a call, strict fails on a null.  *)
(***************************************************************************)
Base(order) ==
  RuleY(order, GroupY("all", << TestY(FieldY("level"), "ge", LiteralY(I(0))) >>),
        Entries2("grade", FieldY("level"), "score", LiteralY(I(1))))
Read(order) ==
  RuleY(order,
    GroupY("any", << TestY(FieldY("level"), "eq", LiteralY(I(9))),
                     GroupY("all", << TestY(CallY("half", Entries1("value", AssignedY("grade"))),
                                            "gt", LiteralY(I(0))) >>) >>),
    Entries1("grade", CallY("pick", Entries1("values",
                              PyList(<<AssignedY("score"), LiteralY(I(0))>>)))))
Strict(order) ==
  RuleY(order, GroupY("any", << With(TestY(FieldY("level"), "gt", LiteralY(I(0))),
                                     "error_on_null", PyBool(TRUE)),
                                TestY(FieldY("level"), "eq", LiteralY(I(0))) >>),
        Entries1("grade", With(FieldY("level"), "default_if_null", I(1))))
Off(rule) == With(rule, "active_flag", PyBool(FALSE))
Stop(rule) == With(rule, "stop_on_match", PyBool(TRUE))

EvaluatedPayloads ==
  {RulesetY(<<Base(1), Read(2)>>), RulesetY(<<Read(2), Base(1)>>), RulesetY(<<Read(1), Base(2)>>),
   RulesetY(<<Base(1), Read(1)>>), RulesetY(<<Off(Base(1)), Read(2)>>),
   RulesetY(<<Off(Read(1)), Stop(Base(2)), Read(3)>>), RulesetY(<<Strict(1)>>),
   RulesetY(<<Read(3), Strict(2), Base(1)>>),
   RulesetY(<<With(Base(1), "rule_id", T("r")), With(Strict(2), "rule_id", T("r"))>>)}

(***************************************************************************)
(* Rulesets built in Python: the value assigned is varied.                 *)
(***************************************************************************)
Built1(value) ==
  LET compiled == CompilePayload(AboutY(LiteralY(I(1))))
      rule == compiled.rules.items[1]
  IN  [compiled EXCEPT !.rules.items[1].assignments.items[1].value = value]

\* Rulesets whose second condition has the tolerance, which a program can set to any
\* Decimal; a float is none.
Tolerant(tolerance) ==
  LET compiled == CompilePayload(TwoRulesY(Nothing, Nothing, Nothing, Nothing, Nothing, Nothing))
  IN  [compiled EXCEPT
         !.rules.items[1].root_group.conditions.items[1].tolerance_abs = tolerance]

OtherField == FieldOperand(T("other"))
LiteralP(v) == LiteralOperand(v, PyNone)
Defaulted(operand, default) == [operand EXCEPT !.default_if_null = default]
PickP(v) == CustomFunctionOperand(T("pick"), Entries1("values", v))

PythonRulesets ==
  {Built1(LiteralP(v)) : v \in PythonScalars \cup PythonComposite \cup {PyList(<<OtherField>>)}}
    \cup {Built1(LiteralOperand(v, T(h))) : v \in PythonScalars \cup PythonComposite, h \in {"double", "date", "timestamp"}}
    \cup {Built1(PickP(v)) : v \in PythonComposite
            \cup {PySet({OtherField}), PyTuple(<<OtherField, Half>>), Entries1("field", I(1)),
                  Entries1("field", T("x"))}}
    \cup {Built1(Defaulted(OtherField, LiteralP(v))) : v \in PythonComposite \cup {Half}}
    \cup {Built1(Defaulted(OtherField, Defaulted(l, LiteralP(I(2))))) :
            l \in {LiteralP(I(1)), LiteralOperand(I(1), T("integer")), LiteralP(LikeADate)}}
    \cup {Tolerant(t) : t \in {PyDecimal(40, "exponent"), PyDecimal(2, "point"), Half}}
    \cup {Built1(Defaulted(OtherField, OtherField)), Built1(Defaulted(OtherField, LiteralP(PyNone))),
          Built1(I(1)),
          Built1(LiteralOperand(I(1), I(1))), Built1(FieldOperand(T("")))}

MCDrafts ==
  {[origin |-> "yaml", payload |-> p] : p \in YamlPayloads \cup EvaluatedPayloads}
    \cup {[origin |-> "python", ruleset |-> r] : r \in PythonRulesets}

(***************************************************************************)
(* The registry: half takes a number, pick anything.                       *)
(***************************************************************************)
Argument(name, required, default, hint) ==
  [name |-> name, required |-> required, default |-> default, type_hint |-> hint,
   literal_only |-> FALSE, allowed_values |-> {}]
MCSpecs ==
  [f \in {"half", "pick"} |->
     [active_flag |-> TRUE, allowed_in_condition_flag |-> TRUE,
      allowed_in_assignment_flag |-> TRUE,
      arguments |-> IF f = "half" THEN {Argument("value", TRUE, PyNone, "number")}
                    ELSE {Argument("values", TRUE, PyNone, "any")}]]
MCFunction(name, args) ==
  IF name = "pick" THEN (IF args = <<>> THEN Null ELSE args[1])
  ELSE IF args[1] = Null THEN Null ELSE Number(args[1].at \div 2)

Registration(name, version) == [function_name |-> name, version |-> version]
Save(rows, update_existing) == [rows |-> rows, update_existing |-> update_existing]
MCSaves ==
  {Save(<<>>, TRUE), Save(<<Registration("half", 1), Registration("pick", 1)>>, TRUE),
   Save(<<Registration("half", 2)>>, TRUE), Save(<<Registration("half", 2)>>, FALSE)}
    \cup {Save(<<Registration("pick", 1), Registration("pick", 2)>>, u) : u \in BOOLEAN}

\* One session works on drafts, another on the registry.
SessionsApart == origin = NoDraft \/ last_save = NoSave

(***************************************************************************)
(* Evaluation.                                                             *)
(***************************************************************************)
MCTargetType == [grade |-> "double", score |-> "double"]
Row(score, level) == [score |-> score, level |-> level]
N(i) == Number(i * Unit)
MCWorlds ==
  {<<>>, <<Row(N(0), N(2)), Row(Null, Null)>>, <<Row(N(1), N(0)), Row(N(0), N(1))>>}

MCThreshold == <<2, 5>>   \* the default broad_match_threshold

MCRulesets ==
  LET compiled == {CompilePayload(p) : p \in EvaluatedPayloads}
  IN  {Runtime(r) : r \in {c \in compiled : Issues(c) = {}}}
MCOperands ==
  LET roots == UNION {OperandsRead(r) : r \in UNION MCRulesets}
  IN  UNION {OperandsOf(o) : o \in roots}
MCEvaluations ==
  LET rulesets == MCRulesets
  IN  [r \in rulesets |-> [w \in MCWorlds |-> EvaluateRows(r, w)]]
MCEvaluated(r, w) == Evaluations[r][w]
=============================================================================
