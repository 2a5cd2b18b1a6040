------------------------- MODULE RulesEngineService -------------------------
(***************************************************************************)
(* The facade (service.py) over everything a ruleset passes through:       *)
(* compilation or construction in Python, validation, publication, loading *)
(* of the stored row, evaluation of a DataFrame and its coverage report.   *)
(* One caller works on one draft; several callers and versions meet in     *)
(* RulesetRepository.                                                      *)
(***************************************************************************)
EXTENDS RowOutcome, RulesetValidator, RowSerializer, Coverage, FunctionRegistryTable

CONSTANTS
  Drafts,       \* [origin |-> "yaml", payload] and [origin |-> "python", ruleset]
  WordNumber(_),  \* text -> the number that stands for it in a runtime value
  NoDraft, NoRuleset, NoRow

VARIABLES
  origin,    \* whether the caller's draft is yaml or python, or NoDraft
  ruleset,   \* the ruleset made of it, or Refused
  row,       \* its row in ruleset_versions
  loaded     \* what the last load returned, or Refused

authoringVars == <<origin, ruleset, row, loaded>>
vars == <<origin, ruleset, row, loaded, report, dataFrameVars, registryVars>>

(***************************************************************************)
(* The ruleset as the worker sees it: RuleSemantics' runtime values,       *)
(* operands, and groups in preorder.                                       *)
(***************************************************************************)
\* A mapping, which no rule of RuleSemantics looks into.
Structured == [kind |-> "mapping", at |-> 0]

RECURSIVE RuntimeValue(_)
RuntimeValue(v) ==
  CASE v = PyNone -> Null
    [] v.type = "bool" -> Bool(IF v.holds THEN 1 ELSE 0)
    [] IsNumber(v) -> Number(v.number)
    [] v = PyNonfinite -> Nonfinite
    [] v.type = "digits" -> Numeral(v.number)
    [] v.type = "text" -> Word(WordNumber(v.text))
    [] v.type = "day" -> Date(v.day)
    [] v.type = "instant" -> IF v.zone = "none" THEN Naive(v.moment) ELSE Aware(v.moment)
    [] IsMapping(v) -> Structured
    [] IsCollection(v) -> List([i \in DOMAIN Contents(v) |-> RuntimeValue(Contents(v)[i])])

\* What a call is given: its operands and its plain arguments, those inside
\* collections one by one.
RECURSIVE ArgumentOperands(_)
ArgumentOperands(v) ==
  CASE IsOperand(v) -> <<v>>
    [] IsCollection(v) \/ IsMapping(v) ->
         FlattenSeq([i \in DOMAIN Contents(v) |-> ArgumentOperands(Contents(v)[i])])
    [] OTHER -> <<LiteralOperand(v, PyNone)>>

RECURSIVE RuntimeOperand(_)
RuntimeOperand(o) ==
  LET default == IF o.default_if_null = PyNone THEN Null
                 ELSE RuntimeValue(o.default_if_null.value)
      call == ArgumentOperands(PyMapping(BoundArgs(Specs[o.name.text], o.args)))
      own == CASE o.kind = "literal" -> [value |-> RuntimeValue(o.value)]
               [] o.kind = "custom_function" ->
                    [name |-> o.name.text, args |-> [i \in DOMAIN call |-> RuntimeOperand(call[i])]]
               [] OTHER -> [name |-> o.name.text]
  IN  own @@ [kind |-> o.kind, default_if_null |-> default]

RuntimeCondition(c) ==
  [condition_id |-> c.condition_id.text,
   left |-> RuntimeOperand(c.left), operator |-> c.operator.text,
   right |-> RuntimeOperand(IF c.right = PyNone THEN LiteralOperand(PyNone, PyNone) ELSE c.right),
   tolerance_abs |-> c.tolerance_abs.number,
   error_on_null |-> c.error_on_null.holds, active_flag |-> c.active_flag.holds]

\* The group at position p; a nested group follows those nested before it.
RuntimeGroup(p, g) ==
  LET Before(k) == FlattenSeq([j \in 1 .. k - 1 |-> GroupsIn(g.groups.items[j])])
  IN  [operator |-> g.logical_operator.text,
       conditions |-> [i \in DOMAIN g.conditions.items |->
                         RuntimeCondition(g.conditions.items[i])],
       nested |-> {p + 1 + Len(Before(k)) : k \in DOMAIN g.groups.items}]

RuntimeAssignment(a) ==
  [assignment_id |-> a.assignment_id.text, target_field |-> a.target_field.text,
   value |-> RuntimeOperand(a.value)]

RuntimeRule(r) ==
  LET groups == GroupsIn(r.root_group)
  IN  [rule_id |-> r.rule_id.text, rule_order |-> r.rule_order.number,
       groups |-> [p \in DOMAIN groups |-> RuntimeGroup(p, groups[p])],
       assignments |-> [i \in DOMAIN r.assignments.items |->
                          RuntimeAssignment(r.assignments.items[i])],
       active_flag |-> r.active_flag.holds, stop_on_match |-> r.stop_on_match.holds]

Runtime(authored) == {RuntimeRule(r) : r \in ToSet(authored.rules.items)}

\* An operand and those a call resolves for it.
RECURSIVE OperandsOf(_)
OperandsOf(operand) ==
  {operand} \cup UNION {OperandsOf(o) : o \in ToSet(NestedOperands(operand))}

\* The operands a rule resolves on a row: those of its active conditions and of its
\* assignments.
OperandsRead(rule) ==
  LET active == {c \in UNION {ToSet(g.conditions) : g \in ToSet(rule.groups)} : c.active_flag}
      roots == {a.value : a \in ToSet(rule.assignments)} \cup UNION {{c.left, c.right} : c \in active}
  IN  UNION {OperandsOf(o) : o \in roots}

NamesRead(rule, kind) == {o.name : o \in {p \in OperandsRead(rule) : p.kind = kind}}

\* The worker is sent the columns some active rule reads, and no other.
RequiredColumns(rules) == UNION {NamesRead(r, "field") : r \in {s \in rules : s.active_flag}}

\* The rows of a plan over the rows of the source: what DataFrameEvaluation's
\* Evaluated stands for.
EvaluateRows(rules, source) ==
  LET columns == RequiredColumns(rules)
  IN  [i \in DOMAIN source |->
         [source |-> source[i],
          outcome |-> RowOutcome(rules, [c \in columns |-> source[i][c]])]]

-----------------------------------------------------------------------------
\* The part of the schema preflight that needs no types: every column an active rule
\* reads exists.  SparkPreflight has the types.
ColumnsExist(rules) == RequiredColumns(rules) \subseteq Columns

IsRuleset(r) == r \notin {NoRuleset, Refused}
Valid(r) == IsRuleset(r) /\ Issues(r) = {}

Init ==
  /\ origin = NoDraft /\ ruleset = NoRuleset /\ row = NoRow /\ loaded = NoRuleset
  /\ CoverageInit /\ RegistryInit

\* compile_yaml_text, or a ruleset built with the model classes.
Author(d) ==
  /\ origin = NoDraft
  /\ origin' = d.origin
  /\ ruleset' = IF d.origin = "yaml" THEN CompilePayload(d.payload) ELSE d.ruleset
  /\ UNCHANGED <<row, loaded, report, dataFrameVars, registryVars>>

\* PublishService.publish: a ruleset with issues, or one that has no row, is refused.
Publish ==
  /\ row = NoRow /\ Valid(ruleset)
  /\ SerializeRulesetVersion(ruleset) # Refused
  /\ row' = SerializeRulesetVersion(ruleset)
  /\ UNCHANGED <<origin, ruleset, loaded, report, dataFrameVars, registryVars>>

\* load_published
LoadPublished ==
  /\ row # NoRow
  /\ loaded' = DeserializeRulesetVersion(row)
  /\ UNCHANGED <<origin, ruleset, row, report, dataFrameVars, registryVars>>

\* A call uses the ruleset it is given, or loads the published one.
Resolvable == {r \in {ruleset, loaded} : IsRuleset(r)}

\* Validation comes before the plan is built, whose result columns hold the content
\* hash of the ruleset.
CanEvaluate(r) ==
  /\ Issues(r) = {} /\ SerializeRulesetVersion(r) # Refused
  /\ ColumnsExist(Runtime(r))

EvaluateDataFrame ==
  /\ plan = NoPlan
  /\ \E r \in Resolvable :
       /\ CanEvaluate(r)
       /\ \E keys \in SUBSET Columns, fail_on_error \in BOOLEAN :
            Evaluate(Runtime(r), keys, fail_on_error)
  /\ UNCHANGED <<authoringVars, report, registryVars>>

UseEvaluation ==
  /\ Persist \/ Unpersist \/ ShowResults \/ ShowBusiness
  /\ UNCHANGED <<authoringVars, report, registryVars>>

\* coverage_report: row errors are counted, not raised.
CoverageReport ==
  /\ \E r \in Resolvable :
       /\ CanEvaluate(r)
       /\ Report(Runtime(r))
  /\ UNCHANGED <<authoringVars, registryVars>>

SourceChanges ==
  /\ ChangeWorld
  /\ UNCHANGED <<authoringVars, report, registryVars>>

SaveFunctions ==
  /\ RegistryNext
  /\ UNCHANGED <<authoringVars, report, dataFrameVars>>

Next ==
  \/ \E d \in Drafts : Author(d)
  \/ Publish \/ LoadPublished
  \/ EvaluateDataFrame \/ UseEvaluation \/ CoverageReport
  \/ SourceChanges \/ SaveFunctions

Spec == Init /\ [][Next]_vars

-----------------------------------------------------------------------------
\* A group with its tolerances as numbers: 4E+1 and 40 are equal in Python.
RECURSIVE Valued(_)
Valued(group) ==
  LET conditions == group.conditions.items
      groups == group.groups.items
  IN  [group EXCEPT
         !.conditions.items = [i \in DOMAIN conditions |->
            [conditions[i] EXCEPT !.tolerance_abs = conditions[i].tolerance_abs.number]],
         !.groups.items = [i \in DOMAIN groups |-> Valued(groups[i])]]

\* Equality of rulesets that is exact, of literals also in how a number is written,
\* but for tolerances, which only their value tells apart.
EqualRulesets(r, s) ==
  LET RulesOf(t) == [i \in DOMAIN t.rules.items |->
                       [t.rules.items[i] EXCEPT !.root_group = Valued(t.rules.items[i].root_group)]]
  IN  [r EXCEPT !.rules.items = RulesOf(r)] = [s EXCEPT !.rules.items = RulesOf(s)]

\* README.md:844 and tests/test_serializer.py:243: what is loaded is what was
\* published.  A ruleset compiled from YAML comes back from its row equal, whatever
\* its literals look like, with every id, description, flag and tolerance its author
\* wrote out or left to the compiler, and has the row it came from: its content hash
\* and its counts do not drift.
LoadsWhatWasPublished ==
  [][loaded' # loaded /\ origin = "yaml" =>
       /\ loaded' # Refused /\ EqualRulesets(loaded', ruleset)
       /\ SerializeRulesetVersion(loaded') = row]_vars

\* A ruleset built in Python may hold values YAML cannot spell and can come back
\* changed, but what a load returns is stable: published again, it keeps its row
\* and loads the same.
LoadIsStable ==
  [][loaded' # loaded /\ loaded' # Refused =>
       LET again == SerializeRulesetVersion(loaded')
       IN  again # Refused /\ DeserializeRulesetVersion(again) = loaded']_vars

\* README.md:27: what an evaluation reads as assigned is assigned by an earlier
\* rule of the order in which the worker takes them, never by a later or an
\* inactive one, wherever the validator found it: in a nested group or a call.
AssignedReadsFollowProducers ==
  plan # NoPlan =>
    LET rules == ActiveRules(plan.ruleset)
    IN  \A i \in DOMAIN rules : \A t \in NamesRead(rules[i], "assigned") :
          \E j \in 1 .. i - 1 : \E a \in ToSet(rules[j].assignments) : a.target_field = t
=============================================================================
