--------------------------- MODULE RuleSemantics ---------------------------
(***************************************************************************)
(* What one rule does to one row: operands, condition groups and the       *)
(* typing of assigned values (runtime.py, spark_runtime.py).  The engine   *)
(* has two evaluators of a rule's conditions, a silent one and one that    *)
(* traces every operand; both are here.                                    *)
(*                                                                         *)
(* A rule's group tree is the sequence rule.groups in preorder: the root   *)
(* first, and each group names its nested groups by their later positions. *)
(* The missing right operand of is_null is a literal null.                 *)
(***************************************************************************)
EXTENDS Comparison, FiniteSets, SequencesExt

CONSTANTS
  Fields,              \* source columns
  Targets,             \* assignment target fields
  TargetType,          \* target -> the Spark type resolved for it
  IntegralMax,         \* largest value of the integral target type
  Operands,            \* the operands in use, nested ones included
  Function(_, _),      \* custom functions: name, arguments -> value or Raised
  NoId                 \* None where a rule or assignment id is expected

Raised == [kind |-> "raised", at |-> 0]

\* AssignedValue; an unassigned target has no producer.
Unassigned == [value |-> Null, rule_id |-> NoId, assignment_id |-> NoId]
IsAssigned(committed, target) == committed[target].rule_id # NoId

\* The value an operand has before its default_if_null; resolved is Resolution.
Plain(operand, row, committed, resolved) ==
  CASE operand.kind = "field" -> row[operand.name]
    [] operand.kind = "assigned" -> committed[operand.name].value
    [] operand.kind = "literal" -> operand.value
    [] operand.kind = "custom_function" ->
         IF Raised \in ToSet(resolved) THEN Raised ELSE Function(operand.name, resolved)

WithDefault(operand, value) == IF value = Null THEN operand.default_if_null ELSE value

NestedOperands(operand) == IF operand.kind = "custom_function" THEN operand.args ELSE <<>>

Resolution(row, committed) ==
  LET value[operand \in Operands] ==
        LET args == NestedOperands(operand)
        IN  WithDefault(operand,
              Plain(operand, row, committed, [i \in DOMAIN args |-> value[args[i]]]))
  IN  value

Resolve(operand, row, committed) == Resolution(row, committed)[operand]

CompareResolved(condition, left, right) ==
  IF Raised \in {left, right} THEN "raised"
  ELSE Compare(left, condition.operator, right, condition.tolerance_abs,
               condition.error_on_null)

(***************************************************************************)
(* The silent evaluator.  Nothing is short-circuited: a condition that     *)
(* raises does so whatever the others decide.                              *)
(***************************************************************************)
ConditionMatches(condition, row, committed) ==
  IF ~condition.active_flag THEN "false"
  ELSE CompareResolved(condition, Resolve(condition.left, row, committed),
                       Resolve(condition.right, row, committed))

CombinedShortCircuit(operator, outcomes) ==   \* mutant: a true condition hides an error
  IF operator = "any" /\ "true" \in outcomes THEN "true"
  ELSE IF "raised" \in outcomes THEN "raised"
  ELSE Verdict(outcomes = {"true"})
Combined(operator, outcomes) ==
  IF "raised" \in outcomes THEN "raised"
  ELSE IF operator = "all" THEN Verdict(outcomes \subseteq {"true"})
  ELSE Verdict("true" \in outcomes)

GroupMatches(groups, row, committed) ==
  LET matches[g \in 1..Len(groups)] ==
        Combined(groups[g].operator,
          {ConditionMatches(c, row, committed) : c \in ToSet(groups[g].conditions)}
            \cup {matches[h] : h \in groups[g].nested})
  IN  matches

RuleMatches(rule, row, committed) == GroupMatches(rule.groups, row, committed)[1]

(***************************************************************************)
(* The tracing evaluator returns the outcome and one trace per condition   *)
(* in evaluation order.                                                    *)
(***************************************************************************)
OperandTrace(operand, row, committed) ==
  LET value == Resolve(operand, row, committed)
      producer == IF operand.kind = "assigned" THEN committed[operand.name] ELSE Unassigned
  IN  [operand |-> operand, evaluated |-> TRUE, value |-> value,
       produced_by_rule_id |-> producer.rule_id,
       produced_by_assignment_id |-> producer.assignment_id]

OperandMetadata(operand) ==
  [operand |-> operand, evaluated |-> FALSE, value |-> Null,
   produced_by_rule_id |-> NoId, produced_by_assignment_id |-> NoId]

ConditionTrace(condition, group, row, committed) ==
  LET active == condition.active_flag
      traced(operand) == IF active THEN OperandTrace(operand, row, committed)
                         ELSE OperandMetadata(operand)
      left == traced(condition.left)
      right == traced(condition.right)
  IN  [condition_id |-> condition.condition_id, group |-> group,
       left |-> left, right |-> right,
       comparison_result |-> IF active THEN CompareResolved(condition, left.value, right.value)
                             ELSE "none"]

Passed(trace) == trace.comparison_result = "true"

ConditionTraces(rule, row, committed) ==
  FlattenSeq([g \in 1..Len(rule.groups) |->
    [i \in DOMAIN rule.groups[g].conditions |->
       ConditionTrace(rule.groups[g].conditions[i], g, row, committed)]])

\* all(results) or any(results) of each group, from the traces of its conditions.
TracedGroup(groups, traces) ==
  LET matched[g \in 1..Len(groups)] ==
        LET results == {Passed(t) : t \in {u \in ToSet(traces) : u.group = g}}
                         \cup {matched[h] : h \in groups[g].nested}
        IN  IF groups[g].operator = "all" THEN FALSE \notin results ELSE TRUE \in results
  IN  matched

EvaluateRule(rule, row, committed) ==
  LET traces == ConditionTraces(rule, row, committed)
  IN  [condition_traces |-> traces,
       outcome |-> IF \E t \in ToSet(traces) : t.comparison_result = "raised"
                   THEN "raised" ELSE Verdict(TracedGroup(rule.groups, traces)[1])]

(***************************************************************************)
(* The Spark worker stores an assigned value in the type of its target, or *)
(* raises.  Decimal, temporal and nested target types are left out.        *)
(***************************************************************************)
SparkIntegralValue(v) ==
  IF v.kind \in Numeric /\ v.at % Unit = 0
     /\ v.at \in -(IntegralMax + 1) * Unit .. IntegralMax * Unit
  THEN Number(v.at) ELSE Raised

SparkFloatValue(v) ==
  CASE v.kind \in Numeric -> Number(v.at)
    [] v.kind = "bool" -> Number(v.at * Unit)
    [] OTHER -> Raised

\* _trace_text; Word(0) and Word(1) spell the booleans.
TraceText(v) ==
  CASE v.kind = "number" -> Numeral(v.at)
    [] v.kind = "nonfinite" -> NonfiniteText
    [] v.kind = "bool" -> Word(v.at)
    [] OTHER -> v

SparkBooleanValue(v) ==
  IF v.kind \in {"bool", "word"} /\ v.at \in {0, 1} THEN Bool(v.at) ELSE Raised

SparkAssignmentValue(v, target) ==
  IF v \in {Null, Raised} THEN v
  ELSE CASE TargetType[target] = "string" -> TraceText(v)
         [] TargetType[target] = "integral" -> SparkIntegralValue(v)
         [] TargetType[target] = "double" -> SparkFloatValue(v)
         [] TargetType[target] = "boolean" -> SparkBooleanValue(v)

(***************************************************************************)
(* Preparing a ruleset: its active rules in ascending rule_order, and the  *)
(* targets they assign.                                                    *)
(***************************************************************************)
ActiveRules(ruleset) ==
  CHOOSE order \in SetToSeqs({r \in ruleset : r.active_flag}) :
    \A i, j \in DOMAIN order : i < j => order[i].rule_order <= order[j].rule_order

AssignmentTargets(ruleset) ==
  {a.target_field : a \in UNION {ToSet(r.assignments) : r \in {s \in ruleset : s.active_flag}}}

(***************************************************************************)
(* What the validator guarantees of a ruleset (validator.py): a tree of    *)
(* groups under one root, no read of an assigned value nobody assigns, at  *)
(* most one assignment to a target in a rule, and rule ids and orders that *)
(* are each used once.  Operands are finite trees.                         *)
(***************************************************************************)
OperandDepth[operand \in Operands] ==
  LET args == NestedOperands(operand)
  IN  IF args = <<>> THEN 0 ELSE 1 + Max({OperandDepth[args[i]] : i \in DOMAIN args})

OperandTrees ==
  /\ IsFiniteSet(Operands)
  /\ \A operand \in Operands :
       /\ OperandDepth[operand] \in 0 .. Cardinality(Operands)
       /\ \A i \in DOMAIN NestedOperands(operand) :
            LET arg == NestedOperands(operand)[i]
            IN  arg \in Operands /\ OperandDepth[arg] < OperandDepth[operand]

KnownOperand(operand) ==
  operand \in Operands /\ (operand.kind = "assigned" => operand.name \in Targets)

WellFormedGroups(groups) ==
  /\ groups \in Seq(ToSet(groups)) /\ groups # <<>>
  /\ \A g \in DOMAIN groups :
       /\ groups[g].conditions \in Seq(ToSet(groups[g].conditions))
       /\ groups[g].nested \subseteq g + 1 .. Len(groups)
       /\ g > 1 => \E h \in 1 .. g - 1 : g \in groups[h].nested

WellFormedRule(rule) ==
  /\ rule.rule_id # NoId /\ rule.rule_order \in Int
  /\ WellFormedGroups(rule.groups)
  /\ rule.active_flag =>
       \A g \in DOMAIN rule.groups : \A c \in ToSet(rule.groups[g].conditions) :
         c.active_flag => KnownOperand(c.left) /\ KnownOperand(c.right)
  /\ rule.assignments \in Seq(ToSet(rule.assignments))
  /\ \A i \in DOMAIN rule.assignments :
       /\ rule.assignments[i].target_field \in Targets
       /\ rule.assignments[i].assignment_id # NoId
       /\ \A j \in DOMAIN rule.assignments :
            rule.assignments[i].target_field = rule.assignments[j].target_field => i = j

WellFormedRuleset(ruleset) ==
  /\ IsFiniteSet(ruleset)
  /\ \A r \in ruleset : WellFormedRule(r)
  /\ \A r, s \in ruleset : r.rule_id = s.rule_id \/ r.rule_order = s.rule_order => r = s
=============================================================================
