------------------------- MODULE RulesetValidator -------------------------
(***************************************************************************)
(* RulesetValidator.validate (validator.py): the one gate of publication   *)
(* and of evaluation.  Issues(ruleset) is the set of the names of the      *)
(* checks that fail; which object fails one, and the message, are left     *)
(* out.  The checks run over Python-built models too, so a value of any    *)
(* type can stand where a text, a flag or an operand belongs.              *)
(***************************************************************************)
EXTENDS YamlCompiler

CONSTANT Specs   \* name -> CustomFunctionSpec of the registry

UnaryOperators == {"is_null", "is_not_null"}
PairOperators == {"between", "not_between"}
MembershipOperators == {"in", "not_in"}
ToleranceOperators == {"eq", "ne", "gt", "ge", "lt", "le", "in", "not_in"}

Failing(checks) == {name \in DOMAIN checks : checks[name]}
EachOf(items, Op(_)) == UNION {Op(items[i]) : i \in DOMAIN items}

\* Two of the values are the same non-empty text.
Repeated(values) ==
  \E i, j \in DOMAIN values : i < j /\ IsNonEmptyText(values[i]) /\ values[i] = values[j]
IsFlag(v) == v.type = "bool"

(***************************************************************************)
(* Operands.                                                               *)
(***************************************************************************)
RECURSIVE KeysCollide(_), StaticLiteral(_), MatchesType(_, _)

KeysCollide(v) ==
  IF IsOperand(v)
  THEN CASE v.kind = "literal" -> KeysCollide(v.value)
         [] v.kind = "custom_function" -> KeysCollide(v.args)
         [] OTHER -> FALSE
  ELSE \/ IsMapping(v) /\ \E j, k \in DOMAIN v.entries : j # k /\ KeyText(j) = KeyText(k)
       \/ \E x \in ToSet(Contents(v)) : KeysCollide(x)

\* The value of an argument known without a row, or Dynamic.
Dynamic == [type |-> "dynamic"]
StaticLiteral(v) ==
  IF IsOperand(v)
  THEN IF v.kind # "literal" THEN Dynamic
       ELSE LET value == StaticLiteral(v.value)
            IN  IF value = PyNone /\ v.default_if_null # PyNone
                THEN StaticLiteral(v.default_if_null) ELSE value
  ELSE IF \E x \in ToSet(Contents(v)) : StaticLiteral(x) = Dynamic THEN Dynamic
  ELSE IF IsCollection(v) \/ IsMapping(v) THEN Rebuilt(v, StaticLiteral) ELSE v

ItemType(hint) ==
  CASE hint = "string_sequence" -> "string"
    [] hint = "integer_sequence" -> "integer"
    [] hint = "date_sequence" -> "date"
    [] OTHER -> "any"

MatchesType(v, hint) ==
  \/ v = PyNone \/ IsOperand(v) \/ hint = "any"
  \/ hint = "string" /\ IsText(v)
  \/ hint = "integer" /\ v.type = "int"
  \/ hint = "number" /\ IsNumber(v)
  \/ hint = "boolean" /\ IsFlag(v)
  \/ hint = "date" /\ v.type = "day"
  \/ hint = "timestamp" /\ v.type = "instant"
  \/ hint = "mapping" /\ IsMapping(v)
  \/ /\ hint \in {"sequence", "string_sequence", "integer_sequence", "date_sequence"}
     /\ IsCollection(v)
     /\ \A x \in ToSet(Contents(v)) : MatchesType(x, ItemType(hint))

LiteralIssues(o) ==
  Failing([LITERAL_VALUE_TYPE_INVALID |-> o.value_type # PyNone /\ ~IsNonEmptyText(o.value_type),
           MAPPING_KEY_NORMALIZATION_COLLISION |-> KeysCollide(o.value)])

DefaultIssues(default) ==
  IF default = PyNone THEN {}
  ELSE IF IsOperand(default) /\ default.kind = "literal"
  THEN LiteralIssues(default)
         \cup Failing([DEFAULT_IF_NULL_NULL_FORBIDDEN |-> default.value = PyNone])
  ELSE {"DEFAULT_IF_NULL_INVALID"}

ArgumentIssues(argument, v) ==
  LET literal == StaticLiteral(v)
      static == literal # Dynamic
  IN  Failing(
        [CUSTOM_FUNCTION_ARG_LITERAL_REQUIRED |-> argument.literal_only /\ ~static,
         CUSTOM_FUNCTION_ARG_TYPE_MISMATCH |->
           ~MatchesType(IF static THEN literal ELSE v, argument.type_hint),
         CUSTOM_FUNCTION_ARG_VALUE_INVALID |->
           /\ argument.allowed_values # {} /\ static
           /\ literal \notin argument.allowed_values])

\* bind_args: every required name, no unknown one; the optional ones get their default.
ArgumentsMatch(spec, args) ==
  LET names == {a.name : a \in spec.arguments}
      required == {a.name : a \in {b \in spec.arguments : b.required}}
  IN  required \subseteq DOMAIN args.entries /\ DOMAIN args.entries \subseteq names
BoundArgs(spec, args) ==
  IF ~ArgumentsMatch(spec, args) THEN args.entries
  ELSE [n \in {a.name : a \in spec.arguments} |->
          IF HasKey(args, n) THEN args.entries[n]
          ELSE (CHOOSE a \in spec.arguments : a.name = n).default]

RECURSIVE OperandIssues(_, _)

CallIssues(o, in_assignment) ==
  IF o.name.text \notin DOMAIN Specs THEN {"CUSTOM_FUNCTION_UNKNOWN"}
  ELSE LET spec == Specs[o.name.text]
           bound == BoundArgs(spec, o.args)
           nested == NestedIn(PyMapping(bound))
           known == {a \in spec.arguments : a.name \in DOMAIN bound}
       IN  Failing(
             [CUSTOM_FUNCTION_INACTIVE |-> ~spec.active_flag,
              CUSTOM_FUNCTION_ASSIGNMENT_FORBIDDEN |->
                in_assignment /\ ~spec.allowed_in_assignment_flag,
              CUSTOM_FUNCTION_CONDITION_FORBIDDEN |->
                ~in_assignment /\ ~spec.allowed_in_condition_flag,
              CUSTOM_FUNCTION_ARGS_MISMATCH |-> ~ArgumentsMatch(spec, o.args)])
           \cup UNION {ArgumentIssues(a, bound[a.name]) : a \in known}
           \cup EachOf(nested, LAMBDA p : OperandIssues(p, in_assignment))

OperandIssues(o, in_assignment) ==
  IF ~IsOperand(o) THEN {"OPERAND_INVALID"}
  ELSE DefaultIssues(o.default_if_null) \cup
    CASE o.kind = "field" -> Failing([FIELD_NAME_INVALID |-> ~IsNonEmptyText(o.name)])
      [] o.kind = "assigned" ->
           Failing([ASSIGNED_TARGET_FIELD_INVALID |-> ~IsNonEmptyText(o.name)])
      [] o.kind = "literal" -> LiteralIssues(o)
      [] o.kind = "custom_function" ->
           Failing([MAPPING_KEY_NORMALIZATION_COLLISION |-> KeysCollide(o.args)]) \cup
           IF ~IsNonEmptyText(o.name) THEN {"CUSTOM_FUNCTION_NAME_INVALID"}
           ELSE IF \/ ~IsMapping(o.args)
                   \/ \E k \in DOMAIN o.args.entries :
                        ~IsTextKey(k) \/ ~IsNonEmptyText(PyText(k))
           THEN {"CUSTOM_FUNCTION_ARG_NAME_INVALID"}
           ELSE CallIssues(o, in_assignment)

(***************************************************************************)
(* Conditions and groups.                                                  *)
(***************************************************************************)
OperatorIn(c, operators) == c.operator \in {PyText(o) : o \in operators}

RightLiteral(c) == IsOperand(c.right) /\ c.right.kind = "literal"
IsPair(v) == IsSequence(v) /\ Len(v.items) = 2

ConditionIssues(c) ==
  LET measured == c.tolerance_abs.type = "decimal"
      tolerance == IF measured THEN c.tolerance_abs.number ELSE 0
      tolerant == tolerance > 0 /\ OperatorIn(c, ComparisonOperators \ ToleranceOperators)
      valid == OperatorIn(c, ComparisonOperators)
  IN  Failing(
        [CONDITION_OPERATOR_INVALID |-> ~valid,
         TOLERANCE_INVALID |-> ~measured,
         TOLERANCE_NEGATIVE |-> tolerance < 0,
         BETWEEN_TOLERANCE_FORBIDDEN |-> tolerant /\ OperatorIn(c, PairOperators),
         TOLERANCE_OPERATOR_FORBIDDEN |-> tolerant /\ ~OperatorIn(c, PairOperators),
         ERROR_ON_NULL_INVALID |-> ~IsFlag(c.error_on_null),
         CONDITION_ACTIVE_FLAG_INVALID |-> ~IsFlag(c.active_flag),
         ERROR_ON_NULL_UNARY_FORBIDDEN |->
           c.error_on_null = PyBool(TRUE) /\ OperatorIn(c, UnaryOperators),
         UNARY_OPERATOR_RIGHT_FORBIDDEN |-> OperatorIn(c, UnaryOperators) /\ c.right # PyNone,
         BINARY_OPERATOR_RIGHT_REQUIRED |->
           valid /\ ~OperatorIn(c, UnaryOperators) /\ c.right = PyNone,
         IN_OPERATOR_COLLECTION_REQUIRED |->
           OperatorIn(c, MembershipOperators) /\ RightLiteral(c) /\ ~IsCollection(c.right.value),
         BETWEEN_OPERATOR_PAIR_REQUIRED |->
           OperatorIn(c, PairOperators) /\ RightLiteral(c) /\ ~IsPair(c.right.value)])
      \cup EachOf(Sides(c), LAMBDA o : OperandIssues(o, FALSE))

GroupIssues(g) ==
  Failing([CONDITION_GROUP_ID_INVALID |-> ~IsNonEmptyText(g.condition_group_id),
           LOGICAL_OPERATOR_INVALID |->
             g.logical_operator \notin {PyText(o) : o \in LogicalOperators},
           CONDITION_GROUP_EMPTY |-> g.conditions.items = <<>> /\ g.groups.items = <<>>,
           CONDITION_ID_INVALID |->
             \E c \in ToSet(g.conditions.items) : ~IsNonEmptyText(c.condition_id)])
  \cup EachOf(g.conditions.items, ConditionIssues)

(***************************************************************************)
(* Assignments and rules.                                                  *)
(***************************************************************************)
AssignmentIssues(a) ==
  Failing([ASSIGNMENT_ID_INVALID |-> ~IsNonEmptyText(a.assignment_id),
           ASSIGNMENT_TARGET_FIELD_INVALID |-> ~IsNonEmptyText(a.target_field)])
  \cup OperandIssues(a.value, TRUE)

HasGroup(r) == "logical_operator" \in DOMAIN r.root_group
HasOrder(r) == r.rule_order.type = "int"
TargetsIn(r) == [i \in DOMAIN r.assignments.items |-> r.assignments.items[i].target_field]

RuleIssues(r) ==
  Failing([RULE_ID_INVALID |-> ~IsNonEmptyText(r.rule_id),
           RULE_NAME_INVALID |-> ~IsNonEmptyText(r.rule_name),
           RULE_ORDER_INVALID |-> ~HasOrder(r),
           RULE_ACTIVE_FLAG_INVALID |-> ~IsFlag(r.active_flag),
           RULE_STOP_ON_MATCH_INVALID |-> ~IsFlag(r.stop_on_match),
           RULE_CONDITION_GROUP_INVALID |-> ~HasGroup(r),
           RULE_ASSIGNMENT_REQUIRED |-> r.assignments.items = <<>>,
           ASSIGNMENT_TARGET_DUPLICATE_WITHIN_RULE |-> Repeated(TargetsIn(r))])
  \cup EachOf(r.assignments.items, AssignmentIssues)
  \cup (IF HasGroup(r) THEN EachOf(GroupsIn(r.root_group), GroupIssues) ELSE {})

(***************************************************************************)
(* Every assigned operand needs an active rule with a lower rule_order     *)
(* that assigns its target, wherever the two rules stand in the document.  *)
(***************************************************************************)
IsActive(r) == r.active_flag = PyBool(TRUE) /\ HasOrder(r)

Produces(r, target) == target \in ToSet(TargetsIn(r))

ReferencesAssigned(o) ==
  {p.name : p \in {q \in ToSet(OperandTree(o)) : q.kind = "assigned" /\ IsNonEmptyText(q.name)}}

AssignedReferences(r) ==
  LET all == IF HasGroup(r) THEN ConditionsIn(r.root_group) ELSE <<>>
      active == SelectSeq(all, LAMBDA c : c.active_flag # PyBool(FALSE))
      sides == FlattenSeq([i \in DOMAIN active |-> Sides(active[i])])
      values == [i \in DOMAIN r.assignments.items |-> r.assignments.items[i].value]
  IN  EachOf(SelectSeq(sides \o values, IsOperand), ReferencesAssigned)

PriorProducerDeclared(rules, r, target) ==   \* mutant: an inactive rule counts
  \E p \in rules : /\ HasOrder(p) /\ Produces(p, target)
                   /\ p.rule_order.number < r.rule_order.number
PriorProducer(rules, r, target) ==
  \E p \in rules : /\ IsActive(p) /\ Produces(p, target)
                   /\ p.rule_order.number < r.rule_order.number

Issues(ruleset) ==
  LET rules == ruleset.rules.items
      Each(Op(_)) == [i \in DOMAIN rules |-> Op(rules[i])]
      groups == FlattenSeq(Each(LAMBDA r : IF HasGroup(r) THEN GroupsIn(r.root_group) ELSE <<>>))
      conditions == FlattenSeq([i \in DOMAIN groups |-> groups[i].conditions.items])
      assignments == FlattenSeq(Each(LAMBDA r : r.assignments.items))
      orders == SelectSeq(Each(LAMBDA r : r.rule_order), LAMBDA v : v.type = "int")
  IN  Failing(
        [RULESET_ID_INVALID |-> ~IsNonEmptyText(ruleset.ruleset_id),
         RULESET_NAME_INVALID |-> ~IsNonEmptyText(ruleset.ruleset_name),
         RULESET_OWNER_REQUIRED |-> ~IsNonEmptyText(ruleset.owner),
         RULESET_OWNER_DEPARTMENT_REQUIRED |-> ~IsNonEmptyText(ruleset.owner_department),
         RULESET_RULE_REQUIRED |-> rules = <<>>,
         RULESET_ACTIVE_RULE_REQUIRED |->
           rules # <<>> /\ \A r \in ToSet(rules) : r.active_flag # PyBool(TRUE),
         RULE_ID_DUPLICATE |-> Repeated(Each(LAMBDA r : r.rule_id)),
         RULE_ORDER_DUPLICATE |-> ~IsInjective(orders),
         CONDITION_GROUP_ID_DUPLICATE |->
           Repeated([i \in DOMAIN groups |-> groups[i].condition_group_id]),
         CONDITION_ID_DUPLICATE |->
           Repeated([i \in DOMAIN conditions |-> conditions[i].condition_id]),
         ASSIGNMENT_ID_DUPLICATE |->
           Repeated([i \in DOMAIN assignments |-> assignments[i].assignment_id]),
         ASSIGNED_VALUE_PRIOR_PRODUCER_REQUIRED |->
           \E r \in ToSet(rules) :
             IsActive(r) /\ \E t \in AssignedReferences(r) : ~PriorProducer(ToSet(rules), r, t)])
      \cup EachOf(rules, RuleIssues)
=============================================================================
