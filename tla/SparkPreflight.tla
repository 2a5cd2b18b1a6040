--------------------------- MODULE SparkPreflight ---------------------------
(***************************************************************************)
(* What happens to a ruleset before and while Spark evaluates it: the      *)
(* compatibility validator infers the types of the assignment targets in   *)
(* rule order, resolves one type for each target, checks defaults and      *)
(* function arguments against these, and the rows of an accepted ruleset   *)
(* are evaluated with every assigned value stored in its target's type.    *)
(*                                                                         *)
(* The ruleset is the sequence of its active rules in rule_order, each the *)
(* sequence of its assignments, which have different targets; whether a    *)
(* rule matches is left open.  The worker runs in compact mode.  The names *)
(* of columns, their case and their presence are left out.                 *)
(***************************************************************************)
EXTENDS SparkTypes, FiniteSets

CONSTANTS
  Targets,        \* assignment target fields; those in Source exist already
  Source,         \* source column -> its type
  Rulesets,       \* the rulesets validated
  Rows,           \* the rows evaluated, of the types of Source
  ArgumentHint,   \* function -> the type_hint of each of its arguments
  NoId            \* no assignment

OperandTrees ==
  /\ IsFiniteSet(Operands)
  /\ \A operand \in Operands :
       /\ WellFormedOperand(operand, DOMAIN Source, Targets)
       /\ OperandDepth[operand] \in 0..Cardinality(Operands)
       /\ \A i \in DOMAIN NestedOperands(operand) :
            LET arg == NestedOperands(operand)[i]
            IN  arg \in Operands /\ OperandDepth[arg] < OperandDepth[operand]

WellFormedRule(rule) ==
  /\ rule \in Seq(ToSet(rule))
  /\ \A a \in ToSet(rule) : a.target_field \in Targets /\ a.value \in Operands
  /\ \A a, b \in ToSet(rule) : a.target_field = b.target_field => a = b

PreflightAssumption ==
  /\ OperandTrees
  /\ \A column \in DOMAIN Source : Source[column] \in ColumnTypes \cup {Void}
  /\ \A rules \in Rulesets :
       /\ rules \in Seq(ToSet(rules)) /\ \A rule \in ToSet(rules) : WellFormedRule(rule)
       /\ LET assignments == UNION {ToSet(rule) : rule \in ToSet(rules)}
          IN  /\ \A a, b \in assignments : a.assignment_id = b.assignment_id => a = b
              /\ \A a \in assignments : a.assignment_id # NoId
ASSUME PreflightAssumption

VARIABLES
  ruleset,
  stage,       \* "infer", "resolve", "check", "accepted", "rejected", "evaluate", "done"
  next,        \* the next rule to infer or to evaluate
  available,   \* target -> type inferred so far
  unresolved,  \* targets still to resolve
  resolved,    \* target -> the type of its column in the result
  issues,      \* <<check_name, assignment id>> pairs reported
  row, committed,
  failed       \* the assignment whose value could not be stored

vars == <<ruleset, stage, next, available, unresolved, resolved, issues, row, committed,
          failed>>

Stages == {"infer", "resolve", "check", "accepted", "rejected", "evaluate", "done"}

AllAssignments == UNION {ToSet(ruleset[i]) : i \in DOMAIN ruleset}
AssignmentsOf(target) == {a \in AllAssignments : a.target_field = target}
Assigned == {a.target_field : a \in AllAssignments}

Assigns(rule, target) == \E a \in ToSet(rule) : a.target_field = target
AssignmentTo(rule, target) == CHOOSE a \in ToSet(rule) : a.target_field = target

\* Existing targets keep their column's type, unless it is a column of nulls.
Existing(target) == target \in DOMAIN Source /\ Source[target] # Void

Untyped == [t \in Targets |-> Unknown]
NothingCommitted == [t \in Targets |-> None]

Init ==
  /\ ruleset \in Rulesets
  /\ stage = "infer" /\ next = 1
  /\ available = [t \in Targets |-> IF Existing(t) /\ t \in Assigned THEN Source[t] ELSE Unknown]
  /\ unresolved = {} /\ resolved = Untyped /\ issues = {}
  /\ row = <<>> /\ committed = NothingCommitted /\ failed = NoId

(***************************************************************************)
(* _inferred_assigned_types: one rule.  All operands of a rule see what    *)
(* the rules before it have inferred.                                      *)
(***************************************************************************)
InferredFrom(a, type) ==
  LET inferred == type[a.value].full
      current == available[a.target_field]
  IN  CASE Existing(a.target_field) -> Source[a.target_field]
        [] ~Existing(a.target_field) /\ inferred = Unknown -> current
        [] ~Existing(a.target_field) /\ current = Unknown -> inferred
        [] OTHER -> LET merged == CommonType(current, inferred)
                    IN  IF merged = Unknown THEN current ELSE merged

InferRule ==
  /\ stage = "infer" /\ next <= Len(ruleset)
  /\ LET type == OperandTypes(Source, available)
     IN  available' = [t \in Targets |->
           IF Assigns(ruleset[next], t)
           THEN InferredFrom(AssignmentTo(ruleset[next], t), type) ELSE available[t]]
  /\ next' = next + 1
  /\ UNCHANGED <<ruleset, stage, unresolved, resolved, issues, row, committed, failed>>

StartResolution ==
  /\ stage = "infer" /\ next > Len(ruleset)
  /\ stage' = "resolve" /\ unresolved' = Assigned
  /\ UNCHANGED <<ruleset, next, available, resolved, issues, row, committed, failed>>

(***************************************************************************)
(* _resolve_assignment_types: one target.  An existing target's type is    *)
(* fixed; a new one takes the common type of all that is assigned to it.   *)
(***************************************************************************)
AssignmentIsCompatible(a, proposed, target) ==
  LET o == a.value
      decision == IF o.kind = "literal" THEN LiteralDecision(o, target) ELSE "undecided"
  IN  \/ decision = "fits"
      \/ /\ decision = "undecided"
         /\ \/ FitsType(proposed, target)
            \/ o.kind = "custom_function" /\ ReturnTypeHint[o.name] = "decimal"
               /\ IsDecimal(target)

UnusableHintsOfLiterals(operand, target_known, existing) ==   \* mutant: only literals
  IF operand.kind = "literal" /\ operand.value = None /\ operand.value_type = NoHint /\ ~existing
  THEN {"NULL_TYPE_REQUIRED"} ELSE {}

\* _add_unusable_hint_issues: why an operand without a type cannot be used.
UnusableHints(operand, target_known, existing) ==
  CASE operand.kind = "literal" /\ operand.value_type # NoHint
         /\ HintType(operand.value_type) = Unknown -> {"VALUE_TYPE_UNSUPPORTED"}
    [] operand.kind = "literal" /\ operand.value = None /\ operand.value_type = NoHint ->
         IF existing THEN {} ELSE {"NULL_TYPE_REQUIRED"}
    [] operand.kind = "custom_function" -> IF existing THEN {} ELSE {"RETURN_TYPE_REQUIRED"}
    [] OTHER -> IF target_known THEN {} ELSE {"TYPE_UNRESOLVED"}

\* The types of the assignments of a target, rule by rule.
TypesAssigned(target, type) ==
  [i \in DOMAIN ruleset |->
     IF Assigns(ruleset[i], target)
     THEN type[AssignmentTo(ruleset[i], target).value].full ELSE Unknown]

ResolveExisting(target, type) ==
  /\ Existing(target)
  /\ resolved' = [resolved EXCEPT ![target] = Source[target]]
  /\ LET misfits == {a \in AssignmentsOf(target) :
                       IF type[a.value].full = Unknown
                       THEN a.value.kind = "literal"
                            /\ LiteralDecision(a.value, Source[target]) = "misfit"
                       ELSE ~AssignmentIsCompatible(a, type[a.value].full, Source[target])}
         unusable == UNION {UnusableHints(a.value, TRUE, TRUE) \X {a.assignment_id} :
                        a \in {b \in AssignmentsOf(target) : type[b.value].full = Unknown}}
     IN  issues' = issues \cup unusable
                     \cup {<<"TARGET_TYPE_INCOMPATIBLE", a.assignment_id>> : a \in misfits}

ResolveNew(target, type) ==
  /\ ~Existing(target)
  /\ LET types == TypesAssigned(target, type)
         common == CommonOf(types)
         untyped == {a \in AssignmentsOf(target) : type[a.value].full = Unknown}
     IN  /\ resolved' = [resolved EXCEPT ![target] = common]
         /\ issues' = issues
              \cup (IF Conflicting(types) THEN {<<"TYPE_CONFLICT", target>>} ELSE {})
              \cup UNION {UnusableHints(a.value, common # Unknown, FALSE) \X {a.assignment_id} :
                            a \in untyped}

ResolveTarget ==
  /\ stage = "resolve" /\ unresolved # {}
  /\ LET target == CHOOSE t \in unresolved : TRUE
         type == OperandTypes(Source, available)
     IN  /\ ResolveExisting(target, type) \/ ResolveNew(target, type)
         /\ unresolved' = unresolved \ {target}
  /\ UNCHANGED <<ruleset, stage, next, available, row, committed, failed>>

StartChecks ==
  /\ stage = "resolve" /\ unresolved = {}
  /\ stage' = "check"
  /\ UNCHANGED <<ruleset, next, available, unresolved, resolved, issues, row, committed,
                 failed>>

(***************************************************************************)
(* _validate_operand_defaults and _validate_custom_function_argument_types *)
(* use the resolved types; then the verdict is known.                      *)
(***************************************************************************)
Tree ==
  LET tree[o \in Operands] == {o} \cup UNION {tree[p] : p \in ToSet(NestedOperands(o))}
  IN  tree

DefaultIssues(operand, base) ==
  LET default == operand.default_if_null
      type == BaseLiteralType(default)
      decision == LiteralDecision(default, base)
      fits == decision = "fits" \/ (decision = "undecided" /\ FitsType(type, base))
  IN  (IF default.value_type # NoHint /\ type = Unknown
       THEN {"DEFAULT_IF_NULL_VALUE_TYPE_UNSUPPORTED"} ELSE {})
        \cup (IF base # Unknown /\ type # Unknown /\ ~fits
              THEN {"DEFAULT_IF_NULL_TYPE_INCOMPATIBLE"} ELSE {})

ArgumentMatches(type, hint) ==
  \/ hint = "any"
  \/ hint = "string" /\ type = Type("string")
  \/ hint = "integer" /\ IsIntegral(type)
  \/ hint = "number" /\ (IsIntegral(type) \/ IsFloating(type) \/ IsDecimal(type))

ArgumentIssues(operand, type) ==
  LET types == [i \in DOMAIN operand.args |-> type[operand.args[i]].full]
  IN  (IF \E i \in DOMAIN types :
            types[i] # Unknown /\ ~ArgumentMatches(types[i], ArgumentHint[operand.name][i])
       THEN {"ARG_TYPE_INCOMPATIBLE"} ELSE {})
        \cup (IF ReturnTypeHint[operand.name] = "common_type"
                   /\ Conflicting(types)
              THEN {"COMMON_TYPE_CONFLICT"} ELSE {})

OperandIssuesAgainst(assigned) ==
  LET type == OperandTypes(Source, assigned)
  IN  UNION {(UNION {DefaultIssues(o, type[o].base) \cup
                       (IF o.kind = "custom_function" THEN ArgumentIssues(o, type) ELSE {}) :
                       o \in Tree[a.value]}) \X {a.assignment_id} : a \in AllAssignments}

EarlyOperandIssues == OperandIssuesAgainst(available)   \* mutant: the types inferred on the way
OperandIssues == OperandIssuesAgainst(resolved)

CheckOperands ==
  /\ stage = "check"
  /\ issues' = issues \cup OperandIssues
  /\ stage' = IF issues' = {} THEN "accepted" ELSE "rejected"
  /\ UNCHANGED <<ruleset, next, available, unresolved, resolved, row, committed, failed>>

(***************************************************************************)
(* Evaluation of one row of an accepted ruleset.                           *)
(***************************************************************************)
StartRow ==
  /\ stage = "accepted"
  /\ stage' = "evaluate" /\ next' = 1
  /\ row' \in Rows
  /\ UNCHANGED <<ruleset, available, unresolved, resolved, issues, committed, failed>>

Stored(a) ==
  SparkAssignmentValue(Resolution(row, committed)[a.value], resolved[a.target_field])

SkipRule ==
  /\ stage = "evaluate" /\ next <= Len(ruleset)
  /\ next' = next + 1
  /\ UNCHANGED <<ruleset, stage, available, unresolved, resolved, issues, row, committed,
                 failed>>

ApplyRule ==
  /\ stage = "evaluate" /\ next <= Len(ruleset)
  /\ \A a \in ToSet(ruleset[next]) : Stored(a) # Raised
  /\ committed' = [t \in Targets |->
       IF Assigns(ruleset[next], t)
       THEN Stored(AssignmentTo(ruleset[next], t)) ELSE committed[t]]
  /\ next' = next + 1
  /\ UNCHANGED <<ruleset, stage, available, unresolved, resolved, issues, row, failed>>

RowRaises ==
  /\ stage = "evaluate" /\ next <= Len(ruleset)
  /\ \E i \in DOMAIN ruleset[next] :
       /\ Stored(ruleset[next][i]) = Raised
       /\ \A j \in 1..(i - 1) : Stored(ruleset[next][j]) # Raised
       /\ failed' = ruleset[next][i].assignment_id
  /\ stage' = "done" /\ committed' = NothingCommitted
  /\ UNCHANGED <<ruleset, next, available, unresolved, resolved, issues, row>>

FinishRow ==
  /\ stage = "evaluate" /\ next > Len(ruleset)
  /\ stage' = "done"
  /\ UNCHANGED <<ruleset, next, available, unresolved, resolved, issues, row, committed,
                 failed>>

Next ==
  \/ InferRule \/ StartResolution \/ ResolveTarget \/ StartChecks \/ CheckOperands
  \/ StartRow \/ SkipRule \/ ApplyRule \/ RowRaises \/ FinishRow

Spec == Init /\ [][Next]_vars

-----------------------------------------------------------------------------
Accepted == stage \in {"accepted", "evaluate", "done"}

\* A function whose type is not known before evaluation, or whose hint "decimal" says
\* nothing of the precision, is only checked row by row.
DataDependent(operand) ==
  LET type == OperandTypes(Source, resolved)
  IN  \E o \in Tree[operand] :
        o.kind = "custom_function"
          /\ (type[o].base = Unknown \/ ReturnTypeHint[o.name] = "decimal")

AssignmentById(id) == CHOOSE a \in AllAssignments : a.assignment_id = id

\* What a column of a type holds.
Holds(t, v) ==
  \/ v = None
  \/ t.name = "string" /\ v.kind = "text"
  \/ IsIntegral(t) /\ v.kind = "int" /\ InIntegral(v.at, t)
  \/ IsFloating(t) /\ v.kind = "float"
  \/ IsDecimal(t) /\ v.kind = "decimal" /\ InDecimal(v.at, t)

\* What the engine takes for a value of a type: a column or what is computed for it.
ValueOfType(v, t) ==
  \/ v = None
  \/ t.name = "string" /\ v.kind = "text"
  \/ IsIntegral(t) /\ v.kind = "int" /\ InIntegral(v.at, t)
  \/ IsFloating(t) /\ v.kind \in {"int", "float"}
  \/ IsDecimal(t) /\ v.kind \in {"int", "decimal"} /\ InDecimal(v.at, t)

InContract(v, hint) ==
  \/ hint = "any" \/ v = None
  \/ hint = "string" /\ v.kind = "text"
  \/ hint = "integer" /\ v.kind = "int"
  \/ hint = "number" /\ IsNumber(v)

-----------------------------------------------------------------------------
(***************************************************************************)
(* What preflight takes for granted: rows of the schema's types, literals  *)
(* that are values of their own type, and functions that return what their *)
(* contract (registry.py, return_type_hint) says when they are called with *)
(* what it says.                                                           *)
(***************************************************************************)
RowsFitSource ==
  \A r \in Rows : \A column \in DOMAIN Source :
    ValueOfType(r[column], IF Source[column] = Void THEN Unknown ELSE Source[column])

LiteralFits(literal) ==
  \/ literal.value = None
  \/ BaseLiteralType(literal) # Unknown /\ ValueOfType(literal.value, BaseLiteralType(literal))

\* A null literal with a default is compared with no target.
LiteralsPlain ==
  \A o \in Operands :
    /\ LiteralFits(o.default_if_null)
    /\ o.kind = "literal" =>
         LiteralFits(o) /\ (o.value = None => o.default_if_null.value = None)

KeepsContract(name, args) ==
  LET hint == ReturnTypeHint[name]
      result == Function(name, args)
      KeepsTypeOf(given) ==
        \A t \in ColumnTypes :
          (\A i \in given : ValueOfType(args[i], t)) => ValueOfType(result, t)
  IN  (\A i \in DOMAIN args : args[i] # Raised /\ InContract(args[i], ArgumentHint[name][i]))
        => /\ hint = "same_as" => KeepsTypeOf({1})
           /\ hint = "common_type" => KeepsTypeOf(DOMAIN args)
           /\ hint \notin {"same_as", "common_type", "decimal"} /\ HintType(hint) # Unknown =>
                ValueOfType(result, HintType(hint))

FunctionsKeepContract ==
  \A o \in Operands : o.kind = "custom_function" =>
    \A args : DOMAIN args = DOMAIN o.args => KeepsContract(o.name, args)

-----------------------------------------------------------------------------
\* The state of validation and evaluation stays within its types; a decimal type
\* never exceeds Spark's precision, and what is stored fits its column.
TypeOK ==
  /\ stage \in Stages /\ next \in 1..(Len(ruleset) + 1)
  /\ available \in [Targets -> ColumnTypes \cup {Unknown}]
  /\ resolved \in [Targets -> ColumnTypes \cup {Unknown}]
  /\ unresolved \subseteq Assigned
  /\ \A t \in Targets : Holds(resolved[t], committed[t])
  /\ failed = NoId \/ \E a \in AllAssignments : a.assignment_id = failed

\* The worker finds a type for every target an accepted ruleset assigns: the schema
\* of the result (assignment_schema) has a column for each of them.
EveryTargetTyped == Accepted => \A t \in Assigned : Known(resolved[t])

\* The resolved types agree with each other: every assignment of an accepted ruleset
\* could be stored losslessly given the types its operands really have.
AssignmentsConsistent ==
  Accepted => \A a \in AllAssignments :
    LET type == OperandTypes(Source, resolved)[a.value].full
    IN  type = Unknown \/ AssignmentIsCompatible(a, type, resolved[a.target_field])

\* Preflight is sound where the resolved types agree: a row of an accepted ruleset then
\* fails to store an assigned value only if a function whose type was not known
\* statically had a part in it.
FailuresDataDependent ==
  AssignmentsConsistent /\ failed # NoId => DataDependent(AssignmentById(failed).value)

\* No literal that an accepted ruleset assigns is unfit for its target, whatever the
\* row (spark_validator.py, literal compatibility against runtime conversion).
LiteralsFit ==
  Accepted => \A a \in AllAssignments :
    a.value.kind = "literal" =>
      SparkAssignmentValue(Resolution(row, committed)[a.value], resolved[a.target_field])
        # Raised

\* A function of an accepted ruleset is called with arguments of the types its
\* contract declares, also where they are values assigned by earlier rules whose
\* type a later rule has widened.
ArgumentsFitContract ==
  stage = "evaluate" /\ next <= Len(ruleset) =>
    \A a \in ToSet(ruleset[next]) : \A o \in Tree[a.value] :
      o.kind = "custom_function" => \A i \in DOMAIN o.args :
        DataDependent(o.args[i])
          \/ InContract(Resolution(row, committed)[o.args[i]], ArgumentHint[o.name][i])

\* Storing a value in a target that is not floating point never changes a number: the
\* conversion is exact or raises (spark_runtime.py, _spark_integral_value and _spark_decimal_value).
ValuesPreserved ==
  [][stage = "evaluate" /\ committed' # committed /\ stage' = "evaluate" =>
       \A a \in ToSet(ruleset[next]) :
         LET proposed == Resolution(row, committed)[a.value]
             stored == committed'[a.target_field]
         IN  IsNumber(proposed) /\ IsNumber(stored) /\ ~IsFloating(resolved[a.target_field])
               => stored.at = proposed.at]_vars
=============================================================================
