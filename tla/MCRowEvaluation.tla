-------------------------- MODULE MCRowEvaluation --------------------------
(***************************************************************************)
(* Rulesets made of a few rules of a small pool, in any order, over three  *)
(* source columns.  The column score is also an assignment target.         *)
(***************************************************************************)
EXTENDS RowEvaluation

CONSTANTS
  PoolIds,      \* which rules of the pool the rulesets use
  MaxRules,     \* how many rules a ruleset has
  NonfiniteScores   \* may the source column score hold nan or infinity?

N(i) == Number(i * Unit)

\* score is a double column of the source and level a bigint one; grade and note
\* are new.
MCTargetType == [score |-> "double", grade |-> "integral", note |-> "string"]

\* Registered functions may raise, and may break their declared return type: half
\* returns a fraction, large leaves the integral range, shown returns a number.
MCFunction(name, args) ==
  LET x == args[1]
  IN  CASE name = "half" -> IF x = Null THEN Null ELSE Number(x.at \div 2)
        [] name = "large" -> IF x = N(1) THEN N(9) ELSE x
        [] name = "fails" -> IF x = N(1) THEN Raised ELSE N(0)
        [] name = "whole" -> IF x.kind = "nonfinite" THEN Raised ELSE x
        [] name = "shown" -> x
        [] name = "nothing" -> Null

Field(f) == [kind |-> "field", name |-> f, default_if_null |-> Null]
FieldOr(f, d) == [Field(f) EXCEPT !.default_if_null = d]
Assigned(t) == [kind |-> "assigned", name |-> t, default_if_null |-> Null]
AssignedOr(t, d) == [Assigned(t) EXCEPT !.default_if_null = d]
Literal(v) == [kind |-> "literal", value |-> v, default_if_null |-> Null]
Call(f, args) ==
  [kind |-> "custom_function", name |-> f, args |-> args, default_if_null |-> Null]

Basic ==
  {Field("score"), Field("level"), Field("rate"), FieldOr("level", N(1)),
   Assigned("score"), Assigned("grade"), AssignedOr("grade", N(1)), Assigned("note")}
    \cup {Literal(Null), Literal(N(0)), Literal(N(1))}
FunctionNames == {"half", "large", "fails", "whole", "shown", "nothing"}
MCOperands ==
  Basic \cup {Call(f, <<o>>) : f \in FunctionNames, o \in Basic}
    \cup {Call("large", <<Call("half", <<o>>)>>) : o \in Basic}

Test(id, left, operator, right) ==
  [condition_id |-> id, left |-> left, operator |-> operator, right |-> right,
   tolerance_abs |-> 0, error_on_null |-> FALSE, active_flag |-> TRUE]
Strict(condition) == [condition EXCEPT !.error_on_null = TRUE]
Inactive(condition) == [condition EXCEPT !.active_flag = FALSE]
Near(condition) == [condition EXCEPT !.tolerance_abs = 1]
Group(operator, conditions, nested) ==
  [operator |-> operator, conditions |-> conditions, nested |-> nested]
Set(id, target, value) == [assignment_id |-> id, target_field |-> target, value |-> value]

APoolRule(id, groups, assignments) ==
  [rule_id |-> id, rule_order |-> 0, groups |-> groups, assignments |-> assignments,
   active_flag |-> TRUE, stop_on_match |-> FALSE]

Pool ==
  { \* a defaulted condition; resets the source column score
    APoolRule("base",
      << Group("all", <<Test("b1", FieldOr("level", N(1)), "ge", Literal(N(0)))>>, {}) >>,
      << Set("ba", "score", Literal(N(0))), Set("bb", "grade", Field("level")) >>),
    \* reads both targets and exchanges them
    APoolRule("swap",
      << Group("all", <<Test("w1", Assigned("grade"), "is_not_null", Literal(Null))>>, {}) >>,
      << Set("wa", "score", Assigned("grade")),
         Set("wb", "grade", Call("whole", <<Assigned("score")>>)) >>),
    \* stops, after a nested group that can raise on a null
    [APoolRule("stop",
      << Group("any", <<Test("s1", Field("level"), "eq", Literal(N(1)))>>, {2}),
         Group("all", << Strict(Test("s2", Field("score"), "gt", Literal(N(0)))),
                         Inactive(Test("s3", Field("score"), "lt", Literal(N(0)))) >>, {}) >>,
      << Set("sa", "grade", AssignedOr("grade", N(1))) >>)
     EXCEPT !.stop_on_match = TRUE],
    \* functions, one of them around another, whose value may not fit its target
    APoolRule("calls",
      << Group("any", << Near(Test("c1", Call("half", <<Field("level")>>), "eq",
                                   Literal(N(0)))) >>, {}) >>,
      << Set("ca", "note", Call("shown", <<Field("level")>>)),
         Set("cb", "grade", Call("large", <<Call("half", <<Field("score")>>)>>)) >>),
    \* a number stored as text and compared with a number
    APoolRule("noted",
      << Group("all", <<Test("n1", Assigned("note"), "le", Literal(N(0)))>>, {}) >>,
      << Set("na", "grade", Literal(N(1))) >>),
    \* a function that raises, a comparison that may, and a null assigned
    APoolRule("risky",
      << Group("all", << Test("r1", Call("fails", <<Field("level")>>), "ne", Literal(N(1))),
                         Test("r2", Field("rate"), "gt", Literal(N(0))) >>, {}) >>,
      << Set("ra", "grade", Call("nothing", <<Field("level")>>)) >>),
    \* out of the integral range when the level is 1
    APoolRule("large",
      << Group("any", <<Test("l1", Field("level"), "is_not_null", Literal(Null))>>, {}) >>,
      << Set("la", "score", Field("level")),
         Set("lb", "grade", Call("large", <<Field("level")>>)) >>),
    \* never evaluated
    [APoolRule("off",
      << Group("all", <<Test("o1", Field("level"), "is_null", Literal(Null))>>, {}) >>,
      << Set("oa", "score", Literal(N(1))) >>)
     EXCEPT !.active_flag = FALSE] }

\* The validator asks for a lower-order active producer of every assigned operand.
ReadsOf(rule) ==
  LET conditions == UNION {ToSet(g.conditions) : g \in ToSet(rule.groups)}
      direct == UNION {{c.left, c.right} : c \in conditions}
                  \cup {a.value : a \in ToSet(rule.assignments)}
      operands == direct \cup UNION {ToSet(NestedOperands(o)) : o \in direct}
  IN  {o.name : o \in {p \in operands : p.kind = "assigned"}}
Produced(rules) ==
  \A r \in rules : r.active_flag => \A t \in ReadsOf(r) :
    \E p \in rules : p.active_flag /\ p.rule_order < r.rule_order /\ Assigns(p, t)

Chosen == {r \in Pool : r.rule_id \in PoolIds}
Orders == UNION {{s \in [1..n -> Chosen] : IsInjective(s)} : n \in 1..MaxRules}
Rulesets ==
  {q \in {{[s[i] EXCEPT !.rule_order = i] : i \in DOMAIN s} : s \in Orders} : Produced(q)}

Rows ==
  [score : {Null, N(0), N(1)} \cup (IF NonfiniteScores THEN {Nonfinite} ELSE {}), level : {Null, N(0), N(1)},
   rate : {N(1), Nonfinite}]

MCInputs == Rulesets \X Rows
=============================================================================
