-------------------------- MODULE ComparisonLaws --------------------------
(***************************************************************************)
(* One condition's operands compared under every operator an author could  *)
(* have written for them, and the laws that must relate the outcomes.      *)
(* Tolerance, text that reads as a number, nulls, non-finite numbers and   *)
(* temporal kinds make each of them easy to break.                         *)
(***************************************************************************)
EXTENDS Comparison

CONSTANTS
  Scalars,      \* the values operands take
  Tolerances    \* the tolerance_abs authors write

ASSUME ComparisonAssumption ==
  /\ \A v \in Scalars : v = [kind |-> v.kind, at |-> v.at] /\ v.at \in Int
  /\ Tolerances \subseteq Nat

VARIABLES
  left, right,      \* the operand values; a collection operator gets
  bound,            \* the pair <<right, bound>> instead
  tolerance, error_on_null,
  outcome           \* operator -> what _compare_values returned

vars == <<left, right, bound, tolerance, error_on_null, outcome>>

PairOperators == {"eq", "ne", "gt", "ge", "lt", "le"}
CollectionOperators == {"in", "not_in", "between", "not_between"}
Operators == NullOperators \cup PairOperators \cup CollectionOperators
Pending == "pending"

Init ==
  /\ left \in Scalars /\ right \in Scalars /\ bound \in Scalars
  /\ tolerance \in Tolerances /\ error_on_null \in BOOLEAN
  /\ outcome = [op \in Operators |-> Pending]

RightOperand(op) == IF op \in CollectionOperators THEN List(<<right, bound>>) ELSE right

CompareAll ==
  /\ outcome["eq"] = Pending
  /\ outcome' = [op \in Operators |->
                   Compare(left, op, RightOperand(op), tolerance, error_on_null)]
  /\ UNCHANGED <<left, right, bound, tolerance, error_on_null>>

Next == CompareAll
Spec == Init /\ [][Next]_vars
-----------------------------------------------------------------------------
Compared == outcome["eq"] # Pending
Decides(op) == outcome[op] \in {"true", "false"}
Holds(op) == outcome[op] = "true"
NoNulls == Null \notin {left, right, bound}
\* Two texts are equal only as texts, but are ordered as the numbers they read as.
SomeNumberOrTime == HasNumericType(left) \/ HasNumericType(right) \/ IsTemporal(left)

\* README.md:279-282: whatever the tolerance, a pair that can be ordered is
\* exactly one of less, equal and greater, since tolerance widens eq by what it
\* takes from lt and gt.
Trichotomy ==
  Compared /\ SomeNumberOrTime /\ Decides("lt") =>
    /\ Decides("eq") /\ Decides("gt")
    /\ Holds("lt") \/ Holds("eq") \/ Holds("gt")
    /\ ~(Holds("lt") /\ Holds("eq")) /\ ~(Holds("lt") /\ Holds("gt"))
    /\ ~(Holds("eq") /\ Holds("gt"))

\* le and ge are the complements of gt and lt, and add exactly what eq accepts.
OrderedConsistent ==
  Compared /\ Decides("lt") =>
    /\ Holds("le") <=> ~Holds("gt")
    /\ Holds("ge") <=> ~Holds("lt")
    /\ SomeNumberOrTime => /\ Holds("le") <=> (Holds("lt") \/ Holds("eq"))
                           /\ Holds("ge") <=> (Holds("gt") \/ Holds("eq"))

\* README.md:287: between is ge of the lower bound and le of the upper one, and
\* raises exactly when one of these does; its tolerance must be 0.
BetweenInclusive ==
  Compared /\ NoNulls /\ tolerance = 0 =>
    LET above == outcome["ge"]
        below == Compare(left, "le", bound, 0, error_on_null)
    IN  /\ Holds("between") <=> above = "true" /\ below = "true"
        /\ outcome["between"] = "raised" <=> "raised" \in {above, below}

\* README.md:285: membership is equality with some item, under the same
\* tolerance; items after an equal one cannot make it raise.
MembershipIsEquality ==
  Compared /\ NoNulls =>
    LET second == Compare(left, "eq", bound, tolerance, error_on_null)
    IN  outcome["in"] = IF outcome["eq"] # "false" THEN outcome["eq"] ELSE second
=============================================================================
