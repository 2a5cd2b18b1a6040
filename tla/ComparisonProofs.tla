-------------------------- MODULE ComparisonProofs --------------------------
(***************************************************************************)
(* The laws of ComparisonLaws for every integer, every tolerance and every *)
(* kind of scalar.                                                         *)
(***************************************************************************)
EXTENDS ComparisonLaws, TLAPS

\* A comparison of two non-null operands is what the operator's helper returns.
LEMMA PairOutcome ==
  ASSUME NEW l, NEW r, NEW t, NEW e, l # Null, r # Null
  PROVE  /\ Compare(l, "eq", r, t, e) = Equals(l, r, t)
         /\ \A op \in OrderedOperators :
              Compare(l, op, r, t, e) = CompareOrdered(l, op, r, t)
  BY DEF Compare, NullOperators, OrderedOperators, TextOperators

\* An unknown or failed comparison is the same for every pair operator.
LEMMA NullOutcome ==
  ASSUME NEW l, NEW r, NEW t, NEW e, l = Null \/ r = Null
  PROVE  \A op \in {"eq", "gt", "ge", "lt", "le"} :
           Compare(l, op, r, t, e) = IF e THEN "raised" ELSE "none"
  BY DEF Compare, NullOperators

\* What the four ordered operators decide for a pair that can be ordered.
LEMMA OrderedOutcome ==
  ASSUME NEW l, NEW r, NEW t, Ordered(l, r, t)
  PROVE  /\ CompareOrdered(l, "gt", r, t) = Verdict(l.at > r.at + t)
         /\ CompareOrdered(l, "ge", r, t) = Verdict(l.at >= r.at - t)
         /\ CompareOrdered(l, "lt", r, t) = Verdict(l.at < r.at - t)
         /\ CompareOrdered(l, "le", r, t) = Verdict(l.at <= r.at + t)
  BY DEF CompareOrdered

\* A pair that cannot be ordered makes every ordered operator raise.
LEMMA UnorderedOutcome ==
  ASSUME NEW l, NEW r, NEW t, NEW op, ~Ordered(l, r, t)
  PROVE  CompareOrdered(l, op, r, t) = "raised"
  BY DEF CompareOrdered

\* Two values that can be ordered, one of them typed as a number or an instant,
\* are equal when they are within the tolerance.
LEMMA EqualsOutcome ==
  ASSUME NEW l, NEW r, NEW t \in Nat, l.at \in Int, r.at \in Int, Ordered(l, r, t),
         HasNumericType(l) \/ HasNumericType(r) \/ IsTemporal(l)
  PROVE  Equals(l, r, t) = Verdict(l.at <= r.at + t /\ r.at <= l.at + t)
<1>1. CASE IsTemporal(l) \/ IsTemporal(r)
  <2>1. l.kind \in Temporal /\ r.kind \in Temporal /\ t = 0 /\ TemporalPair(l, r, t)
    BY <1>1 DEF Ordered, TemporalPair, Temporal
  <2>2. ~HasNumericType(l) /\ ~HasNumericType(r)
    BY <2>1 DEF HasNumericType, NumericTypes, Temporal
  <2>3. Equals(l, r, t) = Verdict(l.at = r.at)
    BY <1>1, <2>1, <2>2 DEF Equals
  <2>4. (l.at = r.at) <=> (l.at <= r.at + t /\ r.at <= l.at + t)
    BY <2>1
  <2>. QED BY <2>3, <2>4 DEF Verdict
<1>2. CASE ~(IsTemporal(l) \/ IsTemporal(r))
  <2>1. l.kind \in Numeric /\ r.kind \in Numeric
    BY <1>2 DEF Ordered
  <2>2. {l.kind, r.kind} \cap NotFinite = {} /\ {l.kind, r.kind} \subseteq Numeric
    BY <2>1 DEF Numeric, NotFinite
  <2>3. HasNumericType(l) \/ HasNumericType(r)
    BY <1>2
  <2>4. Equals(l, r, t) = Verdict(Distance(l.at, r.at) <= t)
    BY <1>2, <2>2, <2>3 DEF Equals
  <2>5. (Distance(l.at, r.at) <= t) <=> (l.at <= r.at + t /\ r.at <= l.at + t)
    BY DEF Distance
  <2>. QED BY <2>4, <2>5 DEF Verdict
<1>. QED BY <1>1, <1>2

-----------------------------------------------------------------------------
\* What each operator returned is its comparison of the operands, once made.
OutcomeInv ==
  /\ left \in Scalars /\ right \in Scalars /\ bound \in Scalars
  /\ tolerance \in Tolerances /\ error_on_null \in BOOLEAN
  /\ Compared =>
       outcome = [op \in Operators |->
                    Compare(left, op, RightOperand(op), tolerance, error_on_null)]

\* The comparison of the operands never changes: each run compares once.
THEOREM OutcomeCorrect == Spec => []OutcomeInv
<1>1. Init => OutcomeInv
  BY DEF Init, OutcomeInv, Compared, Operators, PairOperators
<1>2. OutcomeInv /\ [Next]_vars => OutcomeInv'
  <2>. SUFFICES ASSUME OutcomeInv, [Next]_vars PROVE OutcomeInv'
    OBVIOUS
  <2>1. CASE CompareAll
    BY <2>1 DEF OutcomeInv, CompareAll, Compared, RightOperand
  <2>2. CASE UNCHANGED vars
    BY <2>2 DEF OutcomeInv, Compared, RightOperand, vars
  <2>. QED BY <2>1, <2>2 DEF Next
<1>. QED BY <1>1, <1>2, PTL DEF Spec

\* The operators of a pair, read off the invariant.
LEMMA PairOutcomes ==
  ASSUME OutcomeInv, Compared
  PROVE  \A op \in PairOperators :
           outcome[op] = Compare(left, op, right, tolerance, error_on_null)
  BY DEF OutcomeInv, Operators, PairOperators, RightOperand, CollectionOperators

\* When lt decides, the operands are an ordered non-null pair of integers.
LEMMA DecidedPair ==
  ASSUME OutcomeInv, Compared, Decides("lt")
  PROVE  /\ left # Null /\ right # Null /\ Ordered(left, right, tolerance)
         /\ left.at \in Int /\ right.at \in Int /\ tolerance \in Nat
<1>1. outcome["lt"] = Compare(left, "lt", right, tolerance, error_on_null)
  BY PairOutcomes DEF PairOperators
<1>2. left # Null /\ right # Null
  BY <1>1, NullOutcome DEF Decides
<1>3. outcome["lt"] = CompareOrdered(left, "lt", right, tolerance)
  BY <1>1, <1>2, PairOutcome DEF OrderedOperators
<1>4. Ordered(left, right, tolerance)
  BY <1>3, UnorderedOutcome DEF Decides
<1>. QED BY <1>2, <1>4, ComparisonAssumption DEF OutcomeInv

\* What the pair operators return for it.
LEMMA DecidedOutcomes ==
  ASSUME OutcomeInv, Compared, Decides("lt")
  PROVE  /\ outcome["gt"] = Verdict(left.at > right.at + tolerance)
         /\ outcome["ge"] = Verdict(left.at >= right.at - tolerance)
         /\ outcome["lt"] = Verdict(left.at < right.at - tolerance)
         /\ outcome["le"] = Verdict(left.at <= right.at + tolerance)
         /\ SomeNumberOrTime =>
              outcome["eq"] = Verdict(/\ left.at <= right.at + tolerance
                                      /\ right.at <= left.at + tolerance)
<1>1. \A op \in OrderedOperators : outcome[op] = CompareOrdered(left, op, right, tolerance)
  BY DecidedPair, PairOutcomes, PairOutcome DEF PairOperators, OrderedOperators
<1>2. outcome["eq"] = Equals(left, right, tolerance)
  BY DecidedPair, PairOutcomes, PairOutcome DEF PairOperators
<1>3. SomeNumberOrTime => Equals(left, right, tolerance)
        = Verdict(left.at <= right.at + tolerance /\ right.at <= left.at + tolerance)
  BY DecidedPair, EqualsOutcome DEF SomeNumberOrTime
<1>4. /\ CompareOrdered(left, "gt", right, tolerance) = Verdict(left.at > right.at + tolerance)
      /\ CompareOrdered(left, "ge", right, tolerance) = Verdict(left.at >= right.at - tolerance)
      /\ CompareOrdered(left, "lt", right, tolerance) = Verdict(left.at < right.at - tolerance)
      /\ CompareOrdered(left, "le", right, tolerance) = Verdict(left.at <= right.at + tolerance)
  BY DecidedPair, OrderedOutcome
<1>. QED BY <1>1, <1>2, <1>3, <1>4 DEF OrderedOperators

\* README.md:279-282 for every tolerance: an ordered pair is exactly one of less,
\* equal and greater.
THEOREM TrichotomyHolds == Spec => []Trichotomy
<1>1. OutcomeInv => Trichotomy
  <2>. SUFFICES ASSUME OutcomeInv, Compared, SomeNumberOrTime, Decides("lt")
       PROVE  /\ Decides("eq") /\ Decides("gt")
              /\ Holds("lt") \/ Holds("eq") \/ Holds("gt")
              /\ ~(Holds("lt") /\ Holds("eq")) /\ ~(Holds("lt") /\ Holds("gt"))
              /\ ~(Holds("eq") /\ Holds("gt"))
    BY DEF Trichotomy
  <2>. QED BY DecidedOutcomes, DecidedPair DEF Decides, Holds, Verdict
<1>. QED BY <1>1, OutcomeCorrect, PTL

\* le and ge complement gt and lt, and accept what eq accepts, for every tolerance.
THEOREM OrderedConsistentHolds == Spec => []OrderedConsistent
<1>1. OutcomeInv => OrderedConsistent
  <2>. SUFFICES ASSUME OutcomeInv, Compared, Decides("lt")
       PROVE  /\ Holds("le") <=> ~Holds("gt")
              /\ Holds("ge") <=> ~Holds("lt")
              /\ SomeNumberOrTime => /\ Holds("le") <=> (Holds("lt") \/ Holds("eq"))
                                     /\ Holds("ge") <=> (Holds("gt") \/ Holds("eq"))
    BY DEF OrderedConsistent
  <2>. QED BY DecidedOutcomes, DecidedPair DEF Decides, Holds, Verdict
<1>. QED BY <1>1, OutcomeCorrect, PTL

\* between takes its two bounds apart.
LEMMA BetweenOutcome ==
  ASSUME NEW l, NEW lower, NEW upper, NEW e, l # Null
  PROVE  Compare(l, "between", List(<<lower, upper>>), 0, e) =
           IF Ordered(lower, l, 0) /\ Ordered(l, upper, 0)
           THEN Verdict(lower.at <= l.at /\ l.at <= upper.at) ELSE "raised"
<1>. DEFINE pair == List(<<lower, upper>>)
<1>1. pair.kind = "list" /\ pair.items = <<lower, upper>>
  BY DEF List
<1>2. pair # Null
  BY <1>1 DEF Null
<1>3. Compare(l, "between", pair, 0, e) = Between(l, pair, 0)
  BY <1>2 DEF Compare, NullOperators, OrderedOperators, TextOperators
<1>4. Between(l, pair, 0) =
        IF Ordered(lower, l, 0) /\ Ordered(l, upper, 0)
        THEN Verdict(lower.at <= l.at /\ l.at <= upper.at) ELSE "raised"
  BY <1>1 DEF Between
<1>. QED BY <1>3, <1>4

\* Without a tolerance, a pair can be ordered one way when it can the other way.
LEMMA OrderedSymmetric ==
  ASSUME NEW l, NEW r
  PROVE  Ordered(l, r, 0) <=> Ordered(r, l, 0)
  BY DEF Ordered, TemporalPair, IsTemporal

\* README.md:287 for every pair of bounds: between is ge of the lower and le of
\* the upper bound, and raises exactly when one of these does.
THEOREM BetweenInclusiveHolds == Spec => []BetweenInclusive
<1>1. OutcomeInv => BetweenInclusive
  <2>. SUFFICES ASSUME OutcomeInv, Compared, NoNulls, tolerance = 0
       PROVE  LET above == outcome["ge"]
                  below == Compare(left, "le", bound, 0, error_on_null)
              IN  /\ Holds("between") <=> above = "true" /\ below = "true"
                  /\ outcome["between"] = "raised" <=> "raised" \in {above, below}
    BY DEF BetweenInclusive
  <2>. DEFINE below == Compare(left, "le", bound, 0, error_on_null)
  <2>1. /\ left # Null /\ right # Null /\ bound # Null
        /\ left.at \in Int /\ right.at \in Int /\ bound.at \in Int
    BY ComparisonAssumption DEF NoNulls, OutcomeInv
  <2>2. outcome["between"] =
          IF Ordered(right, left, 0) /\ Ordered(left, bound, 0)
          THEN Verdict(right.at <= left.at /\ left.at <= bound.at) ELSE "raised"
    <3>1. outcome["between"] =
            Compare(left, "between", List(<<right, bound>>), 0, error_on_null)
      BY DEF OutcomeInv, Operators, CollectionOperators, RightOperand
    <3>. QED BY <3>1, <2>1, BetweenOutcome
  <2>3. outcome["ge"] =
          IF Ordered(left, right, 0) THEN Verdict(left.at >= right.at) ELSE "raised"
    <3>1. outcome["ge"] = CompareOrdered(left, "ge", right, 0)
      BY <2>1, PairOutcomes, PairOutcome DEF PairOperators, OrderedOperators
    <3>2. left.at >= right.at - 0 <=> left.at >= right.at
      BY <2>1
    <3>. QED BY <3>1, <3>2, OrderedOutcome, UnorderedOutcome DEF Verdict
  <2>4. below =
          IF Ordered(left, bound, 0) THEN Verdict(left.at <= bound.at) ELSE "raised"
    <3>1. below = CompareOrdered(left, "le", bound, 0)
      BY <2>1, PairOutcome DEF OrderedOperators
    <3>2. left.at <= bound.at + 0 <=> left.at <= bound.at
      BY <2>1
    <3>. QED BY <3>1, <3>2, OrderedOutcome, UnorderedOutcome DEF Verdict
  <2>5. left.at >= right.at <=> right.at <= left.at
    BY <2>1
  <2>6. Ordered(right, left, 0) <=> Ordered(left, right, 0)
    BY OrderedSymmetric
  <2>. HIDE DEF below
  <2>7. /\ Holds("between") <=> outcome["ge"] = "true" /\ below = "true"
        /\ outcome["between"] = "raised" <=> "raised" \in {outcome["ge"], below}
    <3>1. CASE Ordered(left, right, 0) /\ Ordered(left, bound, 0)
      BY <2>2, <2>3, <2>4, <2>5, <2>6, <3>1 DEF Holds, Verdict
    <3>2. CASE ~Ordered(left, right, 0) \/ ~Ordered(left, bound, 0)
      BY <2>2, <2>3, <2>4, <2>6, <3>2 DEF Holds, Verdict
    <3>. QED BY <3>1, <3>2
  <2>. QED BY <2>7 DEF below
<1>. QED BY <1>1, OutcomeCorrect, PTL

\* in takes the items of a pair one after the other, up to the first that is
\* equal or raises.
LEMMA MembershipOutcome ==
  ASSUME NEW l, NEW first, NEW second, NEW t, NEW e, l # Null
  PROVE  Compare(l, "in", List(<<first, second>>), t, e) =
           IF Equals(l, first, t) # "false" THEN Equals(l, first, t) ELSE Equals(l, second, t)
<1>1. PICK pair : pair = List(<<first, second>>)
  OBVIOUS
<1>2. /\ pair.kind = "list" /\ DOMAIN pair.items = {1, 2}
      /\ pair.items[1] = first /\ pair.items[2] = second
  BY <1>1 DEF List
<1>3. pair # Null
  BY <1>2 DEF Null
<1>4. Compare(l, "in", pair, t, e) = ContainsItem(l, pair, t)
  BY <1>3 DEF Compare, NullOperators, OrderedOperators, TextOperators
<1>. DEFINE item(i) == Equals(l, pair.items[i], t)
            stops == {i \in DOMAIN pair.items : item(i) # "false"}
            at == CHOOSE i \in stops : \A j \in stops : i <= j
<1>5. ContainsItem(l, pair, t) = IF stops = {} THEN "false" ELSE item(at)
  BY <1>2 DEF ContainsItem
<1>6. item(1) = Equals(l, first, t) /\ item(2) = Equals(l, second, t)
  BY <1>2
<1>7. \A i : i \in stops <=> i \in {1, 2} /\ item(i) # "false"
  BY <1>2
<1>. HIDE DEF item, stops
<1>8. CASE item(1) # "false"
  <2>1. 1 \in stops /\ \A j \in stops : 1 <= j
    BY <1>7, <1>8
  <2>2. at \in stops /\ at <= 1
    BY <2>1
  <2>3. at = 1
    BY <1>7, <2>2
  <2>. QED BY <1>1, <1>4, <1>5, <1>6, <1>8, <2>1, <2>3
<1>9. CASE item(1) = "false" /\ item(2) # "false"
  <2>1. stops = {2}
    BY <1>7, <1>9
  <2>2. at = 2
    BY <2>1
  <2>. QED BY <1>1, <1>4, <1>5, <1>6, <1>9, <2>1, <2>2
<1>10. CASE item(1) = "false" /\ item(2) = "false"
  <2>1. stops = {}
    BY <1>7, <1>10
  <2>. QED BY <1>1, <1>4, <1>5, <1>6, <1>10, <2>1
<1>. QED BY <1>8, <1>9, <1>10

\* README.md:285 for every pair of items: membership is equality with one of
\* them under the same tolerance, and an equal item hides the errors after it.
THEOREM MembershipIsEqualityHolds == Spec => []MembershipIsEquality
<1>1. OutcomeInv => MembershipIsEquality
  <2>. SUFFICES ASSUME OutcomeInv, Compared, NoNulls
       PROVE  LET second == Compare(left, "eq", bound, tolerance, error_on_null)
              IN  outcome["in"] = IF outcome["eq"] # "false" THEN outcome["eq"] ELSE second
    BY DEF MembershipIsEquality
  <2>1. left # Null /\ right # Null /\ bound # Null
    BY DEF NoNulls
  <2>2. outcome["in"] = Compare(left, "in", List(<<right, bound>>), tolerance, error_on_null)
    BY DEF OutcomeInv, Operators, CollectionOperators, RightOperand
  <2>3. outcome["eq"] = Equals(left, right, tolerance)
    BY <2>1, PairOutcomes, PairOutcome DEF PairOperators
  <2>4. Compare(left, "eq", bound, tolerance, error_on_null) = Equals(left, bound, tolerance)
    BY <2>1, PairOutcome
  <2>. QED BY <2>1, <2>2, <2>3, <2>4, MembershipOutcome
<1>. QED BY <1>1, OutcomeCorrect, PTL
=============================================================================
