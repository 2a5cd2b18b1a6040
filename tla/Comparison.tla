---------------------------- MODULE Comparison ----------------------------
(***************************************************************************)
(* How a condition compares its two operands (_compare_values and its      *)
(* helpers in runtime.py).  A runtime value is a record: its kind says     *)
(* which Python type arrives from Spark and its field at is the number,    *)
(* the instant or the name it stands for.  Numbers count in units of       *)
(* 1/Unit, so that some of them are not integers.                          *)
(***************************************************************************)
EXTENDS Integers, Sequences

CONSTANT TextRelation  \* the <<operator, left, right>> whose texts are so related

Unit == 2

Null == [kind |-> "null", at |-> 0]
Number(n) == [kind |-> "number", at |-> n]
Nonfinite == [kind |-> "nonfinite", at |-> 0]            \* a float nan or inf
Numeral(n) == [kind |-> "numeral", at |-> n]             \* text Decimal() reads as n
NonfiniteText == [kind |-> "nonfinite_text", at |-> 0]   \* text such as "NaN"
Word(w) == [kind |-> "word", at |-> w]                   \* any other text
Bool(b) == [kind |-> "bool", at |-> b]
Date(d) == [kind |-> "date", at |-> d]
Aware(t) == [kind |-> "aware", at |-> t]                 \* timestamp with an offset
Naive(t) == [kind |-> "naive", at |-> t]                 \* timestamp without one
List(items) == [kind |-> "list", items |-> items]

NumericTypes == {"number", "nonfinite"}
Numeric == {"number", "numeral"}
NotFinite == {"nonfinite", "nonfinite_text"}
Temporal == {"date", "aware", "naive"}

\* What a comparison returns: None stands for unknown, raised for an exception.
Outcomes == {"true", "false", "none", "raised"}
Verdict(holds) == IF holds THEN "true" ELSE "false"
Negated(outcome) ==
  CASE outcome = "true" -> "false" [] outcome = "false" -> "true" [] OTHER -> outcome

HasNumericType(v) == v.kind \in NumericTypes
IsTemporal(v) == v.kind \in Temporal
Distance(m, n) == IF m >= n THEN m - n ELSE n - m

\* Two dates, or two timestamps that agree on having an offset, with no tolerance.
TemporalPair(left, right, tolerance) ==
  left.kind \in Temporal /\ left.kind = right.kind /\ tolerance = 0

\* left == right in Python; True and 1 are equal.
PythonEqual(left, right) ==
  \/ left = right
  \/ /\ {left.kind, right.kind} = {"bool", "number"}
     /\ IF left.kind = "bool" THEN left.at * Unit = right.at ELSE right.at * Unit = left.at

Equals(left, right, tolerance) ==
  LET numeric == HasNumericType(left) \/ HasNumericType(right)
  IN  CASE numeric /\ {left.kind, right.kind} \cap NotFinite # {} -> "raised"
        [] numeric /\ {left.kind, right.kind} \subseteq Numeric ->
             Verdict(Distance(left.at, right.at) <= tolerance)
        [] IsTemporal(left) \/ IsTemporal(right) ->
             IF TemporalPair(left, right, tolerance)
             THEN Verdict(left.at = right.at) ELSE "raised"
        [] OTHER -> Verdict(PythonEqual(left, right))

\* Both are finite numbers (or read as such), or they are a temporal pair.
Ordered(left, right, tolerance) ==
  IF IsTemporal(left) \/ IsTemporal(right)
  THEN TemporalPair(left, right, tolerance)
  ELSE {left.kind, right.kind} \subseteq Numeric

CompareOrderedStrictly(left, operator, right, tolerance) ==   \* mutant: ge is strict
  IF ~Ordered(left, right, tolerance) THEN "raised"
  ELSE Verdict(CASE operator = "gt" -> left.at > right.at + tolerance
                 [] operator = "ge" -> left.at > right.at - tolerance
                 [] operator = "lt" -> left.at < right.at - tolerance
                 [] operator = "le" -> left.at <= right.at + tolerance)
CompareOrderedInward(left, operator, right, tolerance) ==   \* mutant: gt overlaps eq
  IF ~Ordered(left, right, tolerance) THEN "raised"
  ELSE Verdict(CASE operator = "gt" -> left.at > right.at - tolerance
                 [] operator = "ge" -> left.at >= right.at - tolerance
                 [] operator = "lt" -> left.at < right.at - tolerance
                 [] operator = "le" -> left.at <= right.at + tolerance)
CompareOrdered(left, operator, right, tolerance) ==
  IF ~Ordered(left, right, tolerance) THEN "raised"
  ELSE Verdict(CASE operator = "gt" -> left.at > right.at + tolerance
                 [] operator = "ge" -> left.at >= right.at - tolerance
                 [] operator = "lt" -> left.at < right.at - tolerance
                 [] operator = "le" -> left.at <= right.at + tolerance)

ContainsItemEager(left, right, tolerance) ==   \* mutant: every item is compared
  IF right.kind # "list" THEN "raised"
  ELSE LET items == {Equals(left, right.items[i], tolerance) : i \in DOMAIN right.items}
       IN  IF "raised" \in items THEN "raised" ELSE Verdict("true" \in items)
\* any() stops at the first item that is equal or whose comparison raises.
ContainsItem(left, right, tolerance) ==
  IF right.kind # "list" THEN "raised"
  ELSE LET item(i) == Equals(left, right.items[i], tolerance)
           stops == {i \in DOMAIN right.items : item(i) # "false"}
       IN  IF stops = {} THEN "false"
           ELSE item(CHOOSE i \in stops : \A j \in stops : i <= j)

BetweenHalfOpen(left, right, tolerance) ==   \* mutant: the upper bound is excluded
  IF right.kind # "list" THEN "raised"
  ELSE IF Len(right.items) # 2 THEN "raised"
  ELSE LET lower == right.items[1]
           upper == right.items[2]
       IN  IF Ordered(lower, left, tolerance) /\ Ordered(left, upper, tolerance)
           THEN Verdict(lower.at <= left.at /\ left.at < upper.at)
           ELSE "raised"
Between(left, right, tolerance) ==
  IF right.kind # "list" THEN "raised"
  ELSE IF Len(right.items) # 2 THEN "raised"
  ELSE LET lower == right.items[1]
           upper == right.items[2]
       IN  IF Ordered(lower, left, tolerance) /\ Ordered(left, upper, tolerance)
           THEN Verdict(lower.at <= left.at /\ left.at <= upper.at)
           ELSE "raised"

TextHolds(left, operator, right) == Verdict(<<operator, left, right>> \in TextRelation)

NullOperators == {"is_null", "is_not_null"}
OrderedOperators == {"gt", "ge", "lt", "le"}
TextOperators == {"contains", "starts_with", "ends_with", "like"}

Compare(left, operator, right, tolerance, error_on_null) ==
  CASE operator = "is_null" -> Verdict(left = Null)
    [] operator = "is_not_null" -> Verdict(left # Null)
    [] operator \notin NullOperators /\ Null \in {left, right} ->
         IF error_on_null THEN "raised" ELSE "none"
    [] OTHER ->
         CASE operator = "eq" -> Equals(left, right, tolerance)
           [] operator = "ne" -> Negated(Equals(left, right, tolerance))
           [] operator \in OrderedOperators ->
                CompareOrdered(left, operator, right, tolerance)
           [] operator = "in" -> ContainsItem(left, right, tolerance)
           [] operator = "not_in" -> Negated(ContainsItem(left, right, tolerance))
           [] operator = "between" -> Between(left, right, tolerance)
           [] operator = "not_between" -> Negated(Between(left, right, tolerance))
           [] operator \in TextOperators -> TextHolds(left, operator, right)
           [] operator = "not_contains" -> Negated(TextHolds(left, "contains", right))
           [] operator = "not_like" -> Negated(TextHolds(left, "like", right))
=============================================================================
