----------------------------- MODULE SparkTypes -----------------------------
(***************************************************************************)
(* Spark column types as the engine sees them: the type a literal, a field *)
(* or a function is given before evaluation (spark_validator.py), and the  *)
(* conversion of a Python value to its target type during evaluation       *)
(* (spark_runtime.py).  Strings, integrals, floating point and exact       *)
(* decimals are modelled; the boolean, temporal and nested types are not.  *)
(*                                                                         *)
(* A number is an integer count of units of 10^-UnitDigits.                *)
(***************************************************************************)
EXTENDS Integers, Sequences, SequencesExt

CONSTANTS
  IntegralMax,     \* integral type name -> its largest value
  IntegralDigits,  \* integral type name -> decimal digits that hold its values
  MaxPrecision,    \* Spark's largest decimal precision
  HintScale,       \* scale of the type the hint "decimal" stands for
  UnitDigits,      \* decimal digits after the point that a value may have
  DoubleExact,     \* integers up to this one are exact in a double
  Functions,       \* names of the registered functions
  ReturnTypeHint,  \* function -> "integer", ..., "same_as", "common_type" or "any"
  Function(_, _),  \* function, argument values -> its result
  Operands,        \* the operands in use, nested ones included
  NoHint           \* None as a value_type

TenTo[n \in Nat] == IF n = 0 THEN 1 ELSE 10 * TenTo[n - 1]

SparkTypesAssumption ==
  /\ DOMAIN IntegralMax = DOMAIN IntegralDigits
  /\ "long" \in DOMAIN IntegralMax
  /\ DOMAIN IntegralMax \subseteq {"byte", "short", "integer", "long"}
  /\ \A t \in DOMAIN IntegralMax :
       /\ IntegralMax[t] \in Nat /\ IntegralDigits[t] \in Nat
       /\ IntegralMax[t] + 1 < TenTo[IntegralDigits[t]]
  /\ \A t, u \in DOMAIN IntegralMax :
       /\ IntegralMax[t] = IntegralMax[u] => t = u
       /\ IntegralMax[t] <= IntegralMax[u] => IntegralDigits[t] <= IntegralDigits[u]
  /\ MaxPrecision \in Nat /\ HintScale \in 0..MaxPrecision
  /\ UnitDigits \in Nat /\ DoubleExact \in Nat
ASSUME SparkTypesAssumption

One == TenTo[UnitDigits]
Magnitude(n) == IF n < 0 THEN -n ELSE n

(***************************************************************************)
(* Types.  Unknown is None where a type is expected; the type of a column  *)
(* of nulls is Void.                                                       *)
(***************************************************************************)
Type(name) == [name |-> name, precision |-> 0, scale |-> 0]
Decimal(precision, scale) == [name |-> "decimal", precision |-> precision, scale |-> scale]
Unknown == Type("unknown")
Void == Type("void")
Long == Type("long")
Double == Type("double")

IsIntegral(t) == t.name \in DOMAIN IntegralMax
IsFloating(t) == t.name \in {"float", "double"}
IsDecimal(t) == t.name = "decimal"

\* The types a column has; those of the values a target is given.
ColumnTypes ==
  {Type(name) : name \in {"string", "float", "double"} \cup DOMAIN IntegralMax}
    \cup UNION {{Decimal(precision, scale) : scale \in 0..precision} :
                   precision \in 0..MaxPrecision}

\* The ranks of the integral types are the order of their sizes.
Rank(t) == IntegralMax[t.name]
IntegralPart(t) == IF IsDecimal(t) THEN t.precision - t.scale ELSE IntegralDigits[t.name]

Greater(m, n) == IF m >= n THEN m ELSE n

WidenedDecimalNoLimit(l, r) ==   \* mutant: a precision no Spark decimal has
  LET scale == Greater(l.scale, r.scale)
  IN  Decimal(Greater(IntegralPart(l), IntegralPart(r)) + scale, scale)
WidenedDecimal(l, r) ==
  LET scale == Greater(l.scale, r.scale)
      precision == Greater(IntegralPart(l), IntegralPart(r)) + scale
  IN  IF precision <= MaxPrecision THEN Decimal(precision, scale) ELSE Unknown

\* Never a string fallback: types that do not combine have no common type.
CommonType(l, r) ==
  CASE l = r -> l
    [] IsIntegral(l) /\ IsIntegral(r) -> IF Rank(l) >= Rank(r) THEN l ELSE r
    [] l # r /\ \/ IsFloating(l) /\ (IsFloating(r) \/ IsIntegral(r))
                \/ IsIntegral(l) /\ IsFloating(r) -> Double
    [] l # r /\ \/ IsDecimal(l) /\ (IsDecimal(r) \/ IsIntegral(r))
                \/ IsIntegral(l) /\ IsDecimal(r) -> WidenedDecimal(l, r)
    [] OTHER -> Unknown

NumericFit(proposed, target) ==   \* mutant: any number fits any numeric type
  \/ proposed = target
  \/ /\ IsIntegral(proposed) \/ IsFloating(proposed) \/ IsDecimal(proposed)
     /\ IsIntegral(target) \/ IsFloating(target) \/ IsDecimal(target)

\* May every value of the type proposed be stored in the target's type?
FitsType(proposed, target) ==
  CASE IsIntegral(proposed) /\ IsIntegral(target) -> Rank(proposed) <= Rank(target)
    [] IsIntegral(proposed) /\ IsFloating(target) -> TRUE
    [] IsIntegral(proposed) /\ IsDecimal(target) ->
         IntegralDigits[proposed.name] <= IntegralPart(target)
    [] IsDecimal(proposed) /\ IsDecimal(target) ->
         proposed.scale <= target.scale /\ IntegralPart(proposed) <= IntegralPart(target)
    [] proposed.name = "float" /\ target.name = "double" -> TRUE
    [] OTHER -> proposed = target

(***************************************************************************)
(* Values.  kind is the Python class; a list is a collection literal whose *)
(* items have no common type; a text is one that does not read as a        *)
(* number.  A decimal has the exponent it was written with, since          *)
(* Decimal('1.50') has three digits.                                       *)
(***************************************************************************)
None == [kind |-> "none", at |-> 0]
Raised == [kind |-> "raised", at |-> 0]
IntValue(n) == [kind |-> "int", at |-> n * One]
Float(at) == [kind |-> "float", at |-> at]
Dec(at) == [kind |-> "decimal", at |-> at]
Text(n) == [kind |-> "text", at |-> n]
List == [kind |-> "list", at |-> 0]

IsNumber(v) == v.kind \in {"int", "float", "decimal"}
Whole(v) == v.at % One = 0

DigitsOf[n \in Nat] == IF n < 10 THEN 1 ELSE 1 + DigitsOf[n \div 10]

\* The smallest decimal that holds a value written with this exponent.
DecimalLiteralType(v, exponent) ==
  LET scale == Greater(-exponent, 0)
      digits == DigitsOf[Magnitude(v.at) \div TenTo[UnitDigits + exponent]]
      precision == Greater(Greater(digits + exponent, 0) + scale, 1)
  IN  IF precision <= MaxPrecision THEN Decimal(precision, scale) ELSE Unknown

InDecimal(at, t) ==
  /\ LET limit == TenTo[IntegralPart(t) + UnitDigits] - 1 IN  at \in -limit .. limit
  /\ t.scale < UnitDigits => at % TenTo[UnitDigits - t.scale] = 0

InIntegral(at, t) ==
  /\ at % One = 0
  /\ at \in -(IntegralMax[t.name] + 1) * One .. IntegralMax[t.name] * One

LiteralType(v, exponent) ==
  CASE v.kind = "int" -> Long
    [] v.kind = "float" -> Double
    [] v.kind = "decimal" -> DecimalLiteralType(v, exponent)
    [] v.kind = "text" -> Type("string")
    [] OTHER -> Unknown

\* SPARK_TYPE_HINTS; a hint that is not in it stays in the ruleset.
HintType(hint) ==
  CASE hint = "string" -> Type("string")
    [] hint = "integer" -> Long
    [] hint = "decimal" -> Decimal(MaxPrecision, HintScale)
    [] hint = "double" -> Double
    [] OTHER -> Unknown

\* _literal_assignment_is_compatible: "undecided" leaves the decision to the types.
Decision(b) == IF b THEN "fits" ELSE "misfit"
LiteralDecisionUnranged(operand, target) ==   \* mutant: an int fits every integral
  IF operand.value.kind \in {"none", "int"} THEN "fits" ELSE "undecided"
LiteralDecision(operand, target) ==
  LET v == operand.value
      inferred == operand.value_type = NoHint
  IN  CASE v = None -> "fits"
        [] v.kind = "int" /\ inferred /\ IsIntegral(target) ->
             Decision(InIntegral(v.at, target))
        [] v.kind = "int" /\ inferred /\ IsFloating(target) -> "fits"
        [] v.kind = "int" /\ inferred /\ IsDecimal(target) -> Decision(InDecimal(v.at, target))
        [] v.kind = "float" /\ inferred -> Decision(IsFloating(target))
        [] v.kind = "decimal" -> Decision(IsDecimal(target) /\ InDecimal(v.at, target))
        [] OTHER -> "undecided"

(***************************************************************************)
(* The static type of an operand, given the types of the source columns    *)
(* and the types inferred for the assignment targets.                      *)
(***************************************************************************)
NestedOperands(operand) == IF operand.kind = "custom_function" THEN operand.args ELSE <<>>

Known(t) == t \notin {Unknown, Void}

\* The common type of what has a type; a type that does not combine is left out.
CommonOf(types) ==
  FoldLeft(LAMBDA t, u : CASE t = Unknown -> u
                           [] t # Unknown /\ CommonType(t, u) = Unknown -> t
                           [] OTHER -> CommonType(t, u),
           Unknown, types)

Conflicting(types) ==
  \E i \in DOMAIN types :
    LET before == CommonOf(SubSeq(types, 1, i - 1))
    IN  before # Unknown /\ types[i] # Unknown /\ CommonType(before, types[i]) = Unknown

\* The common type of a collection of arguments, if those with a type have one.
ArgumentsType(types) == IF Conflicting(types) THEN Unknown ELSE CommonOf(types)

FunctionType(name, argTypes) ==
  CASE ReturnTypeHint[name] = "same_as" -> argTypes[1]
    [] ReturnTypeHint[name] = "common_type" -> ArgumentsType(argTypes)
    [] OTHER -> HintType(ReturnTypeHint[name])

BaseLiteralType(operand) ==
  IF operand.value_type = NoHint \/ operand.value.kind = "list"
  THEN LiteralType(operand.value, operand.exponent) ELSE HintType(operand.value_type)

BaseType(operand, source, assigned, argTypes) ==
  CASE operand.kind = "field" ->
         IF source[operand.name] = Void THEN Unknown ELSE source[operand.name]
    [] operand.kind = "assigned" -> assigned[operand.name]
    [] operand.kind = "literal" -> BaseLiteralType(operand)
    [] operand.kind = "custom_function" -> FunctionType(operand.name, argTypes)

\* default_if_null is a literal; NoDefault stands for an operand without one.
NoDefault == [value |-> None, exponent |-> 0, value_type |-> NoHint]

\* A default types what has no type of its own, unless it is a function's.
TypeWithDefault(operand, base) ==
  IF /\ base = Unknown
     /\ \/ operand.kind \in {"field", "assigned"}
        \/ operand.kind = "literal" /\ operand.value = None
  THEN BaseLiteralType(operand.default_if_null) ELSE base

\* Operands nest to a finite depth, and what they refer to is there.
OperandDepth[operand \in Operands] ==
  LET args == NestedOperands(operand)
  IN  IF args = <<>> THEN 0 ELSE 1 + Max({OperandDepth[args[i]] : i \in DOMAIN args})

IsLiteral(literal) ==
  literal.value.kind = "decimal" =>
    literal.value.at \in Int /\ literal.exponent \in Int /\ UnitDigits + literal.exponent >= 0

WellFormedOperand(operand, fields, targets) ==
  /\ operand.kind \in {"field", "assigned", "literal", "custom_function"}
  /\ operand.kind = "field" => operand.name \in fields
  /\ operand.kind = "assigned" => operand.name \in targets
  /\ operand.kind = "literal" => IsLiteral(operand)
  /\ IsLiteral(operand.default_if_null)
  /\ operand.kind = "custom_function" =>
       /\ operand.args \in Seq(ToSet(operand.args))
       /\ ReturnTypeHint[operand.name] = "same_as" => operand.args # <<>>

\* operand -> [base, full]: _base_operand_type and _operand_type.
OperandTypes(source, assigned) ==
  LET typing[o \in Operands] ==
        LET args == NestedOperands(o)
            base == BaseType(o, source, assigned,
                             [i \in DOMAIN args |-> typing[args[i]].full])
        IN  [base |-> base, full |-> TypeWithDefault(o, base)]
  IN  typing

(***************************************************************************)
(* Evaluation: the value of an operand, and the value stored in a target   *)
(* of type t or the error raised instead.                                  *)
(***************************************************************************)
PlainValue(operand, row, committed, args) ==
  CASE operand.kind = "field" -> row[operand.name]
    [] operand.kind = "assigned" -> committed[operand.name]
    [] operand.kind = "literal" -> operand.value
    [] operand.kind = "custom_function" -> Function(operand.name, args)

Resolution(row, committed) ==
  LET value[o \in Operands] ==
        LET args == NestedOperands(o)
            plain == PlainValue(o, row, committed, [i \in DOMAIN args |-> value[args[i]]])
        IN  IF plain = None THEN o.default_if_null.value ELSE plain
  IN  value

\* float(n) of an integer beyond DoubleExact takes the nearest even one, ties to
\* a multiple of four.
NearestDouble(at) ==
  LET n == at \div One
  IN  IF at % One # 0 \/ Magnitude(n) <= DoubleExact \/ n % 2 = 0 THEN at
      ELSE (IF (n + 1) % 4 = 0 THEN n + 1 ELSE n - 1) * One

SparkIntegralTruncated(v, t) ==   \* mutant: drops the fraction
  LET whole == (v.at \div One) * One
  IN  IF IsNumber(v) /\ InIntegral(whole, t) THEN [kind |-> "int", at |-> whole] ELSE Raised
SparkIntegralValue(v, t) ==
  IF IsNumber(v) /\ InIntegral(v.at, t) THEN [kind |-> "int", at |-> v.at] ELSE Raised

SparkFloatValue(v) == IF IsNumber(v) THEN Float(NearestDouble(v.at)) ELSE Raised

SparkDecimalValue(v, t) ==
  IF IsNumber(v) /\ InDecimal(v.at, t) THEN Dec(v.at) ELSE Raised

SparkAssignmentValue(v, t) ==
  IF v \in {None, Raised} THEN v
  ELSE CASE t.name = "string" -> Text(v.at)
         [] IsIntegral(t) -> SparkIntegralValue(v, t)
         [] IsFloating(t) -> SparkFloatValue(v)
         [] IsDecimal(t) -> SparkDecimalValue(v, t)
=============================================================================
