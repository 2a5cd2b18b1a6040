------------------------ MODULE SparkPreflightProofs ------------------------
(***************************************************************************)
(* How types combine, for any integral types and any limit on precision,   *)
(* and what the validator promises of the rulesets it accepts: a column    *)
(* for every target, values that fit their columns and numbers that are    *)
(* stored as they are.                                                     *)
(***************************************************************************)
EXTENDS SparkPreflight, TLAPS, SequenceTheorems, FiniteSetTheorems, WellFoundedInduction

(***************************************************************************)
(* How types combine.                                                      *)
(***************************************************************************)
\* The types literals, fields and functions may have, modelled or not.
IsSparkType(t) ==
  \/ \E name : name \notin {"decimal", "unknown"} /\ t = Type(name)
  \/ \E precision \in 0..MaxPrecision : \E scale \in 0..precision :
       t = Decimal(precision, scale)

Integral(t) == t.name \in DOMAIN IntegralMax /\ t = Type(t.name)

\* Every type is of exactly one of four kinds.
LEMMA Kinds ==
  ASSUME NEW t, IsSparkType(t)
  PROVE  /\ t # Unknown
         /\ \/ Integral(t) /\ ~IsFloating(t) /\ ~IsDecimal(t)
            \/ IsFloating(t) /\ ~IsIntegral(t) /\ ~IsDecimal(t) /\ t = Type(t.name)
            \/ /\ IsDecimal(t) /\ ~IsIntegral(t) /\ ~IsFloating(t)
               /\ t.precision \in 0..MaxPrecision /\ t.scale \in 0..t.precision
               /\ t = Decimal(t.precision, t.scale)
            \/ ~IsIntegral(t) /\ ~IsFloating(t) /\ ~IsDecimal(t)
<1>1. CASE \E name : name \notin {"decimal", "unknown"} /\ t = Type(name)
  BY <1>1, SparkTypesAssumption
  DEF Type, Unknown, Integral, IsIntegral, IsFloating, IsDecimal, SparkTypesAssumption
<1>2. CASE \E precision \in 0..MaxPrecision : \E scale \in 0..precision :
             t = Decimal(precision, scale)
  BY <1>2, SparkTypesAssumption
  DEF Decimal, Type, Unknown, IsIntegral, IsFloating, IsDecimal, SparkTypesAssumption
<1> QED
  BY <1>1, <1>2 DEF IsSparkType

Exact(t) == IsIntegral(t) \/ IsDecimal(t)

\* Digits before and after the point of an exact type are counts.
LEMMA Digits ==
  ASSUME NEW t, IsSparkType(t), Exact(t)
  PROVE  t.scale \in Nat /\ IntegralPart(t) \in Nat
<1>1. CASE IsDecimal(t)
  BY <1>1, Kinds, SparkTypesAssumption
  DEF IsDecimal, IntegralPart, Decimal, IsIntegral, SparkTypesAssumption
<1>2. CASE IsIntegral(t)
  BY <1>2, Kinds, SparkTypesAssumption
  DEF IsIntegral, Integral, IntegralPart, Type, SparkTypesAssumption
<1> QED
  BY <1>1, <1>2 DEF Exact

(* Widening to a decimal takes the larger of two numbers of digits twice.  *)
LEMMA WideningCommutes ==
  ASSUME NEW l, IsSparkType(l), Exact(l), NEW r, IsSparkType(r), Exact(r)
  PROVE  WidenedDecimal(l, r) = WidenedDecimal(r, l)
<1>1. /\ Greater(l.scale, r.scale) = Greater(r.scale, l.scale)
      /\ Greater(IntegralPart(l), IntegralPart(r)) = Greater(IntegralPart(r), IntegralPart(l))
  BY Digits DEF Greater
<1> QED
  BY <1>1 DEF WidenedDecimal

\* The order in which two assignments of a target are met is irrelevant
\* (_resolve_assignment_types, _inferred_assigned_types).
THEOREM CommonTypeCommutes ==
  ASSUME NEW l, IsSparkType(l), NEW r, IsSparkType(r)
  PROVE  CommonType(l, r) = CommonType(r, l)
<1>1. CASE l = r
  BY <1>1
<1>2. CASE l # r /\ IsIntegral(l) /\ IsIntegral(r)
  <2>1. Integral(l) /\ Integral(r)
    BY <1>2, Kinds DEF IsIntegral
  <2>2. Rank(l) \in Nat /\ Rank(r) \in Nat /\ Rank(l) # Rank(r)
    BY <1>2, <2>1, SparkTypesAssumption DEF Rank, Integral, SparkTypesAssumption
  <2> QED
    BY <1>2, <2>2, Kinds DEF CommonType
<1>3. CASE l # r /\ Exact(l) /\ Exact(r) /\ (IsDecimal(l) \/ IsDecimal(r))
  <2>1. WidenedDecimal(l, r) = WidenedDecimal(r, l)
    BY <1>3, WideningCommutes
  <2> QED
    BY <1>3, <2>1, Kinds DEF CommonType, Exact
<1>4. CASE l # r /\ ~(Exact(l) /\ Exact(r))
  BY <1>4, Kinds DEF CommonType, Exact
<1> QED
  BY <1>1, <1>2, <1>3, <1>4 DEF Exact

\* The common type of two assignments holds every value of either, as the
\* validator itself judges it (_numeric_assignment_is_compatible).
THEOREM CommonTypeHoldsBoth ==
  ASSUME NEW l, IsSparkType(l), NEW r, IsSparkType(r), CommonType(l, r) # Unknown
  PROVE  FitsType(l, CommonType(l, r)) /\ FitsType(r, CommonType(l, r))
<1>1. CASE l = r
  <2>1. CommonType(l, r) = l
    BY <1>1 DEF CommonType
  <2>2. CASE IsIntegral(l)
    <3>1. Rank(l) \in Nat
      BY <2>2, SparkTypesAssumption DEF Rank, IsIntegral, SparkTypesAssumption
    <3> QED
      BY <1>1, <2>1, <2>2, <3>1, Kinds DEF FitsType
  <2>3. CASE IsDecimal(l)
    <3>1. l.scale \in Nat /\ IntegralPart(l) \in Nat
      BY <2>3, Digits DEF Exact
    <3> QED
      BY <1>1, <2>1, <2>3, <3>1, Kinds DEF FitsType
  <2>4. CASE ~IsIntegral(l) /\ ~IsDecimal(l)
    BY <1>1, <2>1, <2>4, Kinds DEF FitsType, IsFloating
  <2> QED
    BY <2>2, <2>3, <2>4
<1>2. CASE l # r /\ IsIntegral(l) /\ IsIntegral(r)
  <2>1. Rank(l) \in Nat /\ Rank(r) \in Nat
    BY <1>2, SparkTypesAssumption DEF Rank, IsIntegral, SparkTypesAssumption
  <2>2. CommonType(l, r) = IF Rank(l) >= Rank(r) THEN l ELSE r
    BY <1>2, Kinds DEF CommonType
  <2> QED
    BY <1>2, <2>1, <2>2, Kinds DEF FitsType
<1>3. CASE l # r /\ (IsFloating(l) \/ IsFloating(r))
  <2>1. /\ CommonType(l, r) = Double
        /\ IsFloating(l) \/ IsIntegral(l)
        /\ IsFloating(r) \/ IsIntegral(r)
    BY <1>3, Kinds DEF CommonType
  <2>2. /\ IsFloating(Double) /\ ~IsIntegral(Double) /\ ~IsDecimal(Double)
        /\ Double.name = "double"
    BY SparkTypesAssumption
    DEF Double, Type, IsFloating, IsIntegral, IsDecimal, SparkTypesAssumption
  <2>3. ASSUME NEW t, IsSparkType(t), IsFloating(t) \/ IsIntegral(t)
        PROVE  FitsType(t, Double)
    <3>1. CASE IsIntegral(t)
      BY <3>1, <2>2, <2>3, Kinds DEF FitsType
    <3>2. CASE t.name = "float"
      BY <3>2, <2>2, <2>3, Kinds DEF FitsType, IsFloating, IsDecimal
    <3>3. CASE t.name = "double"
      <4>1. t = Double
        BY <3>3, <2>3, Kinds DEF Double, IsFloating
      <4> QED
        BY <4>1, <2>2 DEF FitsType, IsDecimal
    <3> QED
      BY <2>3, <3>1, <3>2, <3>3 DEF IsFloating
  <2> QED
    BY <2>1, <2>3
<1>4. CASE /\ l # r /\ ~IsFloating(l) /\ ~IsFloating(r)
           /\ ~(IsIntegral(l) /\ IsIntegral(r))
  <2>1. /\ Exact(l) /\ Exact(r)
        /\ CommonType(l, r) = WidenedDecimal(l, r)
    BY <1>4, Kinds DEF CommonType, Exact
  <2> DEFINE scale == Greater(l.scale, r.scale)
             digits == Greater(IntegralPart(l), IntegralPart(r))
             common == CommonType(l, r)
  <2>2. common = Decimal(digits + scale, scale)
    BY <2>1 DEF WidenedDecimal
  <2>3. /\ l.scale \in Nat /\ IntegralPart(l) \in Nat
        /\ r.scale \in Nat /\ IntegralPart(r) \in Nat
        /\ scale \in Nat /\ digits \in Nat
    BY <2>1, Digits DEF Greater
  <2>4. /\ IsDecimal(common) /\ ~IsIntegral(common) /\ ~IsFloating(common)
        /\ common.scale = scale /\ IntegralPart(common) = digits
    BY <2>2, <2>3, SparkTypesAssumption
    DEF Decimal, IsDecimal, IsIntegral, IsFloating, IntegralPart, SparkTypesAssumption
  <2>5. ASSUME NEW t, IsSparkType(t), Exact(t), t.scale <= scale, IntegralPart(t) <= digits
        PROVE  FitsType(t, common)
    <3>1. CASE IsDecimal(t)
      BY <2>4, <2>5, <3>1, Kinds DEF FitsType
    <3>2. CASE IsIntegral(t)
      <4>1. IntegralPart(t) = IntegralDigits[t.name]
        BY <3>2, <2>5, Kinds DEF IntegralPart
      <4> QED
        BY <2>4, <2>5, <3>2, <4>1 DEF FitsType
    <3> QED
      BY <2>5, <3>1, <3>2 DEF Exact
  <2>6. /\ l.scale <= scale /\ IntegralPart(l) <= digits
        /\ r.scale <= scale /\ IntegralPart(r) <= digits
    BY <2>3 DEF Greater
  <2> QED
    BY <2>1, <2>5, <2>6
<1> QED
  BY <1>1, <1>2, <1>3, <1>4

\* Of exact types the common one has the digits of both before and after the
\* point, if there is room for them: it is an integral type only of two such.
LEMMA ExactCommon ==
  ASSUME NEW l, IsSparkType(l), Exact(l), NEW r, IsSparkType(r), Exact(r),
         NEW c, c = CommonType(l, r)
  PROVE  LET scale == Greater(l.scale, r.scale)
             digits == Greater(IntegralPart(l), IntegralPart(r))
         IN  \/ /\ c # Unknown /\ IsSparkType(c) /\ Exact(c)
                /\ c.scale = scale /\ IntegralPart(c) = digits
                /\ IsDecimal(c) => digits + scale <= MaxPrecision
                /\ IsIntegral(c) <=> IsIntegral(l) /\ IsIntegral(r)
                /\ IsIntegral(c) => Rank(c) = Greater(Rank(l), Rank(r))
             \/ /\ c = Unknown /\ digits + scale > MaxPrecision
                /\ IsDecimal(l) \/ IsDecimal(r)
<1> DEFINE scale == Greater(l.scale, r.scale)
           digits == Greater(IntegralPart(l), IntegralPart(r))
<1>1. /\ l.scale \in Nat /\ IntegralPart(l) \in Nat
      /\ r.scale \in Nat /\ IntegralPart(r) \in Nat
      /\ MaxPrecision \in Nat
  BY Digits, SparkTypesAssumption DEF SparkTypesAssumption
<1>2. CASE IsIntegral(l) /\ IsIntegral(r)
  <2>1. /\ Integral(l) /\ Integral(r)
        /\ ~IsDecimal(l) /\ ~IsDecimal(r)
    BY <1>2, Kinds DEF IsIntegral
  <2>2. /\ Rank(l) \in Nat /\ Rank(r) \in Nat
        /\ l.scale = 0 /\ r.scale = 0
    BY <2>1, SparkTypesAssumption DEF Rank, Integral, Type, SparkTypesAssumption
  <2>3. c = IF Rank(l) >= Rank(r) THEN l ELSE r
    BY <1>2, <2>1, <2>2, Kinds DEF CommonType
  <2>4. /\ IntegralPart(l) = IntegralDigits[l.name]
        /\ IntegralPart(r) = IntegralDigits[r.name]
    BY <2>1 DEF IntegralPart
  <2>5. /\ Rank(l) <= Rank(r) => IntegralPart(l) <= IntegralPart(r)
        /\ Rank(r) <= Rank(l) => IntegralPart(r) <= IntegralPart(l)
    BY <2>1, <2>4, SparkTypesAssumption DEF Rank, Integral, SparkTypesAssumption
  <2>6. c # Unknown /\ IsSparkType(c) /\ Exact(c) /\ IsIntegral(c) /\ ~IsDecimal(c)
    BY <1>2, <2>1, <2>3, Kinds DEF Exact
  <2>7. c.scale = scale /\ Rank(c) = Greater(Rank(l), Rank(r))
    BY <2>2, <2>3 DEF Greater
  <2>8. IntegralPart(c) = digits
    BY <1>1, <2>2, <2>3, <2>5 DEF Greater
  <2>. QED BY <1>2, <2>6, <2>7, <2>8
<1>3. CASE ~(IsIntegral(l) /\ IsIntegral(r))
  <2>1. IsDecimal(l) \/ IsDecimal(r)
    BY <1>3 DEF Exact
  <2>2. scale \in Nat /\ digits \in Nat
    BY <1>1 DEF Greater
  <2>3. c = IF digits + scale <= MaxPrecision THEN Decimal(digits + scale, scale) ELSE Unknown
    <3>1. CASE l = r
      <4>1. c = l /\ scale = l.scale /\ digits = IntegralPart(l)
        BY <3>1 DEF CommonType, Greater
      <4>2. /\ l.precision \in 0 .. MaxPrecision /\ l.scale \in 0 .. l.precision
            /\ l = Decimal(l.precision, l.scale)
            /\ IntegralPart(l) = l.precision - l.scale
        BY <2>1, <3>1, Kinds DEF IntegralPart
      <4>3. digits + scale = l.precision
        BY <4>1, <4>2
      <4>. QED BY <1>1, <4>1, <4>2, <4>3
    <3>2. CASE l # r
      <4>1. c = WidenedDecimal(l, r)
        BY <1>3, <2>1, <3>2, Kinds DEF CommonType, Exact
      <4>. QED BY <4>1 DEF WidenedDecimal
    <3>. QED BY <3>1, <3>2
  <2>4. CASE digits + scale <= MaxPrecision
    <3>1. c = Decimal(digits + scale, scale)
      BY <2>3, <2>4
    <3>2. digits + scale \in 0 .. MaxPrecision /\ scale \in 0 .. digits + scale
      BY <1>1, <2>2, <2>4
    <3>3. IsSparkType(c)
      BY <3>1, <3>2 DEF IsSparkType
    <3>4. IsDecimal(c) /\ c.scale = scale /\ c.precision = digits + scale
      BY <3>1 DEF Decimal, IsDecimal
    <3>5. IntegralPart(c) = digits
      BY <2>2, <3>4 DEF IntegralPart
    <3>6. c # Unknown /\ Exact(c) /\ ~IsIntegral(c)
      BY <3>3, <3>4, Kinds DEF Exact
    <3>. QED BY <1>3, <2>4, <3>3, <3>4, <3>5, <3>6
  <2>5. CASE ~(digits + scale <= MaxPrecision)
    BY <1>1, <2>1, <2>2, <2>3, <2>5
  <2>. QED BY <2>4, <2>5
<1>. QED BY <1>2, <1>3

\* An exact type is known by its digits and, of integral ones, its range.
LEMMA ExactKnown ==
  ASSUME NEW c, IsSparkType(c), Exact(c), NEW d, IsSparkType(d), Exact(d),
         c.scale = d.scale, IntegralPart(c) = IntegralPart(d),
         IsIntegral(c) <=> IsIntegral(d),
         IsIntegral(c) => Rank(c) = Rank(d)
  PROVE  c = d
<1>1. CASE IsIntegral(c)
  <2>1. Integral(c) /\ Integral(d)
    BY <1>1, Kinds DEF IsIntegral
  <2>2. c.name = d.name
    BY <1>1, <2>1, SparkTypesAssumption DEF Rank, Integral, SparkTypesAssumption
  <2>. QED BY <2>1, <2>2 DEF Integral
<1>2. CASE ~IsIntegral(c)
  <2>1. IsDecimal(c) /\ IsDecimal(d)
    BY <1>2 DEF Exact
  <2>2. /\ c = Decimal(c.precision, c.scale) /\ c.precision \in Nat /\ c.scale \in Nat
        /\ d = Decimal(d.precision, d.scale) /\ d.precision \in Nat /\ d.scale \in Nat
    BY <2>1, Kinds, SparkTypesAssumption DEF SparkTypesAssumption
  <2>3. c.precision - c.scale = d.precision - d.scale
    BY <2>1 DEF IntegralPart
  <2>4. c.precision = d.precision
    BY <2>2, <2>3
  <2>. QED BY <2>2, <2>4
<1>. QED BY <1>1, <1>2

\* Nothing combines with a type that is not known.
LEMMA UnknownRemains ==
  ASSUME NEW t, IsSparkType(t)
  PROVE  CommonType(t, Unknown) = Unknown /\ CommonType(Unknown, t) = Unknown
<1>1. ~IsIntegral(Unknown) /\ ~IsFloating(Unknown) /\ ~IsDecimal(Unknown)
  BY SparkTypesAssumption
  DEF Unknown, Type, IsIntegral, IsFloating, IsDecimal, SparkTypesAssumption
<1>. QED BY <1>1, Kinds DEF CommonType

\* What three exact types combine to has the digits of all three, if there is room
\* for them; it is an integral type only of integral ones.
Scales(l, m, r) == Greater(Greater(l.scale, m.scale), r.scale)
Parts(l, m, r) == Greater(Greater(IntegralPart(l), IntegralPart(m)), IntegralPart(r))
Ranks(l, m, r) == Greater(Greater(Rank(l), Rank(m)), Rank(r))
AllIntegral(l, m, r) == IsIntegral(l) /\ IsIntegral(m) /\ IsIntegral(r)
OfThree(c, l, m, r) ==
  \/ /\ c # Unknown /\ IsSparkType(c) /\ Exact(c)
     /\ c.scale = Scales(l, m, r) /\ IntegralPart(c) = Parts(l, m, r)
     /\ IsDecimal(c) => Parts(l, m, r) + Scales(l, m, r) <= MaxPrecision
     /\ IsIntegral(c) <=> AllIntegral(l, m, r)
     /\ IsIntegral(c) => Rank(c) = Ranks(l, m, r)
  \/ /\ c = Unknown /\ Parts(l, m, r) + Scales(l, m, r) > MaxPrecision
     /\ ~AllIntegral(l, m, r)

LEMMA ExactThree ==
  ASSUME NEW l, IsSparkType(l), Exact(l), NEW m, IsSparkType(m), Exact(m),
         NEW r, IsSparkType(r), Exact(r)
  PROVE  OfThree(CommonType(CommonType(l, m), r), l, m, r)
<1>1. PICK lm, c : lm = CommonType(l, m) /\ c = CommonType(lm, r)
  OBVIOUS
<1>2. /\ l.scale \in Nat /\ IntegralPart(l) \in Nat
      /\ m.scale \in Nat /\ IntegralPart(m) \in Nat
      /\ r.scale \in Nat /\ IntegralPart(r) \in Nat
      /\ MaxPrecision \in Nat
  BY Digits, SparkTypesAssumption DEF SparkTypesAssumption
<1>3. CASE lm = Unknown
  <2>1. /\ Greater(IntegralPart(l), IntegralPart(m)) + Greater(l.scale, m.scale) > MaxPrecision
        /\ IsDecimal(l) \/ IsDecimal(m)
    BY <1>1, <1>3, ExactCommon
  <2>2. c = Unknown
    BY <1>1, <1>3, UnknownRemains
  <2>3. Parts(l, m, r) + Scales(l, m, r) > MaxPrecision
    BY <1>2, <2>1 DEF Greater, Parts, Scales
  <2>4. ~AllIntegral(l, m, r)
    BY <2>1, Kinds DEF AllIntegral
  <2>. QED BY <1>1, <2>2, <2>3, <2>4 DEF OfThree
<1>4. CASE lm # Unknown
  <2>1. /\ IsSparkType(lm) /\ Exact(lm)
        /\ lm.scale = Greater(l.scale, m.scale)
        /\ IntegralPart(lm) = Greater(IntegralPart(l), IntegralPart(m))
        /\ IsIntegral(lm) <=> IsIntegral(l) /\ IsIntegral(m)
        /\ IsIntegral(lm) => Rank(lm) = Greater(Rank(l), Rank(m))
    BY <1>1, <1>4, ExactCommon
  <2>2. /\ Greater(lm.scale, r.scale) = Scales(l, m, r)
        /\ Greater(IntegralPart(lm), IntegralPart(r)) = Parts(l, m, r)
        /\ IsIntegral(lm) /\ IsIntegral(r) <=> AllIntegral(l, m, r)
        /\ AllIntegral(l, m, r) => Greater(Rank(lm), Rank(r)) = Ranks(l, m, r)
    BY <2>1 DEF Scales, Parts, AllIntegral, Ranks
  <2>3. IsDecimal(lm) \/ IsDecimal(r) => ~AllIntegral(l, m, r)
    BY <2>1, <2>2, Kinds
  <2>. QED BY <1>1, <2>1, <2>2, <2>3, ExactCommon DEF OfThree
<1>. QED BY <1>3, <1>4

\* Numbers that combine to a double, if one of them is floating.
Wide(t) == IsFloating(t) \/ IsIntegral(t)

\* How a type that is not exact combines with any other.
LEMMA InexactCommon ==
  ASSUME NEW l, IsSparkType(l), NEW r, IsSparkType(r), ~(Exact(l) /\ Exact(r))
  PROVE  CommonType(l, r) =
           IF l = r THEN l
           ELSE IF Wide(l) /\ Wide(r) THEN Double
           ELSE Unknown
<1>1. Exact(l) <=> IsIntegral(l) \/ IsDecimal(l)
  BY DEF Exact
<1>2. Exact(r) <=> IsIntegral(r) \/ IsDecimal(r)
  BY DEF Exact
<1>3. CASE l = r
  BY <1>3 DEF CommonType
<1>4. CASE l # r
  BY <1>1, <1>2, <1>4, Kinds DEF CommonType, Wide
<1>. QED BY <1>3, <1>4

\* What is known of two types is a type or that they have none in common.
LEMMA CommonIsType ==
  ASSUME NEW l, IsSparkType(l), NEW r, IsSparkType(r)
  PROVE  CommonType(l, r) = Unknown \/ IsSparkType(CommonType(l, r))
<1>1. CASE Exact(l) /\ Exact(r)
  BY <1>1, ExactCommon
<1>2. CASE ~(Exact(l) /\ Exact(r))
  <2>1. IsSparkType(Double)
    BY DEF IsSparkType, Double
  <2>. QED BY <1>2, <2>1, InexactCommon
<1>. QED BY <1>1, <1>2

\* What three types combine to of which one is not exact.
LEMMA InexactThree ==
  ASSUME NEW l, IsSparkType(l), NEW m, IsSparkType(m), NEW r, IsSparkType(r),
         ~(Exact(l) /\ Exact(m) /\ Exact(r))
  PROVE  CommonType(CommonType(l, m), r) =
           IF l = m /\ m = r THEN l
           ELSE IF Wide(l) /\ Wide(m) /\ Wide(r) THEN Double
           ELSE Unknown
<1>1. PICK lm, c : lm = CommonType(l, m) /\ c = CommonType(lm, r)
  OBVIOUS
<1>2. /\ IsSparkType(Double) /\ Wide(Double) /\ ~Exact(Double) /\ Double # Unknown
  BY SparkTypesAssumption
  DEF IsSparkType, Double, Type, Unknown, Exact, Wide, IsFloating, IsIntegral, IsDecimal,
      SparkTypesAssumption
<1>3. CommonType(Unknown, r) = Unknown
  BY UnknownRemains
<1>4. CASE Exact(l) /\ Exact(m)
  <2>1. ~Exact(r) /\ r # l
    BY <1>4
  <2>2. CASE lm = Unknown
    <3>1. ~(Wide(l) /\ Wide(m))
      BY <1>1, <1>4, <2>2, ExactCommon, Kinds DEF Wide
    <3>. QED BY <1>1, <1>3, <1>4, <2>1, <2>2, <3>1
  <2>3. CASE lm # Unknown
    <3>1. /\ IsSparkType(lm) /\ Exact(lm)
          /\ IsIntegral(lm) <=> IsIntegral(l) /\ IsIntegral(m)
      BY <1>1, <1>4, <2>3, ExactCommon
    <3>2. Wide(lm) <=> Wide(l) /\ Wide(m)
      BY <1>4, <3>1, Kinds DEF Wide, Exact
    <3>3. c = IF Wide(lm) /\ Wide(r) THEN Double ELSE Unknown
      BY <1>1, <2>1, <3>1, InexactCommon
    <3>. QED BY <1>1, <1>4, <2>1, <3>2, <3>3
  <2>. QED BY <2>2, <2>3
<1>5. CASE ~(Exact(l) /\ Exact(m))
  <2>1. lm = IF l = m THEN l ELSE IF Wide(l) /\ Wide(m) THEN Double ELSE Unknown
    BY <1>1, <1>5, InexactCommon
  <2>2. CASE l = m
    <3>1. c = CommonType(l, r) /\ ~(Exact(l) /\ Exact(r))
      BY <1>1, <1>5, <2>1, <2>2
    <3>. QED BY <1>1, <2>2, <3>1, InexactCommon
  <2>3. CASE l # m /\ Wide(l) /\ Wide(m)
    <3>1. c = CommonType(Double, r)
      BY <1>1, <2>1, <2>3
    <3>2. c = IF Wide(r) THEN Double ELSE Unknown
      BY <1>2, <3>1, InexactCommon
    <3>. QED BY <1>1, <2>3, <3>2
  <2>4. CASE l # m /\ ~(Wide(l) /\ Wide(m))
    BY <1>1, <1>3, <2>1, <2>4
  <2>. QED BY <2>2, <2>3, <2>4
<1>. QED BY <1>4, <1>5

\* The type a target is given does not depend on how its assignments are grouped
\* (_resolve_assignment_types, _inferred_assigned_types): with CommonTypeCommutes,
\* not on the order they are met in.  Where one way finds no room for the digits,
\* neither does the other.
THEOREM CommonTypeAssociates ==
  ASSUME NEW l, IsSparkType(l), NEW m, IsSparkType(m), NEW r, IsSparkType(r)
  PROVE  CommonType(CommonType(l, m), r) = CommonType(l, CommonType(m, r))
<1>1. CommonType(l, CommonType(m, r)) = CommonType(CommonType(r, m), l)
  <2>1. PICK mr : mr = CommonType(m, r)
    OBVIOUS
  <2>2. mr = CommonType(r, m)
    BY <2>1, CommonTypeCommutes
  <2>3. mr = Unknown \/ IsSparkType(mr)
    BY <2>1, CommonIsType
  <2>4. CommonType(l, mr) = CommonType(mr, l)
    BY <2>3, UnknownRemains, CommonTypeCommutes
  <2>. QED BY <2>1, <2>2, <2>4
<1>2. PICK left, right : /\ left = CommonType(CommonType(l, m), r)
                         /\ right = CommonType(CommonType(r, m), l)
  OBVIOUS
<1>3. CASE Exact(l) /\ Exact(m) /\ Exact(r)
  <2>1. OfThree(left, l, m, r) /\ OfThree(right, r, m, l)
    BY <1>2, <1>3, ExactThree
  <2>2. PICK scale \in Nat, digits \in Nat : scale = Scales(l, m, r) /\ digits = Parts(l, m, r)
    BY <1>3, Digits DEF Scales, Parts, Greater
  <2>3. scale = Scales(r, m, l) /\ digits = Parts(r, m, l)
    BY <1>3, <2>2, Digits DEF Scales, Parts, Greater
  <2>4. AllIntegral(l, m, r) <=> AllIntegral(r, m, l)
    BY DEF AllIntegral
  <2>5. AllIntegral(l, m, r) => Ranks(l, m, r) = Ranks(r, m, l)
    <3>1. AllIntegral(l, m, r) => Rank(l) \in Nat /\ Rank(m) \in Nat /\ Rank(r) \in Nat
      BY SparkTypesAssumption DEF AllIntegral, Rank, IsIntegral, SparkTypesAssumption
    <3>. QED BY <3>1 DEF Ranks, Greater
  <2>6. MaxPrecision \in Nat
    BY SparkTypesAssumption DEF SparkTypesAssumption
  <2>7. CASE left # Unknown /\ right # Unknown
    BY <1>1, <1>2, <2>1, <2>2, <2>3, <2>4, <2>5, <2>7, ExactKnown DEF OfThree
  <2>8. CASE left = Unknown \/ right = Unknown
    <3>1. digits + scale > MaxPrecision /\ ~AllIntegral(l, m, r)
      BY <2>1, <2>2, <2>3, <2>4, <2>8 DEF OfThree
    <3>2. left = Unknown /\ right = Unknown
      BY <2>1, <2>2, <2>3, <2>4, <2>6, <3>1 DEF OfThree, Exact
    <3>. QED BY <1>1, <1>2, <3>2
  <2>. QED BY <2>7, <2>8
<1>4. CASE ~(Exact(l) /\ Exact(m) /\ Exact(r))
  BY <1>1, <1>4, InexactThree
<1>. QED BY <1>3, <1>4

(***************************************************************************)
(* Recursive functions of the naturals.                                    *)
(***************************************************************************)
(* A set of numbers has a smallest one.                                    *)
LEMMA Least ==
  ASSUME NEW T \in SUBSET Nat, T # {}
  PROVE  \E m \in T : \A k \in T : m <= k
<1>1. PICK m \in T : \A k \in T : ~(<<k, m>> \in OpToRel(<, Nat))
  BY WFMin, NatLessThanWellFounded
<1>2. \A k \in T : ~(k < m)
  BY <1>1 DEF OpToRel
<1>. QED BY <1>2

(* Induction: what holds at 0 and from each number to the next holds at    *)
(* all.                                                                    *)
LEMMA Inductive ==
  ASSUME NEW T, 0 \in T, \A n \in Nat : n \in T => n + 1 \in T
  PROVE  Nat \subseteq T
<1> DEFINE missing == Nat \ T
<1>1. SUFFICES ASSUME missing # {} PROVE FALSE
  OBVIOUS
<1>2. PICK m \in missing : \A k \in missing : m <= k
  <2> HIDE DEF missing
  <2>1. missing \subseteq Nat
    BY DEF missing
  <2>. QED BY <1>1, <2>1, Least
<1>3. m # 0
  OBVIOUS
<1>4. m - 1 \in Nat /\ m - 1 \in T
  BY <1>2, <1>3
<1>5. m - 1 + 1 = m
  OBVIOUS
<1>. QED BY <1>4, <1>5

(* The values a function takes when each is computed from one before it.    *)
Descends(f, S, bases, base, prev, step) ==
  \A n \in S : f[n] = IF n \in bases THEN base ELSE step[n][f[prev[n]]]

(* A function of the naturals whose value at a number depends on its value *)
(* at a smaller one exists.                                                *)
LEMMA Descent ==
  ASSUME NEW V, NEW bases, NEW base \in V, NEW prev,
         \A n \in Nat \ bases : prev[n] \in Nat /\ prev[n] < n,
         NEW step \in [Nat -> [V -> V]]
  PROVE  \E f \in [Nat -> V] : Descends(f, Nat, bases, base, prev, step)
<1> DEFINE Fits(f, k) == Descends(f, 0 .. k, bases, base, prev, step)
           T == {k \in Nat : \E f \in [Nat -> V] : Fits(f, k)}
<1>1. \E f \in [Nat -> V] : Fits(f, 0)
  <2> DEFINE g == [n \in Nat |-> base]
  <2>1. g \in [Nat -> V] /\ g[0] = base
    OBVIOUS
  <2>2. 0 \in bases
    OBVIOUS
  <2>3. \A n \in 0 .. 0 : n = 0
    OBVIOUS
  <2> HIDE DEF g
  <2>. QED BY <2>1, <2>2, <2>3 DEF Descends
<1>2. ASSUME NEW k \in Nat, NEW f \in [Nat -> V], Fits(f, k)
      PROVE  \E g \in [Nat -> V] : Fits(g, k + 1)
  <2>1. PICK v \in V : v = IF k + 1 \in bases THEN base ELSE step[k + 1][f[prev[k + 1]]]
    OBVIOUS
  <2>2. PICK g : g = [f EXCEPT ![k + 1] = v]
    OBVIOUS
  <2>3. g \in [Nat -> V] /\ g[k + 1] = v /\ \A n \in Nat : n # k + 1 => g[n] = f[n]
    BY <2>2
  <2>4. \A n \in 0 .. k + 1 : n \in Nat /\ ((n \in 0 .. k /\ n # k + 1) \/ n = k + 1)
    OBVIOUS
  <2>5. \A n \in 0 .. k + 1 : n \notin bases => prev[n] \in Nat /\ prev[n] # k + 1
    OBVIOUS
  <2>6. ASSUME NEW n \in 0 .. k + 1
        PROVE  g[n] = IF n \in bases THEN base ELSE step[n][g[prev[n]]]
    <3>1. n \notin bases => g[prev[n]] = f[prev[n]]
      BY <2>3, <2>5
    <3>2. CASE n = k + 1
      BY <2>1, <2>3, <3>1, <3>2
    <3>3. CASE n \in 0 .. k /\ n # k + 1
      <4>1. g[n] = f[n]
        BY <2>3, <2>4, <3>3
      <4>2. f[n] = IF n \in bases THEN base ELSE step[n][f[prev[n]]]
        BY <1>2, <3>3 DEF Descends
      <4>. QED BY <3>1, <4>1, <4>2
    <3>. QED BY <2>4, <3>2, <3>3
  <2>. QED BY <2>3, <2>6 DEF Descends
<1>3. \A k \in Nat : \E f \in [Nat -> V] : Fits(f, k)
  <2> HIDE DEF Fits
  <2>1. 0 \in T
    BY <1>1
  <2>2. \A k \in Nat : k \in T => k + 1 \in T
    BY <1>2
  <2>3. Nat \subseteq T
    <3> HIDE DEF T
    <3>. QED BY <2>1, <2>2, Inductive
  <2>. QED BY <2>3
<1>4. ASSUME NEW f, NEW g, NEW k \in Nat, NEW m \in Nat, Fits(f, k), Fits(g, m),
             NEW n \in Nat, n <= k, n <= m
      PROVE  f[n] = g[n]
  <2> DEFINE differ == {i \in 0 .. n : f[i] # g[i]}
  <2>1. SUFFICES ASSUME differ # {} PROVE FALSE
    OBVIOUS
  <2>2. PICK i \in differ : \A j \in differ : i <= j
    <3>1. differ \subseteq Nat
      OBVIOUS
    <3> HIDE DEF differ
    <3>. QED BY <2>1, <3>1, Least
  <2>3. i \in 0 .. k /\ i \in 0 .. m /\ i \in 0 .. n /\ f[i] # g[i]
    BY <1>4
  <2>4. /\ f[i] = IF i \in bases THEN base ELSE step[i][f[prev[i]]]
        /\ g[i] = IF i \in bases THEN base ELSE step[i][g[prev[i]]]
    BY <1>4, <2>3 DEF Descends
  <2>5. i \notin bases => f[prev[i]] = g[prev[i]]
    <3>1. SUFFICES ASSUME i \notin bases PROVE f[prev[i]] = g[prev[i]]
      OBVIOUS
    <3>2. prev[i] \in 0 .. n /\ ~(i <= prev[i])
      BY <2>3, <3>1
    <3>. QED BY <2>2, <3>2
  <2>. QED BY <2>3, <2>4, <2>5
<1> DEFINE P(k) == CHOOSE f \in [Nat -> V] : Fits(f, k)
           F == [n \in Nat |-> P(n)[n]]
<1>5. ASSUME NEW k \in Nat PROVE P(k) \in [Nat -> V] /\ Fits(P(k), k)
  <2> HIDE DEF Fits
  <2>. QED BY <1>3
<1>6. ASSUME NEW n \in Nat PROVE F[n] = IF n \in bases THEN base ELSE step[n][F[prev[n]]]
  <2>1. PICK f : f = P(n)
    OBVIOUS
  <2>2. F[n] = f[n]
    BY <2>1
  <2>3. f[n] = IF n \in bases THEN base ELSE step[n][f[prev[n]]]
    <3>1. Fits(f, n)
      BY <1>5, <2>1
    <3>2. n \in 0 .. n
      OBVIOUS
    <3>. QED BY <3>1, <3>2 DEF Descends
  <2>4. ASSUME n \notin bases PROVE f[prev[n]] = F[prev[n]]
    <3>1. PICK p : p = prev[n]
      OBVIOUS
    <3>2. p \in Nat /\ p <= n /\ p <= p
      BY <2>4, <3>1
    <3>3. PICK h : h = P(p)
      OBVIOUS
    <3>4. F[p] = h[p]
      BY <3>2, <3>3
    <3>5. Fits(f, n) /\ Fits(h, p)
      BY <1>5, <2>1, <3>2, <3>3
    <3>6. f[p] = h[p]
      <4> HIDE DEF Fits
      <4>. QED BY <1>4, <3>2, <3>5
    <3>. QED BY <3>1, <3>4, <3>6
  <2> HIDE DEF F
  <2>. QED BY <2>2, <2>3, <2>4
<1>7. F \in [Nat -> V]
  <2>1. \A n \in Nat : P(n)[n] \in V
    <3> HIDE DEF P
    <3>. QED BY <1>5
  <2> HIDE DEF P
  <2>. QED BY <2>1
<1> HIDE DEF F
<1>. QED BY <1>6, <1>7 DEF Descends

(* A power of ten is ten times the one before it.                          *)
LEMMA TenToUnfold == TenTo[0] = 1 /\ \A n \in Nat : TenTo[n + 1] = 10 * TenTo[n]
<1> DEFINE V == Nat \ {0}
           prev == [m \in Nat |-> m - 1]
           step == [m \in Nat |-> [v \in V |-> 10 * v]]
           Fits(f) == f = [m \in Nat |-> IF m = 0 THEN 1 ELSE 10 * f[m - 1]]
<1>1. PICK f \in [Nat -> V] : Descends(f, Nat, {0}, 1, prev, step)
  <2>1. step \in [Nat -> [V -> V]] /\ 1 \in V
    OBVIOUS
  <2>2. \A m \in Nat \ {0} : prev[m] \in Nat /\ prev[m] < m
    OBVIOUS
  <2> HIDE DEF step, prev, V
  <2>. QED BY <2>1, <2>2, Descent
<1>2. Fits(f)
  <2>1. ASSUME NEW m \in Nat PROVE f[m] = IF m = 0 THEN 1 ELSE 10 * f[m - 1]
    <3>1. CASE m = 0
      BY <1>1, <3>1 DEF Descends
    <3>2. CASE m # 0
      <4>1. m - 1 \in Nat /\ prev[m] = m - 1 /\ f[m - 1] \in V
        BY <3>2
      <4>2. f[m] = step[m][f[m - 1]]
        BY <1>1, <3>2, <4>1 DEF Descends
      <4>3. step[m][f[m - 1]] = 10 * f[m - 1]
        BY <4>1
      <4>. QED BY <3>2, <4>2, <4>3
    <3>. QED BY <3>1, <3>2
  <2>. QED BY <2>1
<1>3. TenTo = CHOOSE g : Fits(g)
  BY DEF TenTo
<1>4. Fits(TenTo)
  <2> HIDE DEF Fits
  <2>. QED BY <1>2, <1>3
<1>5. PICK ten : ten = TenTo
  OBVIOUS
<1>6. \A m \in Nat : ten[m] = IF m = 0 THEN 1 ELSE 10 * ten[m - 1]
  BY <1>4, <1>5
<1>7. \A m \in Nat : m + 1 \in Nat /\ m + 1 # 0 /\ m + 1 - 1 = m
  OBVIOUS
<1>. QED BY <1>5, <1>6, <1>7

(* A power of ten is a positive number.                                    *)
LEMMA PowersOfTen == ASSUME NEW n \in Nat PROVE TenTo[n] \in Nat \ {0}
<1> DEFINE T == {m \in Nat : TenTo[m] \in Nat \ {0}}
<1>1. 0 \in T /\ \A m \in Nat : m \in T => m + 1 \in T
  BY TenToUnfold
<1>2. Nat \subseteq T
  <2> HIDE DEF T
  <2>. QED BY <1>1, Inductive
<1>. QED BY <1>2

(* The number of digits of a number is a count.                            *)
LEMMA DigitsCounted == ASSUME NEW n \in Nat PROVE DigitsOf[n] \in Nat
<1> DEFINE prev == [m \in Nat |-> m \div 10]
           step == [m \in Nat |-> [v \in Nat |-> 1 + v]]
           Fits(f) == f = [m \in Nat |-> IF m < 10 THEN 1 ELSE 1 + f[m \div 10]]
<1>1. PICK f \in [Nat -> Nat] : Descends(f, Nat, 0 .. 9, 1, prev, step)
  <2>1. step \in [Nat -> [Nat -> Nat]] /\ 1 \in Nat
    OBVIOUS
  <2>2. \A m \in Nat \ (0 .. 9) : prev[m] \in Nat /\ prev[m] < m
    OBVIOUS
  <2> HIDE DEF step, prev
  <2>. QED BY <2>1, <2>2, Descent
<1>2. Fits(f)
  <2>1. ASSUME NEW m \in Nat PROVE f[m] = IF m < 10 THEN 1 ELSE 1 + f[m \div 10]
    <3>1. CASE m < 10
      <4>1. m \in 0 .. 9
        BY <3>1
      <4> HIDE DEF step, prev
      <4>. QED BY <1>1, <3>1, <4>1 DEF Descends
    <3>2. CASE ~(m < 10)
      <4>1. m \div 10 \in Nat /\ prev[m] = m \div 10 /\ f[m \div 10] \in Nat
        BY <3>2
      <4>2. m \notin 0 .. 9
        BY <3>2
      <4>3. step[m][f[m \div 10]] = 1 + f[m \div 10]
        BY <4>1
      <4> HIDE DEF step, prev
      <4>4. f[m] = step[m][f[m \div 10]]
        BY <1>1, <4>1, <4>2 DEF Descends
      <4>. QED BY <3>2, <4>3, <4>4
    <3>. QED BY <3>1, <3>2
  <2> HIDE DEF step, prev
  <2>. QED BY <2>1
<1>3. DigitsOf = CHOOSE g : Fits(g)
  BY DEF DigitsOf
<1>4. Fits(DigitsOf)
  <2> HIDE DEF Fits
  <2>. QED BY <1>2, <1>3
<1>5. PICK digits : digits = DigitsOf
  OBVIOUS
<1>6. \A m \in Nat : digits[m] = IF m < 10 THEN 1 ELSE 1 + digits[m \div 10]
  BY <1>4, <1>5
<1> DEFINE odd == {m \in Nat : digits[m] \notin Nat}
<1>7. odd = {}
  <2>1. SUFFICES ASSUME odd # {} PROVE FALSE
    OBVIOUS
  <2>2. PICK m \in odd : \A k \in odd : m <= k
    <3>1. odd \subseteq Nat
      OBVIOUS
    <3> HIDE DEF odd
    <3>. QED BY <2>1, <3>1, Least
  <2>3. m >= 10
    BY <1>6
  <2>4. m \div 10 \in Nat /\ m \div 10 < m
    BY <2>3
  <2>5. digits[m \div 10] \in Nat
    BY <2>2, <2>4
  <2>. QED BY <1>6, <2>3, <2>5
<1>. QED BY <1>5, <1>7

(***************************************************************************)
(* The common type of a sequence of types.                                 *)
(***************************************************************************)
Merged(t, u) ==
  CASE t = Unknown -> u
    [] t # Unknown /\ CommonType(t, u) = Unknown -> t
    [] OTHER -> CommonType(t, u)

(* The greatest of a set that has one.                                     *)
LEMMA MaxOfUpTo ==
  ASSUME NEW k \in Nat, NEW S, S \in SUBSET (1 .. k + 1), k + 1 \in S
  PROVE  Max(S) = k + 1
<1>1. \A y \in S : k + 1 >= y
  OBVIOUS
<1>2. \A x \in S : (\A y \in S : x >= y) => x = k + 1
  OBVIOUS
<1>. QED BY <1>1, <1>2 DEF Max

(* The types met so far, and their common type.                            *)
Commons(f, types, n) ==
  f[0] = Unknown /\ \A i \in 1 .. n : f[i] = Merged(f[i - 1], types[i])

(* CommonOf merges one type after the other.                               *)
LEMMA CommonOfUnfold ==
  ASSUME NEW types, NEW n \in Nat, DOMAIN types = 1 .. n
  PROVE  \E f : Commons(f, types, n) /\ CommonOf(types) = f[n]
<1> DEFINE at(S, f) == IF S = {} THEN Unknown ELSE Merged(f[S \ {Max(S)}], types[Max(S)])
           Fits(f, k) == f = [S \in SUBSET (1 .. k) |-> at(S, f)]
           T == {k \in Nat : \E f : Fits(f, k)}
<1>1. CommonOf(types) = (CHOOSE f : Fits(f, n))[1 .. n]
  BY DEF CommonOf, FoldLeft, MapThenFoldSet, Merged
<1>2. 0 \in T
  <2>1. PICK f : f = [S \in SUBSET (1 .. 0) |-> Unknown]
    OBVIOUS
  <2>2. \A S \in SUBSET (1 .. 0) : S = {}
    OBVIOUS
  <2>3. \A S \in SUBSET (1 .. 0) : at(S, f) = Unknown
    BY <2>2
  <2>4. f = [S \in SUBSET (1 .. 0) |-> at(S, f)]
    <3> HIDE DEF at
    <3>. QED BY <2>1, <2>3
  <2> HIDE DEF at
  <2>. QED BY <2>4
<1>3. ASSUME NEW k \in Nat, NEW f, Fits(f, k) PROVE \E g : Fits(g, k + 1)
  <2>1. PICK g : g = [S \in SUBSET (1 .. k + 1) |-> at(S, f)]
    OBVIOUS
  <2>2. ASSUME NEW S \in SUBSET (1 .. k) PROVE g[S] = f[S]
    <3>1. S \in SUBSET (1 .. k + 1)
      OBVIOUS
    <3> HIDE DEF at
    <3>2. g[S] = at(S, f)
      BY <2>1, <3>1
    <3>3. f[S] = at(S, f)
      BY <1>3
    <3>. QED BY <3>2, <3>3
  <2>3. ASSUME NEW S \in SUBSET (1 .. k + 1) PROVE at(S, f) = at(S, g)
    <3>1. CASE S = {}
      BY <3>1
    <3>2. CASE S # {}
      <4>1. S \ {Max(S)} \in SUBSET (1 .. k)
        <5>1. PICK m : m = Max(S)
          OBVIOUS
        <5>2. k + 1 \in S => m = k + 1
          BY <5>1, MaxOfUpTo
        <5>3. \A x \in S : x # m => x \in 1 .. k
          BY <5>2
        <5>4. S \ {m} \subseteq 1 .. k
          BY <5>3
        <5>. QED BY <5>1, <5>4
      <4>. QED BY <2>2, <4>1
    <3>. QED BY <3>1, <3>2
  <2>4. g = [S \in SUBSET (1 .. k + 1) |-> at(S, g)]
    <3> HIDE DEF at
    <3>. QED BY <2>1, <2>3
  <2> HIDE DEF at
  <2>. QED BY <2>4
<1>4. \E f : Fits(f, n)
  <2> HIDE DEF Fits
  <2>1. \A k \in Nat : k \in T => k + 1 \in T
    BY <1>3
  <2>2. Nat \subseteq T
    <3> HIDE DEF T
    <3>. QED BY <1>2, <2>1, Inductive
  <2>. QED BY <2>2
<1>5. PICK iter : Fits(iter, n) /\ CommonOf(types) = iter[1 .. n]
  <2> HIDE DEF Fits
  <2>. QED BY <1>1, <1>4
<1>6. PICK f : f = [i \in 0 .. n |-> iter[1 .. i]]
  OBVIOUS
<1>7. ASSUME NEW i \in 0 .. n PROVE 1 .. i \in SUBSET (1 .. n) /\ f[i] = iter[1 .. i]
  BY <1>6
<1>8. f[0] = Unknown
  <2>1. 0 \in 0 .. n /\ 1 .. 0 = {}
    OBVIOUS
  <2>2. iter[1 .. 0] = at(1 .. 0, iter)
    <3> HIDE DEF at
    <3>. QED BY <1>5, <1>7, <2>1
  <2>. QED BY <1>7, <2>1, <2>2
<1>9. ASSUME NEW i \in 1 .. n PROVE f[i] = Merged(f[i - 1], types[i])
  <2>1. i \in 0 .. n /\ i - 1 \in 0 .. n /\ i - 1 \in Nat /\ i - 1 + 1 = i
    OBVIOUS
  <2>2. iter[1 .. i] = at(1 .. i, iter)
    <3> HIDE DEF at
    <3>. QED BY <1>5, <1>7, <2>1
  <2>3. i \in 1 .. i /\ 1 .. i # {}
    <3>1. i \in Nat /\ 1 <= i
      BY <2>1
    <3>2. i \in 1 .. i
      BY <3>1
    <3>. QED BY <3>2
  <2>4. Max(1 .. i) = i
    <3>1. PICK k : k = i - 1
      OBVIOUS
    <3>2. k \in Nat /\ k + 1 = i /\ 1 .. i = 1 .. k + 1
      BY <2>1, <3>1
    <3>. QED BY <2>3, <3>2, MaxOfUpTo
  <2>5. (1 .. i) \ {i} = 1 .. i - 1
    OBVIOUS
  <2>6. iter[1 .. i] = Merged(iter[1 .. i - 1], types[i])
    BY <2>2, <2>3, <2>4, <2>5
  <2>. QED BY <1>7, <2>1, <2>6
<1>10. f[n] = iter[1 .. n]
  BY <1>7
<1>. QED BY <1>5, <1>8, <1>9, <1>10 DEF Commons

(***************************************************************************)
(* The types an operand may have.                                          *)
(***************************************************************************)
MaybeType == ColumnTypes \cup {Unknown}

(* A column has a type, and never that of a column of nulls.               *)
LEMMA ColumnKinds ==
  ASSUME NEW t \in ColumnTypes
  PROVE  IsSparkType(t) /\ Known(t)
<1>1. CASE \E name \in {"string", "float", "double"} \cup DOMAIN IntegralMax : t = Type(name)
  <2>1. PICK name \in {"string", "float", "double"} \cup DOMAIN IntegralMax : t = Type(name)
    BY <1>1
  <2>2. name \notin {"decimal", "unknown", "void"}
    <3>1. name \in {"string", "float", "double", "byte", "short", "integer", "long"}
      BY SparkTypesAssumption DEF SparkTypesAssumption
    <3>. QED BY <3>1
  <2>3. t.name = name
    BY <2>1 DEF Type
  <2>4. Unknown.name = "unknown" /\ Void.name = "void"
    BY DEF Type, Unknown, Void
  <2>. QED BY <2>1, <2>2, <2>3, <2>4 DEF IsSparkType, Known
<1>2. CASE \E precision \in 0..MaxPrecision : \E scale \in 0..precision :
             t = Decimal(precision, scale)
  <2>1. t.name = "decimal"
    BY <1>2 DEF Decimal
  <2>2. Unknown.name = "unknown" /\ Void.name = "void"
    BY DEF Type, Unknown, Void
  <2>. QED BY <1>2, <2>1, <2>2 DEF IsSparkType, Known
<1>. QED BY <1>1, <1>2 DEF ColumnTypes

(* The types the validator names are types of columns.                     *)
LEMMA NamedTypes ==
  /\ Double \in ColumnTypes /\ Long \in ColumnTypes /\ Type("string") \in ColumnTypes
  /\ \A name \in DOMAIN IntegralMax : Type(name) \in ColumnTypes
  /\ \A precision \in 0..MaxPrecision : \A scale \in 0..precision :
       Decimal(precision, scale) \in ColumnTypes
BY SparkTypesAssumption DEF ColumnTypes, Double, Long, SparkTypesAssumption

(* What has no type combines with no type.                                 *)
LEMMA UnknownCombines ==
  ASSUME NEW t, t # Unknown
  PROVE  CommonType(t, Unknown) = Unknown /\ CommonType(Unknown, t) = Unknown
<1>1. ~IsIntegral(Unknown) /\ ~IsFloating(Unknown) /\ ~IsDecimal(Unknown)
  BY SparkTypesAssumption
  DEF Unknown, Type, IsIntegral, IsFloating, IsDecimal, SparkTypesAssumption
<1>. QED BY <1>1 DEF CommonType

(* What two types of columns have in common is the type of a column, if    *)
(* there is one: no precision exceeds what Spark has.                      *)
LEMMA CommonTypeOfColumns ==
  ASSUME NEW l \in MaybeType, NEW r \in MaybeType
  PROVE  CommonType(l, r) \in MaybeType
<1>1. CASE l = r
  BY <1>1 DEF CommonType
<1>2. CASE l # r /\ (l = Unknown \/ r = Unknown)
  BY <1>2, UnknownCombines DEF MaybeType
<1>3. CASE l # r /\ l \in ColumnTypes /\ r \in ColumnTypes
  <2>1. IsSparkType(l) /\ IsSparkType(r)
    BY <1>3, ColumnKinds
  <2>2. CASE IsIntegral(l) /\ IsIntegral(r)
    <3>1. CommonType(l, r) \in {l, r}
      BY <1>3, <2>1, <2>2, Kinds DEF CommonType
    <3>. QED BY <1>3, <3>1 DEF MaybeType
  <2>3. CASE \/ IsFloating(l) /\ (IsFloating(r) \/ IsIntegral(r))
             \/ IsIntegral(l) /\ IsFloating(r)
    <3>1. CommonType(l, r) = Double
      BY <1>3, <2>1, <2>3, Kinds DEF CommonType
    <3>. QED BY <3>1, NamedTypes DEF MaybeType
  <2>4. CASE \/ IsDecimal(l) /\ (IsDecimal(r) \/ IsIntegral(r))
             \/ IsIntegral(l) /\ IsDecimal(r)
    <3>1. CommonType(l, r) = WidenedDecimal(l, r)
      BY <1>3, <2>1, <2>4, Kinds DEF CommonType
    <3>2. /\ l.scale \in Nat /\ IntegralPart(l) \in Nat
          /\ r.scale \in Nat /\ IntegralPart(r) \in Nat
      BY <2>1, <2>4, Digits DEF Exact
    <3>3. PICK scale : scale = Greater(l.scale, r.scale)
      OBVIOUS
    <3>4. PICK precision : precision = Greater(IntegralPart(l), IntegralPart(r)) + scale
      OBVIOUS
    <3>5. scale \in Nat /\ precision \in Nat /\ scale <= precision
      BY <3>2, <3>3, <3>4 DEF Greater
    <3>6. WidenedDecimal(l, r) =
            IF precision <= MaxPrecision THEN Decimal(precision, scale) ELSE Unknown
      BY <3>3, <3>4 DEF WidenedDecimal
    <3>7. precision <= MaxPrecision => precision \in 0..MaxPrecision /\ scale \in 0..precision
      BY <3>5, SparkTypesAssumption DEF SparkTypesAssumption
    <3>. QED BY <3>1, <3>6, <3>7, NamedTypes DEF MaybeType
  <2>5. CASE /\ ~(IsIntegral(l) /\ IsIntegral(r))
             /\ ~ \/ IsFloating(l) /\ (IsFloating(r) \/ IsIntegral(r))
                  \/ IsIntegral(l) /\ IsFloating(r)
             /\ ~ \/ IsDecimal(l) /\ (IsDecimal(r) \/ IsIntegral(r))
                  \/ IsIntegral(l) /\ IsDecimal(r)
    <3>1. CommonType(l, r) = Unknown
      BY <1>3, <2>5 DEF CommonType
    <3>. QED BY <3>1 DEF MaybeType
  <2>. QED BY <2>2, <2>3, <2>4, <2>5
<1>. QED BY <1>1, <1>2, <1>3 DEF MaybeType

(* Merging keeps a type once there is one.                                 *)
LEMMA MergedType ==
  ASSUME NEW t \in MaybeType, NEW u \in MaybeType
  PROVE  /\ Merged(t, u) \in MaybeType
         /\ t # Unknown \/ u # Unknown => Merged(t, u) # Unknown
BY CommonTypeOfColumns DEF Merged

(* The common type of types of columns is one, and there is one as soon as *)
(* one of them is known: what does not combine is left out.                *)
LEMMA CommonOfTypes ==
  ASSUME NEW types, NEW n \in Nat, DOMAIN types = 1 .. n,
         \A i \in 1 .. n : types[i] \in MaybeType
  PROVE  /\ CommonOf(types) \in MaybeType
         /\ \A i \in 1 .. n : types[i] # Unknown => CommonOf(types) # Unknown
<1>1. PICK f : Commons(f, types, n) /\ CommonOf(types) = f[n]
  BY CommonOfUnfold
<1> DEFINE T == {k \in Nat : k <= n =>
                   /\ f[k] \in MaybeType
                   /\ \A i \in 1 .. k : types[i] # Unknown => f[k] # Unknown}
<1>2. 0 \in T
  <2>1. f[0] = Unknown /\ 1 .. 0 = {}
    BY <1>1 DEF Commons
  <2>. QED BY <2>1 DEF MaybeType
<1>3. ASSUME NEW k \in Nat, k \in T PROVE k + 1 \in T
  <2>1. SUFFICES ASSUME k + 1 <= n
                 PROVE  /\ f[k + 1] \in MaybeType
                        /\ \A i \in 1 .. k + 1 : types[i] # Unknown => f[k + 1] # Unknown
    OBVIOUS
  <2>2. k + 1 \in 1 .. n /\ k + 1 - 1 = k /\ k <= n
    BY <2>1
  <2>3. f[k + 1] = Merged(f[k], types[k + 1])
    BY <1>1, <2>2 DEF Commons
  <2>4. /\ f[k] \in MaybeType /\ types[k + 1] \in MaybeType
        /\ \A i \in 1 .. k : types[i] # Unknown => f[k] # Unknown
    BY <1>3, <2>2
  <2>5. \A i \in 1 .. k + 1 : i \in 1 .. k \/ i = k + 1
    OBVIOUS
  <2>. QED BY <2>3, <2>4, <2>5, MergedType
<1>4. n \in T
  <2> HIDE DEF T
  <2>. QED BY <1>2, <1>3, Inductive
<1>. QED BY <1>1, <1>4

(* What a hint stands for is a type or none.                               *)
LEMMA HintTypes == ASSUME NEW hint PROVE HintType(hint) \in MaybeType
<1>1. Decimal(MaxPrecision, HintScale) \in ColumnTypes
  BY NamedTypes, SparkTypesAssumption DEF SparkTypesAssumption
<1>. QED BY <1>1, NamedTypes DEF HintType, MaybeType

(* What a literal is inferred to be is a type or none.                     *)
LEMMA LiteralTypes ==
  ASSUME NEW l, IsLiteral(l)
  PROVE  BaseLiteralType(l) \in MaybeType
<1>1. \A hint : HintType(hint) \in MaybeType
  BY HintTypes
<1>2. PICK v : v = l.value
  OBVIOUS
<1>3. PICK exponent : exponent = l.exponent
  OBVIOUS
<1>4. CASE v.kind = "decimal"
  <2>1. v.at \in Int /\ exponent \in Int /\ UnitDigits + exponent \in Nat
    BY <1>2, <1>3, <1>4, SparkTypesAssumption DEF IsLiteral, SparkTypesAssumption
  <2>2. PICK scale : scale = Greater(-exponent, 0)
    OBVIOUS
  <2>3. PICK digits : digits = DigitsOf[Magnitude(v.at) \div TenTo[UnitDigits + exponent]]
    OBVIOUS
  <2>4. PICK precision : precision = Greater(Greater(digits + exponent, 0) + scale, 1)
    OBVIOUS
  <2>5. digits \in Nat
    <3>1. Magnitude(v.at) \in Nat
      BY <2>1 DEF Magnitude
    <3>2. PICK ten : ten = TenTo[UnitDigits + exponent]
      OBVIOUS
    <3>3. ten \in Nat \ {0}
      BY <2>1, <3>2, PowersOfTen
    <3>4. PICK m : m = Magnitude(v.at)
      OBVIOUS
    <3>5. m \div ten \in Nat
      BY <3>1, <3>3, <3>4
    <3>. QED BY <2>3, <3>2, <3>4, <3>5, DigitsCounted
  <2>6. precision \in Nat /\ scale \in 0..precision
    BY <2>1, <2>2, <2>4, <2>5 DEF Greater
  <2>7. LiteralType(v, exponent) =
          IF precision <= MaxPrecision THEN Decimal(precision, scale) ELSE Unknown
    BY <1>4, <2>2, <2>3, <2>4 DEF LiteralType, DecimalLiteralType
  <2>8. precision <= MaxPrecision => precision \in 0..MaxPrecision
    BY <2>6, SparkTypesAssumption DEF SparkTypesAssumption
  <2>9. LiteralType(v, exponent) \in MaybeType
    BY <2>6, <2>7, <2>8, NamedTypes DEF MaybeType
  <2>. QED BY <1>1, <1>2, <1>3, <2>9 DEF BaseLiteralType
<1>5. CASE v.kind # "decimal"
  <2>1. LiteralType(v, exponent) \in MaybeType
    BY <1>5, NamedTypes DEF LiteralType, MaybeType
  <2>. QED BY <1>1, <1>2, <1>3, <2>1 DEF BaseLiteralType
<1>. QED BY <1>4, <1>5

(***************************************************************************)
(* The types of operands.                                                  *)
(***************************************************************************)
TypeFrom(operand, assigned, typing) ==
  LET args == NestedOperands(operand)
      base == BaseType(operand, Source, assigned,
                       [i \in DOMAIN args |-> typing[args[i]].full])
  IN  [base |-> base, full |-> TypeWithDefault(operand, base)]

(* The type of an operand depends on those of its arguments only.          *)
LEMMA TypedAlike ==
  ASSUME NEW operand, NEW assigned, NEW f, NEW g,
         \A i \in DOMAIN NestedOperands(operand) :
           f[NestedOperands(operand)[i]] = g[NestedOperands(operand)[i]]
  PROVE  TypeFrom(operand, assigned, f) = TypeFrom(operand, assigned, g)
<1>1. PICK args : args = NestedOperands(operand)
  OBVIOUS
<1>2. [i \in DOMAIN args |-> f[args[i]].full] = [i \in DOMAIN args |-> g[args[i]].full]
  BY <1>1
<1>. QED BY <1>1, <1>2 DEF TypeFrom

(* Operands being trees, OperandTypes is the function its recursive        *)
(* definition describes.                                                   *)
LEMMA OperandTypesUnfold ==
  ASSUME NEW assigned, NEW typing, typing = OperandTypes(Source, assigned),
         NEW operand \in Operands
  PROVE  typing[operand] = TypeFrom(operand, assigned, typing)
<1> DEFINE step(o, f) == TypeFrom(o, assigned, f)
           Below(k) == {o \in Operands : OperandDepth[o] < k}
           Fits(f, S) == f = [o \in S |-> step(o, f)]
           T == {k \in Nat : \E f : Fits(f, Below(k))}
<1>1. Cardinality(Operands) \in Nat
  BY PreflightAssumption, FS_CardinalityType DEF PreflightAssumption, OperandTrees
<1>2. \A o \in Operands :
        OperandDepth[o] \in Nat /\ OperandDepth[o] < Cardinality(Operands) + 1
  BY <1>1, PreflightAssumption DEF PreflightAssumption, OperandTrees
<1>3. ASSUME NEW o \in Operands, NEW i \in DOMAIN NestedOperands(o)
      PROVE  /\ NestedOperands(o)[i] \in Operands
             /\ OperandDepth[NestedOperands(o)[i]] < OperandDepth[o]
  BY PreflightAssumption DEF PreflightAssumption, OperandTrees
<1>4. 0 \in T
  <2>1. Below(0) = {}
    BY <1>2
  <2>2. PICK f : f = [o \in {} |-> {}]
    OBVIOUS
  <2>3. Fits(f, {})
    <3> HIDE DEF step
    <3>. QED BY <2>2
  <2>. QED BY <2>1, <2>3
<1>5. ASSUME NEW k \in Nat, k \in T PROVE k + 1 \in T
  <2>1. PICK f : f = [o \in Below(k) |-> step(o, f)]
    BY <1>5
  <2>2. PICK g : g = [o \in Below(k + 1) |-> step(o, f)]
    OBVIOUS
  <2>3. ASSUME NEW o \in Below(k) PROVE g[o] = f[o]
    <3>1. o \in Below(k + 1)
      BY <1>2
    <3> HIDE DEF step, Below
    <3>2. g[o] = step(o, f)
      BY <2>2, <3>1
    <3>3. f[o] = step(o, f)
      BY <2>1
    <3>. QED BY <3>2, <3>3
  <2>4. ASSUME NEW o \in Below(k + 1) PROVE step(o, f) = step(o, g)
    <3>1. ASSUME NEW i \in DOMAIN NestedOperands(o)
          PROVE  f[NestedOperands(o)[i]] = g[NestedOperands(o)[i]]
      <4>1. PICK arg : arg = NestedOperands(o)[i]
        OBVIOUS
      <4>2. arg \in Operands /\ OperandDepth[arg] < OperandDepth[o]
        BY <1>3, <4>1
      <4>3. arg \in Below(k)
        BY <1>2, <4>2
      <4>. QED BY <2>3, <4>1, <4>3
    <3>. QED BY <3>1, TypedAlike
  <2>5. g = [o \in Below(k + 1) |-> step(o, g)]
    <3> HIDE DEF step, Below
    <3>. QED BY <2>2, <2>4
  <2> HIDE DEF step, Below
  <2>. QED BY <2>5
<1>6. Nat \subseteq T
  <2> HIDE DEF T
  <2>. QED BY <1>4, <1>5, Inductive
<1>7. \E f : Fits(f, Operands)
  <2>1. Below(Cardinality(Operands) + 1) = Operands
    BY <1>2
  <2>2. Cardinality(Operands) + 1 \in T
    <3> HIDE DEF T
    <3>. QED BY <1>1, <1>6
  <2> HIDE DEF step, Below
  <2>. QED BY <2>1, <2>2
<1>8. typing = CHOOSE f : Fits(f, Operands)
  BY DEF OperandTypes, TypeFrom
<1>9. Fits(typing, Operands)
  <2> HIDE DEF Fits
  <2>. QED BY <1>7, <1>8
<1> HIDE DEF step
<1>10. typing[operand] = step(operand, typing)
  BY <1>9
<1>. QED BY <1>10 DEF step

(* An operand whose arguments have types of columns or none has one itself. *)
LEMMA TypeOfOperand ==
  ASSUME NEW operand \in Operands, NEW assigned \in [Targets -> MaybeType], NEW typing,
         \A i \in DOMAIN NestedOperands(operand) :
           typing[NestedOperands(operand)[i]].full \in MaybeType
  PROVE  /\ TypeFrom(operand, assigned, typing).base \in MaybeType
         /\ TypeFrom(operand, assigned, typing).full \in MaybeType
<1>1. WellFormedOperand(operand, DOMAIN Source, Targets)
  BY PreflightAssumption DEF PreflightAssumption, OperandTrees
<1>2. PICK args : args = NestedOperands(operand)
  OBVIOUS
<1>3. PICK argTypes : argTypes = [i \in DOMAIN args |-> typing[args[i]].full]
  OBVIOUS
<1>4. PICK base : base = BaseType(operand, Source, assigned, argTypes)
  OBVIOUS
<1>5. base \in MaybeType
  <2>1. CASE operand.kind = "field"
    <3>1. Source[operand.name] \in ColumnTypes \cup {Void}
      BY <1>1, <2>1, PreflightAssumption DEF WellFormedOperand, PreflightAssumption
    <3>2. base = IF Source[operand.name] = Void THEN Unknown ELSE Source[operand.name]
      BY <1>4, <2>1 DEF BaseType
    <3>. QED BY <3>1, <3>2 DEF MaybeType
  <2>2. CASE operand.kind = "assigned"
    <3>1. base = assigned[operand.name] /\ operand.name \in Targets
      BY <1>1, <1>4, <2>2 DEF BaseType, WellFormedOperand
    <3>. QED BY <3>1
  <2>3. CASE operand.kind = "literal"
    <3>1. base = BaseLiteralType(operand) /\ IsLiteral(operand)
      BY <1>1, <1>4, <2>3 DEF BaseType, WellFormedOperand
    <3>. QED BY <3>1, LiteralTypes
  <2>4. CASE operand.kind = "custom_function"
    <3>1. base = FunctionType(operand.name, argTypes)
      BY <1>4, <2>4 DEF BaseType
    <3>2. args = operand.args
      BY <1>2, <2>4 DEF NestedOperands
    <3>3. PICK n : n = Len(args)
      OBVIOUS
    <3>4. n \in Nat /\ DOMAIN args = 1 .. n /\ (args # <<>> => n # 0)
      <4>1. args \in Seq(ToSet(operand.args))
        BY <1>1, <2>4, <3>2 DEF WellFormedOperand
      <4>. QED BY <3>3, <4>1, LenProperties, EmptySeq
    <3>5. DOMAIN argTypes = 1 .. n /\ \A i \in 1 .. n : argTypes[i] \in MaybeType
      BY <1>2, <1>3, <3>4
    <3>6. CASE ReturnTypeHint[operand.name] = "same_as"
      <4>1. 1 \in 1 .. n
        BY <1>1, <2>4, <3>2, <3>4, <3>6 DEF WellFormedOperand
      <4>. QED BY <3>1, <3>5, <3>6, <4>1 DEF FunctionType
    <3>7. CASE ReturnTypeHint[operand.name] = "common_type"
      <4>1. CommonOf(argTypes) \in MaybeType
        BY <3>4, <3>5, CommonOfTypes
      <4>. QED BY <3>1, <3>7, <4>1 DEF FunctionType, ArgumentsType, MaybeType
    <3>8. CASE ReturnTypeHint[operand.name] \notin {"same_as", "common_type"}
      <4>1. base = HintType(ReturnTypeHint[operand.name])
        BY <3>1, <3>8 DEF FunctionType
      <4>. QED BY <4>1, HintTypes
    <3>. QED BY <3>6, <3>7, <3>8
  <2>. QED BY <1>1, <2>1, <2>2, <2>3, <2>4 DEF WellFormedOperand
<1>6. TypeWithDefault(operand, base) \in MaybeType
  <2>1. BaseLiteralType(operand.default_if_null) \in MaybeType
    BY <1>1, LiteralTypes DEF WellFormedOperand
  <2>. QED BY <1>5, <2>1 DEF TypeWithDefault
<1>7. TypeFrom(operand, assigned, typing) =
        [base |-> base, full |-> TypeWithDefault(operand, base)]
  BY <1>2, <1>3, <1>4 DEF TypeFrom
<1>. QED BY <1>5, <1>6, <1>7

(* Every operand has the type of a column or none.                         *)
LEMMA TypesOfOperands ==
  ASSUME NEW assigned \in [Targets -> MaybeType], NEW operand \in Operands
  PROVE  OperandTypes(Source, assigned)[operand].full \in MaybeType
<1>1. PICK typing : typing = OperandTypes(Source, assigned)
  OBVIOUS
<1> DEFINE T == {k \in Nat :
                   \A o \in Operands : OperandDepth[o] < k => typing[o].full \in MaybeType}
<1>2. \A o \in Operands : OperandDepth[o] \in Nat
  BY PreflightAssumption, FS_CardinalityType DEF PreflightAssumption, OperandTrees
<1>3. 0 \in T
  BY <1>2
<1>4. ASSUME NEW k \in Nat, k \in T PROVE k + 1 \in T
  <2>1. ASSUME NEW o \in Operands, OperandDepth[o] < k + 1
        PROVE  typing[o].full \in MaybeType
    <3>1. ASSUME NEW i \in DOMAIN NestedOperands(o)
          PROVE  typing[NestedOperands(o)[i]].full \in MaybeType
      <4>1. PICK arg : arg = NestedOperands(o)[i]
        OBVIOUS
      <4>2. arg \in Operands /\ OperandDepth[arg] < OperandDepth[o]
        BY <4>1, PreflightAssumption DEF PreflightAssumption, OperandTrees
      <4>3. OperandDepth[arg] < k
        BY <1>2, <2>1, <4>2
      <4>. QED BY <1>4, <4>1, <4>2, <4>3
    <3>2. TypeFrom(o, assigned, typing).full \in MaybeType
      BY <3>1, TypeOfOperand
    <3>3. typing[o] = TypeFrom(o, assigned, typing)
      BY <1>1, OperandTypesUnfold
    <3>. QED BY <3>2, <3>3
  <2>. QED BY <2>1
<1>5. Nat \subseteq T
  <2> HIDE DEF T
  <2>. QED BY <1>3, <1>4, Inductive
<1>6. PICK d : d = OperandDepth[operand]
  OBVIOUS
<1>7. d \in Nat /\ d + 1 \in T /\ d < d + 1
  BY <1>2, <1>5, <1>6
<1>. QED BY <1>1, <1>6, <1>7

(***************************************************************************)
(* The state.                                                              *)
(***************************************************************************)
Shape ==
  /\ ruleset \in Rulesets /\ stage \in Stages /\ next \in 1..(Len(ruleset) + 1)
  /\ available \in [Targets -> MaybeType]
  /\ resolved \in [Targets -> MaybeType]
  /\ unresolved \subseteq Assigned
  /\ failed = NoId \/ \E a \in AllAssignments : a.assignment_id = failed

(* A target is resolved to the type of a column, or an issue says why not. *)
Settled(target) == resolved[target] \in ColumnTypes \/ issues # {}

Outcome ==
  /\ stage = "resolve" => \A t \in Assigned \ unresolved : Settled(t)
  /\ stage \notin {"infer", "resolve"} => \A t \in Assigned : Settled(t)
  /\ Accepted => issues = {}

Columns ==
  /\ stage \notin {"evaluate", "done"} => committed = NothingCommitted
  /\ \A t \in Targets : Holds(resolved[t], committed[t])

(* The inductive invariant: a target taken off the list is settled, and an *)
(* accepted ruleset has no issue.                                          *)
IInv == Shape /\ Outcome /\ Columns

(* What the rules of a ruleset are.                                        *)
LEMMA RulesOfRuleset ==
  ASSUME ruleset \in Rulesets
  PROVE  /\ Len(ruleset) \in Nat /\ DOMAIN ruleset = 1 .. Len(ruleset)
         /\ \A i \in DOMAIN ruleset :
              WellFormedRule(ruleset[i]) /\ ToSet(ruleset[i]) \subseteq AllAssignments
         /\ \A a \in AllAssignments : \E i \in DOMAIN ruleset : a \in ToSet(ruleset[i])
<1>1. ruleset \in Seq(ToSet(ruleset)) /\ \A rule \in ToSet(ruleset) : WellFormedRule(rule)
  BY PreflightAssumption DEF PreflightAssumption
<1>2. Len(ruleset) \in Nat /\ DOMAIN ruleset = 1 .. Len(ruleset)
  BY <1>1, LenProperties
<1>3. \A i \in DOMAIN ruleset : ruleset[i] \in ToSet(ruleset)
  BY DEF ToSet
<1>4. AllAssignments = UNION {ToSet(ruleset[i]) : i \in DOMAIN ruleset}
  BY DEF AllAssignments
<1>. QED BY <1>1, <1>2, <1>3, <1>4

(* An assignment has a target field and an operand.                        *)
LEMMA AssignmentsOfRuleset ==
  ASSUME ruleset \in Rulesets, NEW a \in AllAssignments
  PROVE  a.target_field \in Targets /\ a.value \in Operands
<1>1. PICK i \in DOMAIN ruleset : a \in ToSet(ruleset[i])
  BY RulesOfRuleset
<1>. QED BY <1>1, RulesOfRuleset DEF WellFormedRule

(* What is assigned is a target field.                                     *)
LEMMA AssignedTargets == ASSUME ruleset \in Rulesets PROVE Assigned \subseteq Targets
BY AssignmentsOfRuleset DEF Assigned

(* A rule that assigns to a target has an assignment to it.                *)
LEMMA AssignmentOfRule ==
  ASSUME ruleset \in Rulesets, NEW i \in DOMAIN ruleset, NEW target,
         Assigns(ruleset[i], target)
  PROVE  /\ AssignmentTo(ruleset[i], target) \in ToSet(ruleset[i])
         /\ AssignmentTo(ruleset[i], target) \in AllAssignments
         /\ AssignmentTo(ruleset[i], target).target_field = target
         /\ AssignmentTo(ruleset[i], target).value \in Operands
<1>1. PICK a : a = AssignmentTo(ruleset[i], target)
  OBVIOUS
<1>2. a \in ToSet(ruleset[i]) /\ a.target_field = target
  BY <1>1 DEF Assigns, AssignmentTo
<1>3. a \in AllAssignments
  BY <1>2, RulesOfRuleset
<1>. QED BY <1>1, <1>2, <1>3, AssignmentsOfRuleset

(* An existing target has the type of its column.                          *)
LEMMA ExistingTypes == ASSUME NEW t, Existing(t) PROVE Source[t] \in ColumnTypes
BY PreflightAssumption DEF Existing, PreflightAssumption

(* Inference gives a target the type of a column or none.                  *)
LEMMA InferredTypes ==
  ASSUME ruleset \in Rulesets, available \in [Targets -> MaybeType],
         NEW a \in AllAssignments
  PROVE  InferredFrom(a, OperandTypes(Source, available)) \in MaybeType
<1>1. a.target_field \in Targets /\ a.value \in Operands
  BY AssignmentsOfRuleset
<1>2. PICK inferred : inferred = OperandTypes(Source, available)[a.value].full
  OBVIOUS
<1>3. PICK current : current = available[a.target_field]
  OBVIOUS
<1>4. inferred \in MaybeType /\ current \in MaybeType
  BY <1>1, <1>2, <1>3, TypesOfOperands
<1>5. CommonType(current, inferred) \in MaybeType
  BY <1>4, CommonTypeOfColumns
<1>6. Existing(a.target_field) => Source[a.target_field] \in MaybeType
  BY ExistingTypes DEF MaybeType
<1>. QED BY <1>2, <1>3, <1>4, <1>5, <1>6 DEF InferredFrom

(* An untyped assignment to a target without a type is always reported.    *)
LEMMA UntypedReported == ASSUME NEW operand PROVE UnusableHints(operand, FALSE, FALSE) # {}
BY DEF UnusableHints

(* Resolving a new target gives it a type or reports an assignment.        *)
LEMMA NewSettled ==
  ASSUME Shape, NEW target \in Assigned, NEW type, type = OperandTypes(Source, available),
         ResolveNew(target, type)
  PROVE  /\ resolved' \in [Targets -> MaybeType]
         /\ issues \subseteq issues'
         /\ resolved'[target] \in ColumnTypes \/ issues' # {}
         /\ \A t \in Targets : t # target => resolved'[t] = resolved[t]
<1>1. PICK types : types = TypesAssigned(target, type)
  OBVIOUS
<1>2. PICK common : common = CommonOf(types)
  OBVIOUS
<1>3. PICK n : n = Len(ruleset)
  OBVIOUS
<1>4. n \in Nat /\ DOMAIN ruleset = 1 .. n /\ ruleset \in Rulesets
  BY <1>3, RulesOfRuleset DEF Shape
<1>5. DOMAIN types = 1 .. n
  BY <1>1, <1>4 DEF TypesAssigned
<1>6. ASSUME NEW i \in 1 .. n
      PROVE  /\ types[i] \in MaybeType
             /\ Assigns(ruleset[i], target) =>
                  types[i] = type[AssignmentTo(ruleset[i], target).value].full
  <2>1. types[i] = IF Assigns(ruleset[i], target)
                   THEN type[AssignmentTo(ruleset[i], target).value].full ELSE Unknown
    BY <1>1, <1>4, <1>6 DEF TypesAssigned
  <2>2. Assigns(ruleset[i], target) =>
          type[AssignmentTo(ruleset[i], target).value].full \in MaybeType
    BY <1>4, <1>6, AssignmentOfRule, TypesOfOperands DEF Shape
  <2>. QED BY <2>1, <2>2 DEF MaybeType
<1>7. /\ common \in MaybeType
      /\ \A i \in 1 .. n : types[i] # Unknown => common # Unknown
  BY <1>2, <1>4, <1>5, <1>6, CommonOfTypes
<1>8. resolved' = [resolved EXCEPT ![target] = common]
  BY <1>1, <1>2 DEF ResolveNew
<1>9. target \in Targets /\ resolved \in [Targets -> MaybeType]
  BY <1>4, AssignedTargets DEF Shape
<1>10. /\ resolved' \in [Targets -> MaybeType] /\ resolved'[target] = common
       /\ \A t \in Targets : t # target => resolved'[t] = resolved[t]
  BY <1>7, <1>8, <1>9
<1> DEFINE typed == CommonOf(TypesAssigned(target, type)) # Unknown
           report(a) == UnusableHints(a.value, typed, FALSE) \X {a.assignment_id}
           untyped == {a \in AssignmentsOf(target) : type[a.value].full = Unknown}
<1>11. PICK reports : reports = UNION {report(a) : a \in untyped}
  OBVIOUS
<1>12. PICK more : issues' = issues \cup more \cup reports
  <2>1. issues' = issues
          \cup (IF Conflicting(TypesAssigned(target, type))
                THEN {<<"TYPE_CONFLICT", target>>} ELSE {})
          \cup UNION {report(a) : a \in untyped}
    BY DEF ResolveNew
  <2>. QED BY <1>11, <2>1
<1>13. issues \cup reports \subseteq issues'
  BY <1>12
<1>14. ASSUME common = Unknown PROVE reports # {}
  <2>1. PICK a \in AllAssignments : a.target_field = target
    BY DEF Assigned
  <2>2. PICK i \in 1 .. n : a \in ToSet(ruleset[i])
    BY <1>4, RulesOfRuleset
  <2>3. Assigns(ruleset[i], target)
    BY <2>1, <2>2 DEF Assigns
  <2>4. PICK b : b = AssignmentTo(ruleset[i], target)
    OBVIOUS
  <2>5. b \in AllAssignments /\ b.target_field = target
    BY <1>4, <2>3, <2>4, AssignmentOfRule
  <2>6. type[b.value].full = Unknown
    BY <1>6, <1>7, <1>14, <2>3, <2>4
  <2>7. b \in untyped
    BY <2>5, <2>6 DEF AssignmentsOf
  <2>8. PICK check : check \in UnusableHints(b.value, FALSE, FALSE)
    BY UntypedReported
  <2>9. typed = FALSE
    BY <1>1, <1>2, <1>14
  <2>10. check \in UnusableHints(b.value, typed, FALSE)
    BY <2>8, <2>9
  <2>11. <<check, b.assignment_id>> \in report(b)
    BY <2>10
  <2>12. <<check, b.assignment_id>> \in reports
    <3> HIDE DEF report, untyped
    <3>. QED BY <1>11, <2>7, <2>11
  <2>. QED BY <2>12
<1>. QED BY <1>7, <1>10, <1>13, <1>14 DEF MaybeType

(* Resolving an existing target settles it (_resolve_assignment_types).    *)
LEMMA ExistingSettled ==
  ASSUME Shape, NEW target \in Assigned, NEW type, ResolveExisting(target, type)
  PROVE  /\ resolved' \in [Targets -> MaybeType]
         /\ issues \subseteq issues'
         /\ resolved'[target] \in ColumnTypes
         /\ \A t \in Targets : t # target => resolved'[t] = resolved[t]
<1>1. target \in Targets /\ resolved \in [Targets -> MaybeType]
  BY AssignedTargets DEF Shape
<1>2. /\ Source[target] \in ColumnTypes
      /\ resolved' = [resolved EXCEPT ![target] = Source[target]]
  BY ExistingTypes DEF ResolveExisting
<1>3. issues \subseteq issues'
  BY DEF ResolveExisting
<1>. QED BY <1>1, <1>2, <1>3 DEF MaybeType

(* What is stored in a column fits its type.                               *)
LEMMA StoredHolds ==
  ASSUME NEW t \in ColumnTypes, NEW v, SparkAssignmentValue(v, t) # Raised
  PROVE  Holds(t, SparkAssignmentValue(v, t))
<1>1. PICK s : s = SparkAssignmentValue(v, t)
  OBVIOUS
<1>2. CASE v \in {None, Raised}
  BY <1>1, <1>2 DEF SparkAssignmentValue, Holds
<1>3. CASE v \notin {None, Raised} /\ t.name = "string"
  <2>1. ~IsIntegral(t) /\ ~IsFloating(t) /\ ~IsDecimal(t)
    BY <1>3, SparkTypesAssumption DEF IsIntegral, IsFloating, IsDecimal, SparkTypesAssumption
  <2>2. SparkAssignmentValue(v, t) = Text(v.at)
    BY <1>3, <2>1 DEF SparkAssignmentValue
  <2>. QED BY <1>3, <2>2 DEF Holds, Text
<1>4. IsSparkType(t)
  BY ColumnKinds
<1>5. CASE v \notin {None, Raised} /\ IsIntegral(t)
  <2>1. t.name # "string"
    BY <1>5, SparkTypesAssumption DEF IsIntegral, SparkTypesAssumption
  <2>2. SparkAssignmentValue(v, t) = SparkIntegralValue(v, t)
    BY <1>5, <2>1, <1>4, Kinds DEF SparkAssignmentValue
  <2>. QED BY <1>5, <2>2 DEF SparkIntegralValue, Holds
<1>6. CASE v \notin {None, Raised} /\ IsFloating(t)
  <2>1. t.name # "string"
    BY <1>6 DEF IsFloating
  <2>2. SparkAssignmentValue(v, t) = SparkFloatValue(v)
    BY <1>6, <2>1, <1>4, Kinds DEF SparkAssignmentValue
  <2>. QED BY <1>6, <2>2 DEF SparkFloatValue, Float, Holds
<1>7. CASE v \notin {None, Raised} /\ IsDecimal(t)
  <2>1. t.name # "string"
    BY <1>7 DEF IsDecimal
  <2>2. SparkAssignmentValue(v, t) = SparkDecimalValue(v, t)
    BY <1>7, <2>1, <1>4, Kinds DEF SparkAssignmentValue
  <2>. QED BY <1>7, <2>2 DEF SparkDecimalValue, Dec, Holds
<1>8. t.name = "string" \/ IsIntegral(t) \/ IsFloating(t) \/ IsDecimal(t)
  BY DEF ColumnTypes, IsIntegral, IsFloating, IsDecimal, Type, Decimal
<1>. QED BY <1>2, <1>3, <1>5, <1>6, <1>7, <1>8

(* Nothing is resolved, reported or stored at the start.                   *)
LEMMA InitSound == Init => IInv
<1>1. SUFFICES ASSUME Init PROVE IInv
  OBVIOUS
<1>2. ruleset \in Rulesets /\ stage = "infer" /\ next = 1
  BY <1>1 DEF Init
<1>3. Len(ruleset) \in Nat
  BY <1>2, RulesOfRuleset
<1>4. available \in [Targets -> MaybeType]
  BY <1>1, ExistingTypes DEF Init, MaybeType
<1>5. resolved \in [Targets -> MaybeType] /\ unresolved = {} /\ failed = NoId
  BY <1>1 DEF Init, Untyped, MaybeType
<1>6. Shape
  BY <1>2, <1>3, <1>4, <1>5 DEF Shape, Stages
<1>7. Columns
  <2>1. committed = NothingCommitted
    BY <1>1 DEF Init
  <2>. QED BY <1>2, <2>1 DEF Columns, NothingCommitted, Holds
<1>8. Outcome
  BY <1>2 DEF Outcome, Accepted
<1>. QED BY <1>6, <1>7, <1>8 DEF IInv

(* Inference assigns types and nothing else (_inferred_assigned_types).    *)
LEMMA InferRuleSound == ASSUME IInv, InferRule PROVE IInv'
<1>1. /\ ruleset \in Rulesets /\ stage = "infer" /\ next \in 1..(Len(ruleset) + 1)
      /\ available \in [Targets -> MaybeType]
  BY DEF IInv, Shape, InferRule
<1>2. UNCHANGED <<ruleset, stage, unresolved, resolved, issues, row, committed, failed>>
  BY DEF InferRule
<1>3. next' = next + 1 /\ next <= Len(ruleset)
  BY DEF InferRule
<1>4. Len(ruleset) \in Nat /\ next \in DOMAIN ruleset
  BY <1>1, <1>3, RulesOfRuleset
<1>5. available' \in [Targets -> MaybeType]
  <2>1. PICK type : type = OperandTypes(Source, available)
    OBVIOUS
  <2>2. available' = [t \in Targets |->
           IF Assigns(ruleset[next], t)
           THEN InferredFrom(AssignmentTo(ruleset[next], t), type) ELSE available[t]]
    BY <2>1 DEF InferRule
  <2>3. ASSUME NEW t \in Targets, Assigns(ruleset[next], t)
        PROVE  InferredFrom(AssignmentTo(ruleset[next], t), type) \in MaybeType
    BY <1>1, <1>4, <2>1, <2>3, AssignmentOfRule, InferredTypes
  <2>. QED BY <1>1, <2>2, <2>3
<1>6. AllAssignments' = AllAssignments /\ Assigned' = Assigned
  BY <1>2 DEF AllAssignments, Assigned
<1>7. Shape'
  BY <1>1, <1>2, <1>3, <1>4, <1>5, <1>6 DEF IInv, Shape
<1>8. Outcome'
  BY <1>1, <1>2 DEF Outcome, Accepted
<1>9. Columns'
  BY <1>2 DEF IInv, Columns, NothingCommitted
<1>. QED BY <1>7, <1>8, <1>9 DEF IInv

(* Resolution settles one target more (_resolve_assignment_types).         *)
LEMMA ResolveTargetSound == ASSUME IInv, ResolveTarget PROVE IInv'
<1>1. /\ Shape /\ ruleset \in Rulesets /\ stage = "resolve" /\ unresolved # {}
      /\ unresolved \subseteq Assigned
  BY DEF IInv, Shape, ResolveTarget
<1>2. UNCHANGED <<ruleset, stage, next, available, row, committed, failed>>
  BY DEF ResolveTarget
<1>3. PICK target : target = CHOOSE t \in unresolved : TRUE
  OBVIOUS
<1>4. target \in unresolved /\ target \in Assigned
  BY <1>1, <1>3
<1>5. PICK type : type = OperandTypes(Source, available)
  OBVIOUS
<1>6. /\ ResolveExisting(target, type) \/ ResolveNew(target, type)
      /\ unresolved' = unresolved \ {target}
  BY <1>3, <1>5 DEF ResolveTarget
<1>7. /\ resolved' \in [Targets -> MaybeType]
      /\ issues \subseteq issues'
      /\ resolved'[target] \in ColumnTypes \/ issues' # {}
      /\ \A t \in Targets : t # target => resolved'[t] = resolved[t]
  <2>1. CASE ResolveExisting(target, type)
    BY <1>1, <1>4, <2>1, ExistingSettled
  <2>2. CASE ResolveNew(target, type)
    BY <1>1, <1>4, <1>5, <2>2, NewSettled
  <2>. QED BY <1>6, <2>1, <2>2
<1>8. AllAssignments' = AllAssignments /\ Assigned' = Assigned
  BY <1>2 DEF AllAssignments, Assigned
<1>9. Shape'
  BY <1>1, <1>2, <1>6, <1>7, <1>8 DEF Shape
<1>10. Outcome'
  <2>1. ASSUME NEW t \in Assigned \ unresolved' PROVE Settled(t)'
    <3>1. CASE t = target
      BY <1>7, <3>1 DEF Settled
    <3>2. CASE t # target
      <4>1. t \in Assigned \ unresolved /\ t \in Targets
        BY <1>1, <1>6, <2>1, <3>2, AssignedTargets
      <4>2. Settled(t)
        BY <1>1, <4>1 DEF IInv, Outcome
      <4>. QED BY <1>7, <3>2, <4>1, <4>2 DEF Settled
    <3>. QED BY <3>1, <3>2
  <2>. QED BY <1>1, <1>2, <1>8, <2>1 DEF Outcome, Accepted
<1>11. Columns'
  <2>1. committed = NothingCommitted
    BY <1>1 DEF IInv, Columns
  <2>. QED BY <1>2, <2>1 DEF Columns, NothingCommitted, Holds
<1>. QED BY <1>9, <1>10, <1>11 DEF IInv

(* Everything is settled before the operands are checked.                  *)
LEMMA CheckSound ==
  ASSUME IInv, StartResolution \/ StartChecks \/ CheckOperands
  PROVE  IInv'
<1>1. UNCHANGED <<ruleset, next, available, resolved, row, committed, failed>>
  BY DEF StartResolution, StartChecks, CheckOperands
<1>2. AllAssignments' = AllAssignments /\ Assigned' = Assigned
  BY <1>1 DEF AllAssignments, Assigned
<1>3. CASE StartResolution
  <2>1. stage' = "resolve" /\ unresolved' = Assigned /\ stage = "infer" /\ issues' = issues
    BY <1>3 DEF StartResolution
  <2>2. Shape'
    BY <1>1, <1>2, <2>1 DEF IInv, Shape, Stages
  <2>3. Outcome'
    BY <1>2, <2>1 DEF Outcome, Accepted
  <2>4. Columns'
    BY <1>1, <2>1 DEF IInv, Columns, NothingCommitted
  <2>. QED BY <2>2, <2>3, <2>4 DEF IInv
<1>4. CASE StartChecks
  <2>1. /\ stage' = "check" /\ unresolved' = unresolved /\ unresolved = {} /\ stage = "resolve"
        /\ issues' = issues
    BY <1>4 DEF StartChecks
  <2>2. Shape'
    BY <1>1, <1>2, <2>1 DEF IInv, Shape, Stages
  <2>3. \A t \in Assigned : Settled(t)
    BY <2>1 DEF IInv, Outcome
  <2>4. Outcome'
    BY <1>1, <1>2, <2>1, <2>3 DEF Outcome, Accepted, Settled
  <2>5. Columns'
    BY <1>1, <2>1 DEF IInv, Columns, NothingCommitted
  <2>. QED BY <2>2, <2>4, <2>5 DEF IInv
<1>5. CASE CheckOperands
  <2>1. /\ stage = "check" /\ unresolved' = unresolved /\ issues \subseteq issues'
        /\ stage' = IF issues' = {} THEN "accepted" ELSE "rejected"
    BY <1>5 DEF CheckOperands
  <2>2. Shape'
    BY <1>1, <1>2, <2>1 DEF IInv, Shape, Stages
  <2>3. \A t \in Assigned : Settled(t)
    BY <2>1 DEF IInv, Outcome
  <2>4. \A t \in Assigned : Settled(t)'
    BY <1>1, <2>1, <2>3 DEF Settled
  <2>5. Outcome'
    BY <1>2, <2>1, <2>4 DEF Outcome, Accepted
  <2>6. Columns'
    BY <1>1, <2>1 DEF IInv, Columns, NothingCommitted
  <2>. QED BY <2>2, <2>5, <2>6 DEF IInv
<1>. QED BY <1>3, <1>4, <1>5

(* Every target an accepted ruleset assigns has the type of a column.      *)
LEMMA AcceptedTyped ==
  ASSUME IInv, Accepted, NEW t \in Assigned
  PROVE  t \in Targets /\ resolved[t] \in ColumnTypes
<1>1. issues = {} /\ stage \notin {"infer", "resolve"}
  BY DEF IInv, Outcome, Accepted
<1>2. Settled(t)
  BY <1>1 DEF IInv, Outcome
<1>. QED BY <1>1, <1>2, AssignedTargets DEF Settled, IInv, Shape

(* A rule that is applied stores what fits its targets' columns.           *)
LEMMA ApplyRuleSound == ASSUME IInv, ApplyRule PROVE IInv'
<1>1. /\ ruleset \in Rulesets /\ stage = "evaluate" /\ next \in 1..(Len(ruleset) + 1)
      /\ next <= Len(ruleset) /\ next' = next + 1
  BY DEF IInv, Shape, ApplyRule
<1>2. UNCHANGED <<ruleset, stage, available, unresolved, resolved, issues, row, failed>>
  BY DEF ApplyRule
<1>3. Len(ruleset) \in Nat /\ next \in DOMAIN ruleset
  BY <1>1, RulesOfRuleset
<1>4. AllAssignments' = AllAssignments /\ Assigned' = Assigned
  BY <1>2 DEF AllAssignments, Assigned
<1>5. Shape'
  BY <1>1, <1>2, <1>3, <1>4 DEF IInv, Shape
<1>6. Outcome'
  BY <1>1, <1>2, <1>4 DEF IInv, Outcome, Accepted, Settled
<1>7. ASSUME NEW t \in Targets PROVE Holds(resolved'[t], committed'[t])
  <2>1. committed'[t] = IF Assigns(ruleset[next], t)
                        THEN Stored(AssignmentTo(ruleset[next], t)) ELSE committed[t]
    BY DEF ApplyRule
  <2>2. CASE ~Assigns(ruleset[next], t)
    BY <1>2, <2>1, <2>2 DEF IInv, Columns
  <2>3. CASE Assigns(ruleset[next], t)
    <3>1. PICK a : a = AssignmentTo(ruleset[next], t)
      OBVIOUS
    <3>2. a \in ToSet(ruleset[next]) /\ a \in AllAssignments /\ a.target_field = t
      BY <1>1, <1>3, <2>3, <3>1, AssignmentOfRule
    <3>3. Stored(a) # Raised
      BY <3>2 DEF ApplyRule
    <3>4. resolved[t] \in ColumnTypes
      BY <1>1, <3>2, AcceptedTyped DEF Assigned, Accepted
    <3>5. Holds(resolved[t], Stored(a))
      BY <3>2, <3>3, <3>4, StoredHolds DEF Stored
    <3>. QED BY <1>2, <2>1, <2>3, <3>1, <3>5
  <2>. QED BY <2>2, <2>3
<1>8. Columns'
  BY <1>1, <1>2, <1>7 DEF Columns
<1>. QED BY <1>5, <1>6, <1>8 DEF IInv

(* The other steps of a row store nothing, or take everything back.        *)
LEMMA RowSound ==
  ASSUME IInv, StartRow \/ SkipRule \/ RowRaises \/ FinishRow
  PROVE  IInv'
<1>1. UNCHANGED <<ruleset, available, unresolved, resolved, issues>>
  BY DEF StartRow, SkipRule, RowRaises, FinishRow
<1>2. AllAssignments' = AllAssignments /\ Assigned' = Assigned
  BY <1>1 DEF AllAssignments, Assigned
<1>3. Accepted /\ Accepted' /\ stage' \in {"evaluate", "done"}
  BY DEF StartRow, SkipRule, RowRaises, FinishRow, Accepted
<1>4. /\ ruleset \in Rulesets /\ next \in 1..(Len(ruleset) + 1) /\ Len(ruleset) \in Nat
  BY RulesOfRuleset DEF IInv, Shape
<1>5. next' \in 1..(Len(ruleset) + 1)
  BY <1>4 DEF StartRow, SkipRule, RowRaises, FinishRow
<1>6. failed' = NoId \/ \E a \in AllAssignments : a.assignment_id = failed'
  <2>1. CASE StartRow \/ SkipRule \/ FinishRow
    BY <2>1 DEF IInv, Shape, StartRow, SkipRule, FinishRow
  <2>2. CASE RowRaises
    <3>1. PICK i \in DOMAIN ruleset[next] : failed' = ruleset[next][i].assignment_id
      BY <2>2 DEF RowRaises
    <3>2. next \in DOMAIN ruleset
      BY <1>4, <2>2, RulesOfRuleset DEF RowRaises
    <3>3. ruleset[next][i] \in ToSet(ruleset[next])
      BY DEF ToSet
    <3>. QED BY <1>4, <3>1, <3>2, <3>3, RulesOfRuleset
  <2>. QED BY <2>1, <2>2
<1>7. Shape'
  BY <1>1, <1>2, <1>3, <1>4, <1>5, <1>6 DEF IInv, Shape, Stages
<1>8. Outcome'
  BY <1>1, <1>2, <1>3 DEF IInv, Outcome, Accepted, Settled
<1>9. Columns'
  <2>1. committed' = committed \/ committed' = NothingCommitted
    BY DEF StartRow, SkipRule, RowRaises, FinishRow
  <2>2. \A t \in Targets : Holds(resolved[t], NothingCommitted[t])
    BY DEF NothingCommitted, Holds
  <2>. QED BY <1>1, <1>3, <2>1, <2>2 DEF IInv, Columns
<1>. QED BY <1>7, <1>8, <1>9 DEF IInv

(* A step that changes no variable keeps the invariant.                    *)
LEMMA Stuttering == ASSUME IInv, UNCHANGED vars PROVE IInv'
BY DEF IInv, Shape, Outcome, Columns, Settled, Accepted, AllAssignments, Assigned,
       NothingCommitted, vars

(* The invariant holds in every reachable state.                           *)
LEMMA Invariance == Spec => []IInv
<1>1. IInv /\ [Next]_vars => IInv'
  BY InferRuleSound, ResolveTargetSound, CheckSound, ApplyRuleSound, RowSound, Stuttering
     DEF Next
<1>. QED BY InitSound, <1>1, PTL DEF Spec

(* Types, for any ruleset, schema and limits: no decimal type exceeds      *)
(* Spark's precision and every stored value fits the column of its target  *)
(* (spark_types.py, spark_runtime.py, _spark_assignment_value).            *)
THEOREM TypeCorrect == Spec => []TypeOK
<1>1. IInv => TypeOK
  BY DEF IInv, Shape, Columns, TypeOK, MaybeType
<1>. QED BY Invariance, <1>1, PTL

(* An accepted ruleset has a column for every target: each branch of       *)
(* _add_unusable_hint_issues that leaves a new target without a type       *)
(* reports an issue.                                                       *)
THEOREM EveryTargetIsTyped == Spec => []EveryTargetTyped
<1>1. IInv => EveryTargetTyped
  BY AcceptedTyped, ColumnKinds DEF EveryTargetTyped
<1>. QED BY Invariance, <1>1, PTL

(* A number stored in a column that is not floating point is the one       *)
(* assigned.                                                               *)
LEMMA StoredExactly ==
  ASSUME NEW t \in ColumnTypes, ~IsFloating(t), NEW v, IsNumber(v),
         IsNumber(SparkAssignmentValue(v, t))
  PROVE  SparkAssignmentValue(v, t).at = v.at
<1>1. v \notin {None, Raised} /\ ~IsNumber(Raised)
  BY DEF IsNumber, None, Raised
<1>2. t.name # "string"
  <2>1. t.name = "string" => SparkAssignmentValue(v, t) = Text(v.at)
    BY <1>1, ColumnKinds, Kinds, SparkTypesAssumption
    DEF SparkAssignmentValue, IsIntegral, IsFloating, IsDecimal, SparkTypesAssumption
  <2>2. ~IsNumber(Text(v.at))
    BY DEF IsNumber, Text
  <2>. QED BY <2>1, <2>2
<1>3. CASE IsIntegral(t)
  <2>1. SparkAssignmentValue(v, t) = SparkIntegralValue(v, t)
    BY <1>1, <1>2, <1>3, ColumnKinds, Kinds DEF SparkAssignmentValue
  <2>. QED BY <1>1, <2>1 DEF SparkIntegralValue
<1>4. CASE IsDecimal(t)
  <2>1. SparkAssignmentValue(v, t) = SparkDecimalValue(v, t)
    BY <1>1, <1>2, <1>4, ColumnKinds, Kinds DEF SparkAssignmentValue
  <2>. QED BY <1>1, <2>1 DEF SparkDecimalValue, Dec
<1>5. IsIntegral(t) \/ IsDecimal(t)
  BY <1>2 DEF ColumnTypes, IsIntegral, IsFloating, IsDecimal, Type, Decimal
<1>. QED BY <1>3, <1>4, <1>5

(* What a rule stores in a string, integral or decimal column is, if a     *)
(* number, the number its operand resolved to (_spark_integral_value,      *)
(* _spark_decimal_value).                                                  *)
THEOREM ValuesArePreserved == Spec => ValuesPreserved
<1> DEFINE Preserved ==
             stage = "evaluate" /\ committed' # committed /\ stage' = "evaluate" =>
               \A a \in ToSet(ruleset[next]) :
                 LET proposed == Resolution(row, committed)[a.value]
                     stored == committed'[a.target_field]
                 IN  IsNumber(proposed) /\ IsNumber(stored)
                       /\ ~IsFloating(resolved[a.target_field])
                         => stored.at = proposed.at
<1>1. ASSUME IInv, ApplyRule PROVE Preserved
  <2>1. /\ ruleset \in Rulesets /\ stage = "evaluate" /\ Len(ruleset) \in Nat
        /\ next \in DOMAIN ruleset
    BY <1>1, RulesOfRuleset DEF IInv, Shape, ApplyRule
  <2>2. SUFFICES ASSUME NEW a \in ToSet(ruleset[next]),
                        IsNumber(Resolution(row, committed)[a.value]),
                        IsNumber(committed'[a.target_field]),
                        ~IsFloating(resolved[a.target_field])
                 PROVE  committed'[a.target_field].at = Resolution(row, committed)[a.value].at
    OBVIOUS
  <2>3. PICK t : t = a.target_field
    OBVIOUS
  <2>4. a \in AllAssignments /\ t \in Assigned
    BY <2>1, <2>3, RulesOfRuleset DEF Assigned
  <2>5. t \in Targets /\ resolved[t] \in ColumnTypes
    BY <1>1, <2>1, <2>4, AcceptedTyped DEF Accepted
  <2>6. Assigns(ruleset[next], t) /\ AssignmentTo(ruleset[next], t) = a
    <3>1. Assigns(ruleset[next], t)
      BY <2>3 DEF Assigns
    <3>2. PICK b : b = AssignmentTo(ruleset[next], t)
      OBVIOUS
    <3>3. b \in ToSet(ruleset[next]) /\ b.target_field = t
      BY <3>1, <3>2 DEF Assigns, AssignmentTo
    <3>4. WellFormedRule(ruleset[next])
      BY <2>1, RulesOfRuleset
    <3>. QED BY <2>3, <3>1, <3>2, <3>3, <3>4 DEF WellFormedRule
  <2>7. committed'[t] = SparkAssignmentValue(Resolution(row, committed)[a.value], resolved[t])
    BY <1>1, <2>3, <2>5, <2>6 DEF ApplyRule, Stored
  <2>8. PICK v : v = Resolution(row, committed)[a.value]
    OBVIOUS
  <2>. QED BY <2>2, <2>3, <2>5, <2>7, <2>8, StoredExactly
<1>2. IInv /\ [Next]_vars => [Preserved]_vars
  <2>1. ASSUME [Next]_vars, ~ApplyRule PROVE ~(stage = "evaluate" /\ committed' # committed
                                               /\ stage' = "evaluate")
    BY <2>1 DEF Next, vars, InferRule, StartResolution, ResolveTarget, StartChecks,
                CheckOperands, StartRow, SkipRule, RowRaises, FinishRow
  <2>. QED BY <1>1, <2>1
<1>. QED BY Invariance, <1>2, PTL DEF Spec, ValuesPreserved

(***************************************************************************)
(* Values and the types that hold them.                                    *)
(***************************************************************************)
(* The power of a sum is the product of the powers.                        *)
LEMMA PowersMultiply ==
  ASSUME NEW m \in Nat, NEW n \in Nat
  PROVE  TenTo[m + n] = TenTo[m] * TenTo[n]
<1> DEFINE T == {k \in Nat : TenTo[m + k] = TenTo[m] * TenTo[k]}
<1>1. TenTo[0] = 1 /\ \A k \in Nat : TenTo[k + 1] = 10 * TenTo[k]
  BY TenToUnfold
<1>2. TenTo[m] \in Nat
  BY PowersOfTen
<1>3. 0 \in T
  BY <1>1, <1>2
<1>4. ASSUME NEW k \in Nat, k \in T PROVE k + 1 \in T
  <2>1. PICK p : p = TenTo[m]
    OBVIOUS
  <2>2. PICK q : q = TenTo[k]
    OBVIOUS
  <2>3. PICK r : r = TenTo[m + k]
    OBVIOUS
  <2>4. p \in Nat /\ q \in Nat /\ r = p * q
    BY <1>4, <2>1, <2>2, <2>3, PowersOfTen
  <2>5. TenTo[(m + k) + 1] = 10 * r /\ TenTo[k + 1] = 10 * q
    BY <1>1, <2>2, <2>3
  <2>6. (m + k) + 1 = m + (k + 1) /\ 10 * (p * q) = p * (10 * q)
    BY <2>4
  <2>. QED BY <2>1, <2>4, <2>5, <2>6
<1>5. Nat \subseteq T
  <2> HIDE DEF T
  <2>. QED BY <1>3, <1>4, Inductive
<1>. QED BY <1>5

(* A larger power is a multiple of a smaller one, and so is not below it.   *)
LEMMA PowersGrow ==
  ASSUME NEW m \in Nat, NEW n \in Nat, m <= n
  PROVE  /\ \E q \in Nat \ {0} : TenTo[n] = TenTo[m] * q
         /\ TenTo[m] <= TenTo[n]
<1>1. PICK d \in Nat : n = m + d
  <2>1. n - m \in Nat /\ n = m + (n - m)
    OBVIOUS
  <2>. QED BY <2>1
<1>2. PICK p : p = TenTo[m]
  OBVIOUS
<1>3. PICK q : q = TenTo[d]
  OBVIOUS
<1>4. p \in Nat \ {0} /\ q \in Nat \ {0} /\ TenTo[n] = p * q
  BY <1>1, <1>2, <1>3, PowersOfTen, PowersMultiply
<1>5. p <= p * q
  <2>1. PICK e : e = q - 1
    OBVIOUS
  <2>2. e \in Nat /\ q = e + 1
    BY <1>4, <2>1
  <2>3. p * q = p * e + p /\ p * e \in Nat
    BY <1>4, <2>2
  <2>4. PICK z : z = p * e
    OBVIOUS
  <2>. QED BY <1>4, <2>3, <2>4
<1>. QED BY <1>2, <1>4, <1>5

(* A multiple of a multiple is a multiple.                                 *)
LEMMA MultipleOfMultiple ==
  ASSUME NEW x \in Int, NEW p \in Nat \ {0}, NEW q \in Nat \ {0}, x % (p * q) = 0
  PROVE  x % p = 0
<1>1. PICK r : r = p * q
  OBVIOUS
<1>2. r \in Nat \ {0}
  BY <1>1
<1>3. PICK k : k = x \div r
  OBVIOUS
<1>4. k \in Int /\ x = r * k + (x % r)
  BY <1>2, <1>3
<1>5. x = r * k
  BY <1>1, <1>2, <1>4
<1>6. PICK j : j = q * k
  OBVIOUS
<1>7. j \in Int /\ x = p * j
  BY <1>1, <1>4, <1>5, <1>6
<1>. QED BY <1>7

(* A product grows by one factor when the other grows by one.              *)
LEMMA OneMore ==
  ASSUME NEW m \in Nat, NEW k \in Nat
  PROVE  (m + 1) * k = m * k + k /\ m * k \in Nat
OBVIOUS

(* Products of counts grow with their factors.                             *)
LEMMA ProductsGrow ==
  ASSUME NEW m \in Nat, NEW n \in Nat, NEW k \in Nat, m <= n
  PROVE  m * k <= n * k /\ m * k \in Nat
<1>1. PICK d : d = n - m
  OBVIOUS
<1>2. d \in Nat /\ n = m + d
  BY <1>1
<1>3. n * k = m * k + d * k /\ m * k \in Nat /\ d * k \in Nat
  BY <1>2
<1>4. PICK x : x = m * k
  OBVIOUS
<1>5. PICK y : y = d * k
  OBVIOUS
<1>. QED BY <1>3, <1>4, <1>5

(* A wider integral type holds what a narrower one does.                   *)
LEMMA IntegralsWiden ==
  ASSUME NEW at, NEW p, IsIntegral(p), NEW t, IsIntegral(t), Rank(p) <= Rank(t),
         InIntegral(at, p)
  PROVE  InIntegral(at, t)
<1>1. PICK m : m = IntegralMax[p.name]
  OBVIOUS
<1>2. PICK n : n = IntegralMax[t.name]
  OBVIOUS
<1>3. PICK one : one = One
  OBVIOUS
<1>4. m \in Nat /\ n \in Nat /\ m <= n /\ one \in Nat
  BY <1>1, <1>2, <1>3, PowersOfTen, SparkTypesAssumption
     DEF Rank, IsIntegral, One, SparkTypesAssumption
<1>5. m * one <= n * one /\ (m + 1) * one <= (n + 1) * one
  BY <1>4, ProductsGrow
<1>6. /\ m * one \in Int /\ n * one \in Int
      /\ (m + 1) * one \in Int /\ (n + 1) * one \in Int
  BY <1>4
<1>7. at % one = 0 /\ at \in -((m + 1) * one) .. m * one
  <2>1. -(m + 1) * one = -((m + 1) * one)
    BY <1>4
  <2>. QED BY <1>1, <1>3, <2>1 DEF InIntegral
<1>8. at \in -((n + 1) * one) .. n * one
  <2>1. PICK a : a = m * one
    OBVIOUS
  <2>2. PICK b : b = n * one
    OBVIOUS
  <2>3. PICK c : c = (m + 1) * one
    OBVIOUS
  <2>4. PICK d : d = (n + 1) * one
    OBVIOUS
  <2>. QED BY <1>5, <1>6, <1>7, <2>1, <2>2, <2>3, <2>4
<1>9. -(n + 1) * one = -((n + 1) * one)
  BY <1>4
<1>. QED BY <1>2, <1>3, <1>7, <1>8, <1>9 DEF InIntegral

(* A decimal with as many digits as an integral type holds what it does.   *)
LEMMA IntegralsFitDecimals ==
  ASSUME NEW at, NEW p, IsIntegral(p), NEW t \in ColumnTypes, IsDecimal(t),
         IntegralDigits[p.name] <= IntegralPart(t), InIntegral(at, p)
  PROVE  InDecimal(at, t)
<1>1. PICK m : m = IntegralMax[p.name]
  OBVIOUS
<1>2. PICK digits : digits = IntegralDigits[p.name]
  OBVIOUS
<1>3. PICK one : one = One
  OBVIOUS
<1>4. PICK whole : whole = IntegralPart(t)
  OBVIOUS
<1>5. /\ m \in Nat /\ digits \in Nat /\ m + 1 < TenTo[digits]
      /\ UnitDigits \in Nat
  BY <1>1, <1>2, SparkTypesAssumption DEF IsIntegral, SparkTypesAssumption
<1>6. whole \in Nat /\ digits <= whole /\ t.scale \in Nat
  BY <1>2, <1>4, ColumnKinds, Digits DEF Exact
<1>7. one \in Nat \ {0} /\ one = TenTo[UnitDigits]
  BY <1>3, <1>5, PowersOfTen DEF One
<1>8. PICK ten : ten = TenTo[digits]
  OBVIOUS
<1>9. ten \in Nat /\ m + 2 <= ten
  BY <1>5, <1>8, PowersOfTen
<1>10. (m + 2) * one <= ten * one
  BY <1>5, <1>7, <1>9, ProductsGrow
<1>11. ten * one = TenTo[digits + UnitDigits]
  BY <1>5, <1>7, <1>8, PowersMultiply
<1>12. TenTo[digits + UnitDigits] <= TenTo[whole + UnitDigits]
  BY <1>5, <1>6, PowersGrow
<1>13. PICK limit : limit = TenTo[whole + UnitDigits]
  OBVIOUS
<1>14. limit \in Nat
  BY <1>5, <1>6, <1>13, PowersOfTen
<1>15. PICK product : product = m * one
  OBVIOUS
<1>16. /\ product \in Nat
       /\ (m + 1) * one = product + one
      /\ (m + 2) * one = product + one + one
  <2>1. (m + 1) * one = m * one + one /\ m * one \in Nat
    BY <1>5, <1>7, OneMore
  <2>2. PICK n : n = m + 1
    OBVIOUS
  <2>3. n \in Nat /\ m + 2 = n + 1
    BY <1>5, <2>2
  <2>4. (n + 1) * one = n * one + one
    BY <1>7, <2>3, OneMore
  <2>. QED BY <1>7, <1>15, <2>1, <2>2, <2>3, <2>4
<1>17. product + one < limit
  <2>1. PICK x : x = ten * one
    OBVIOUS
  <2>2. x \in Nat
    BY <1>7, <1>9, <2>1
  <2>. QED BY <1>7, <1>10, <1>11, <1>12, <1>13, <1>14, <1>16, <2>1, <2>2
<1>18. at % one = 0 /\ at \in -(product + one) .. product
  <2>1. -(m + 1) * one = -(product + one)
    BY <1>5, <1>7, <1>16
  <2>. QED BY <1>1, <1>3, <1>15, <2>1 DEF InIntegral
<1>19. at \in -(limit - 1) .. limit - 1 /\ at \in Int
  BY <1>7, <1>14, <1>16, <1>17, <1>18
<1>20. t.scale < UnitDigits => at % TenTo[UnitDigits - t.scale] = 0
  <2>1. SUFFICES ASSUME t.scale < UnitDigits PROVE at % TenTo[UnitDigits - t.scale] = 0
    OBVIOUS
  <2>2. PICK rest : rest = UnitDigits - t.scale
    OBVIOUS
  <2>3. rest \in Nat /\ rest <= UnitDigits
    BY <1>5, <1>6, <2>1, <2>2
  <2>4. PICK q \in Nat \ {0} : TenTo[UnitDigits] = TenTo[rest] * q
    BY <1>5, <2>3, PowersGrow
  <2>5. TenTo[rest] \in Nat \ {0}
    BY <2>3, PowersOfTen
  <2>. QED BY <1>7, <1>18, <1>19, <2>2, <2>4, <2>5, MultipleOfMultiple
<1>. QED BY <1>4, <1>13, <1>19, <1>20 DEF InDecimal

(* A decimal with as many digits before and after the point holds what     *)
(* another does.                                                           *)
LEMMA DecimalsWiden ==
  ASSUME NEW at, NEW p \in ColumnTypes, IsDecimal(p), NEW t \in ColumnTypes, IsDecimal(t),
         p.scale <= t.scale, IntegralPart(p) <= IntegralPart(t), InDecimal(at, p)
  PROVE  InDecimal(at, t)
<1>1. /\ p.scale \in Nat /\ IntegralPart(p) \in Nat
      /\ t.scale \in Nat /\ IntegralPart(t) \in Nat /\ UnitDigits \in Nat
  BY ColumnKinds, Digits, SparkTypesAssumption DEF Exact, SparkTypesAssumption
<1>2. PICK less : less = TenTo[IntegralPart(p) + UnitDigits]
  OBVIOUS
<1>3. PICK limit : limit = TenTo[IntegralPart(t) + UnitDigits]
  OBVIOUS
<1>4. less \in Nat /\ limit \in Nat /\ less <= limit
  <2>1. /\ IntegralPart(p) + UnitDigits \in Nat /\ IntegralPart(t) + UnitDigits \in Nat
        /\ IntegralPart(p) + UnitDigits <= IntegralPart(t) + UnitDigits
    BY <1>1
  <2>. QED BY <1>2, <1>3, <2>1, PowersOfTen, PowersGrow
<1>5. at \in -(less - 1) .. less - 1
  BY <1>2 DEF InDecimal
<1>6. at \in -(limit - 1) .. limit - 1 /\ at \in Int
  BY <1>4, <1>5
<1>7. t.scale < UnitDigits => at % TenTo[UnitDigits - t.scale] = 0
  <2>1. SUFFICES ASSUME t.scale < UnitDigits PROVE at % TenTo[UnitDigits - t.scale] = 0
    OBVIOUS
  <2>2. PICK rest : rest = UnitDigits - t.scale
    OBVIOUS
  <2>3. PICK more : more = UnitDigits - p.scale
    OBVIOUS
  <2>4. rest \in Nat /\ more \in Nat /\ rest <= more /\ p.scale < UnitDigits
    BY <1>1, <2>1, <2>2, <2>3
  <2>5. at % TenTo[more] = 0
    BY <2>3, <2>4 DEF InDecimal
  <2>6. PICK q \in Nat \ {0} : TenTo[more] = TenTo[rest] * q
    BY <2>4, PowersGrow
  <2>7. TenTo[rest] \in Nat \ {0}
    BY <2>4, PowersOfTen
  <2>. QED BY <1>6, <2>2, <2>5, <2>6, <2>7, MultipleOfMultiple
<1>. QED BY <1>3, <1>6, <1>7 DEF InDecimal

(* The kinds a column's type may be of.                                    *)
LEMMA KindsOfColumns ==
  ASSUME NEW t \in ColumnTypes
  PROVE  /\ t.name = "string" \/ IsIntegral(t) \/ IsFloating(t) \/ IsDecimal(t)
         /\ t.name = "string" => ~IsIntegral(t) /\ ~IsFloating(t) /\ ~IsDecimal(t)
         /\ IsIntegral(t) => ~IsFloating(t) /\ ~IsDecimal(t)
         /\ IsFloating(t) => ~IsDecimal(t)
<1>1. t.name = "string" \/ IsIntegral(t) \/ IsFloating(t) \/ IsDecimal(t)
  BY DEF ColumnTypes, IsIntegral, IsFloating, IsDecimal, Type, Decimal
<1>. QED BY <1>1, SparkTypesAssumption
         DEF IsIntegral, IsFloating, IsDecimal, SparkTypesAssumption

(* When a type fits into another.                                          *)
LEMMA FitCases ==
  ASSUME NEW p \in ColumnTypes, NEW t \in ColumnTypes, FitsType(p, t)
  PROVE  \/ p = t
         \/ IsIntegral(p) /\ IsIntegral(t) /\ Rank(p) <= Rank(t)
         \/ IsIntegral(p) /\ IsFloating(t)
         \/ IsIntegral(p) /\ IsDecimal(t) /\ IntegralDigits[p.name] <= IntegralPart(t)
         \/ /\ IsDecimal(p) /\ IsDecimal(t)
            /\ p.scale <= t.scale /\ IntegralPart(p) <= IntegralPart(t)
         \/ p.name = "float" /\ t.name = "double"
<1>1. CASE IsIntegral(p)
  <2>1. p.name # "float" /\ ~IsDecimal(p)
    BY <1>1, KindsOfColumns DEF IsFloating
  <2>. QED BY <1>1, <2>1, KindsOfColumns DEF FitsType
<1>2. CASE IsDecimal(p)
  <2>1. p.name # "float" /\ ~IsIntegral(p)
    BY <1>2, KindsOfColumns DEF IsFloating
  <2>. QED BY <1>2, <2>1 DEF FitsType
<1>3. CASE ~IsIntegral(p) /\ ~IsDecimal(p)
  BY <1>3 DEF FitsType
<1>. QED BY <1>1, <1>2, <1>3

(* A type that a type fits into holds all its values                       *)
(* (_numeric_assignment_is_compatible).                                    *)
LEMMA FittingHolds ==
  ASSUME NEW p \in ColumnTypes, NEW t \in ColumnTypes, FitsType(p, t),
         NEW v, ValueOfType(v, p)
  PROVE  ValueOfType(v, t)
<1>1. CASE v = None \/ p = t
  BY <1>1 DEF ValueOfType
<1>2. CASE v # None /\ IsIntegral(p) /\ IsIntegral(t) /\ Rank(p) <= Rank(t)
  <2>1. v.kind = "int" /\ InIntegral(v.at, p)
    BY <1>2, KindsOfColumns DEF ValueOfType
  <2>2. InIntegral(v.at, t)
    BY <1>2, <2>1, IntegralsWiden
  <2>. QED BY <1>2, <2>1, <2>2 DEF ValueOfType
<1>3. CASE v # None /\ IsIntegral(p) /\ IsFloating(t)
  <2>1. v.kind = "int"
    BY <1>3, KindsOfColumns DEF ValueOfType
  <2>. QED BY <1>3, <2>1 DEF ValueOfType
<1>4. CASE /\ v # None /\ IsIntegral(p) /\ IsDecimal(t)
           /\ IntegralDigits[p.name] <= IntegralPart(t)
  <2>1. v.kind = "int" /\ InIntegral(v.at, p)
    BY <1>4, KindsOfColumns DEF ValueOfType
  <2>2. InDecimal(v.at, t)
    BY <1>4, <2>1, IntegralsFitDecimals
  <2>. QED BY <1>4, <2>1, <2>2 DEF ValueOfType
<1>5. CASE /\ v # None /\ IsDecimal(p) /\ IsDecimal(t)
           /\ p.scale <= t.scale /\ IntegralPart(p) <= IntegralPart(t)
  <2>1. v.kind \in {"int", "decimal"} /\ InDecimal(v.at, p)
    BY <1>5, KindsOfColumns DEF ValueOfType
  <2>2. InDecimal(v.at, t)
    BY <1>5, <2>1, DecimalsWiden
  <2>. QED BY <1>5, <2>1, <2>2 DEF ValueOfType
<1>6. CASE v # None /\ p.name = "float" /\ t.name = "double"
  <2>1. IsFloating(p) /\ IsFloating(t)
    BY <1>6 DEF IsFloating
  <2>2. v.kind \in {"int", "float"}
    BY <1>6, <2>1, KindsOfColumns DEF ValueOfType
  <2>. QED BY <2>1, <2>2 DEF ValueOfType
<1>. QED BY <1>1, <1>2, <1>3, <1>4, <1>5, <1>6, FitCases

(* What is none of the types has no value but None.                        *)
LEMMA NoValueOfUnknown == ASSUME NEW v PROVE ValueOfType(v, Unknown) <=> v = None
BY SparkTypesAssumption
   DEF ValueOfType, Unknown, Type, IsIntegral, IsFloating, IsDecimal, SparkTypesAssumption

(* A value of the type of a column can be stored in it.                    *)
LEMMA ValuesAreStored ==
  ASSUME NEW t \in ColumnTypes, NEW v, ValueOfType(v, t)
  PROVE  SparkAssignmentValue(v, t) # Raised /\ v # Raised
<1>1. CASE v = None
  BY <1>1 DEF SparkAssignmentValue, None, Raised
<1>2. CASE v # None
  <2>1. v.kind # "raised" /\ v # Raised
    BY <1>2 DEF ValueOfType, Raised
  <2>2. CASE t.name = "string"
    BY <1>2, <2>1, <2>2, KindsOfColumns DEF SparkAssignmentValue, Text, Raised
  <2>3. CASE IsIntegral(t)
    <3>1. v.kind = "int" /\ InIntegral(v.at, t) /\ t.name # "string"
      BY <1>2, <2>3, KindsOfColumns DEF ValueOfType
    <3>2. SparkAssignmentValue(v, t) = SparkIntegralValue(v, t)
      BY <1>2, <2>1, <2>3, <3>1, KindsOfColumns DEF SparkAssignmentValue
    <3>. QED BY <2>1, <3>1, <3>2 DEF SparkIntegralValue, IsNumber, Raised
  <2>4. CASE IsFloating(t)
    <3>1. v.kind \in {"int", "float"} /\ t.name # "string"
      BY <1>2, <2>4, KindsOfColumns DEF ValueOfType
    <3>2. SparkAssignmentValue(v, t) = SparkFloatValue(v)
      BY <1>2, <2>1, <2>4, <3>1, KindsOfColumns DEF SparkAssignmentValue
    <3>. QED BY <2>1, <3>1, <3>2 DEF SparkFloatValue, IsNumber, Float, Raised
  <2>5. CASE IsDecimal(t)
    <3>1. v.kind \in {"int", "decimal"} /\ InDecimal(v.at, t) /\ t.name # "string"
      BY <1>2, <2>5, KindsOfColumns DEF ValueOfType
    <3>2. SparkAssignmentValue(v, t) = SparkDecimalValue(v, t)
      BY <1>2, <2>1, <2>5, <3>1, KindsOfColumns DEF SparkAssignmentValue
    <3>. QED BY <2>1, <3>1, <3>2 DEF SparkDecimalValue, IsNumber, Dec, Raised
  <2>. QED BY <2>1, <2>2, <2>3, <2>4, <2>5, KindsOfColumns
<1>. QED BY <1>1, <1>2

(* What a column holds is a value of its type.                             *)
LEMMA HeldValues ==
  ASSUME NEW t \in MaybeType, NEW v, Holds(t, v)
  PROVE  ValueOfType(v, t)
BY DEF Holds, ValueOfType

(* The common type of the first types is met on the way to that of all.    *)
LEMMA CommonOfPrefix ==
  ASSUME NEW types \in Seq(MaybeType), NEW f, Commons(f, types, Len(types)),
         NEW k \in 0 .. Len(types)
  PROVE  CommonOf(SubSeq(types, 1, k)) = f[k]
<1>1. PICK n : n = Len(types)
  OBVIOUS
<1>2. n \in Nat /\ k \in Nat /\ k <= n
  BY <1>1, LenProperties
<1>3. PICK first : first = SubSeq(types, 1, k)
  OBVIOUS
<1>4. DOMAIN first = 1 .. k /\ \A j \in 1 .. k : first[j] = types[j]
  <2>1. 1 \in 1 .. Len(types) + 1 /\ k \in 1 - 1 .. Len(types)
    BY <1>1, <1>2
  <2>2. /\ first \in Seq(MaybeType)
        /\ Len(first) = IF 1 <= k THEN k - 1 + 1 ELSE 0
        /\ \A j \in 1 .. k - 1 + 1 : first[j] = types[1 + j - 1]
    BY <1>3, <2>1, SubSeqProperties
  <2>3. Len(first) = k /\ DOMAIN first = 1 .. Len(first)
    BY <1>2, <2>2, LenProperties
  <2>4. k - 1 + 1 = k /\ \A j \in 1 .. k : 1 + j - 1 = j
    BY <1>2
  <2>. QED BY <2>2, <2>3, <2>4
<1>5. PICK g : Commons(g, first, k) /\ CommonOf(first) = g[k]
  BY <1>2, <1>4, CommonOfUnfold
<1> DEFINE T == {j \in Nat : j <= k => g[j] = f[j]}
<1>6. 0 \in T
  BY <1>5 DEF Commons
<1>7. ASSUME NEW j \in Nat, j \in T PROVE j + 1 \in T
  <2>1. SUFFICES ASSUME j + 1 <= k PROVE g[j + 1] = f[j + 1]
    OBVIOUS
  <2>2. j + 1 \in 1 .. k /\ j + 1 \in 1 .. n /\ j + 1 - 1 = j /\ g[j] = f[j]
    BY <1>2, <1>7, <2>1
  <2>3. g[j + 1] = Merged(g[j], first[j + 1]) /\ f[j + 1] = Merged(f[j], types[j + 1])
    BY <1>1, <1>5, <2>2 DEF Commons
  <2>. QED BY <1>4, <2>2, <2>3
<1>8. Nat \subseteq T
  <2> HIDE DEF T
  <2>. QED BY <1>6, <1>7, Inductive
<1>. QED BY <1>2, <1>3, <1>5, <1>8

(* Types that do not conflict have a common type that holds every value of *)
(* each of them (_resolve_assignment_types, _infer_common_type).           *)
LEMMA CommonOfHolds ==
  ASSUME NEW types \in Seq(MaybeType), ~Conflicting(types),
         NEW i \in DOMAIN types, types[i] # Unknown, NEW v, ValueOfType(v, types[i])
  PROVE  CommonOf(types) \in ColumnTypes /\ ValueOfType(v, CommonOf(types))
<1>1. PICK n : n = Len(types)
  OBVIOUS
<1>2. n \in Nat /\ DOMAIN types = 1 .. n /\ \A k \in 1 .. n : types[k] \in MaybeType
  BY <1>1, LenProperties, ElementOfSeq
<1>3. PICK f : Commons(f, types, n) /\ CommonOf(types) = f[n]
  BY <1>2, CommonOfUnfold
<1>4. ASSUME NEW k \in 1 .. n, f[k - 1] # Unknown, types[k] # Unknown
      PROVE  CommonType(f[k - 1], types[k]) # Unknown
  <2>1. k - 1 \in 0 .. Len(types)
    BY <1>1, <1>2
  <2>2. CommonOf(SubSeq(types, 1, k - 1)) = f[k - 1]
    BY <1>1, <1>3, <2>1, CommonOfPrefix
  <2>. QED BY <1>2, <1>4, <2>2 DEF Conflicting
<1> DEFINE Fine(k) == /\ f[k] \in MaybeType
                      /\ i <= k => f[k] # Unknown /\ ValueOfType(v, f[k])
           T == {k \in Nat : k <= n => Fine(k)}
<1>5. 0 \in T
  <2>1. f[0] = Unknown /\ ~(i <= 0)
    BY <1>2, <1>3 DEF Commons
  <2>. QED BY <2>1 DEF MaybeType
<1>6. ASSUME NEW k \in Nat, k \in T PROVE k + 1 \in T
  <2>1. SUFFICES ASSUME k + 1 <= n PROVE Fine(k + 1)
    OBVIOUS
  <2>2. k + 1 \in 1 .. n /\ k + 1 - 1 = k /\ Fine(k)
    BY <1>2, <1>6, <2>1
  <2>3. PICK t : t = f[k]
    OBVIOUS
  <2>4. PICK u : u = types[k + 1]
    OBVIOUS
  <2>5. t \in MaybeType /\ u \in MaybeType /\ f[k + 1] = Merged(t, u)
    BY <1>2, <1>3, <2>2, <2>3, <2>4 DEF Commons
  <2>6. Merged(t, u) \in MaybeType
    BY <2>5, MergedType
  <2>7. t # Unknown /\ u # Unknown => CommonType(t, u) # Unknown
    BY <1>4, <2>2, <2>3, <2>4
  <2>8. i <= k + 1 => i <= k \/ i = k + 1
    BY <1>2
  <2>9. CASE t = Unknown
    <3>1. Merged(t, u) = u
      BY <2>9 DEF Merged
    <3>2. ~(i <= k)
      BY <2>2, <2>3, <2>9
    <3>. QED BY <2>4, <2>5, <2>8, <3>1, <3>2
  <2>10. CASE t # Unknown /\ u = Unknown
    <3>1. Merged(t, u) = t
      BY <2>10, UnknownCombines DEF Merged
    <3>2. i # k + 1
      BY <2>4, <2>10
    <3>. QED BY <2>2, <2>3, <2>5, <2>8, <2>10, <3>1, <3>2
  <2>11. CASE t # Unknown /\ u # Unknown
    <3>1. Merged(t, u) = CommonType(t, u) /\ CommonType(t, u) # Unknown
      BY <2>7, <2>11 DEF Merged
    <3>2. t \in ColumnTypes /\ u \in ColumnTypes /\ CommonType(t, u) \in ColumnTypes
      BY <2>5, <2>6, <2>11, <3>1 DEF MaybeType
    <3>3. FitsType(t, CommonType(t, u)) /\ FitsType(u, CommonType(t, u))
      BY <3>1, <3>2, ColumnKinds, CommonTypeHoldsBoth
    <3>4. i <= k + 1 => ValueOfType(v, t) \/ ValueOfType(v, u)
      BY <2>2, <2>3, <2>4, <2>8
    <3>5. i <= k + 1 => ValueOfType(v, CommonType(t, u))
      BY <3>2, <3>3, <3>4, FittingHolds
    <3>. QED BY <2>5, <2>6, <3>1, <3>5
  <2>. QED BY <2>9, <2>10, <2>11
<1>7. n \in T
  <2> HIDE DEF T
  <2>. QED BY <1>2, <1>5, <1>6, Inductive
<1>8. Fine(n) /\ i <= n
  BY <1>2, <1>7
<1>. QED BY <1>3, <1>8 DEF MaybeType

(* A literal that is compatible with a type is a value of it               *)
(* (_literal_assignment_is_compatible).                                    *)
LEMMA CompatibleLiteral ==
  ASSUME NEW l, IsLiteral(l), LiteralFits(l), NEW t \in ColumnTypes,
         \/ LiteralDecision(l, t) = "fits"
         \/ LiteralDecision(l, t) = "undecided" /\ FitsType(BaseLiteralType(l), t)
  PROVE  ValueOfType(l.value, t)
<1>1. PICK v : v = l.value
  OBVIOUS
<1>2. CASE v = None
  BY <1>1, <1>2 DEF ValueOfType
<1>3. CASE v # None /\ LiteralDecision(l, t) = "undecided" /\ FitsType(BaseLiteralType(l), t)
  <2>1. BaseLiteralType(l) # Unknown /\ ValueOfType(v, BaseLiteralType(l))
    BY <1>1, <1>3 DEF LiteralFits
  <2>2. BaseLiteralType(l) \in ColumnTypes
    BY <2>1, LiteralTypes DEF MaybeType
  <2>. QED BY <1>1, <1>3, <2>1, <2>2, FittingHolds
<1>4. CASE v # None /\ LiteralDecision(l, t) = "fits"
  <2>1. Decision(TRUE) = "fits" /\ Decision(FALSE) = "misfit"
    BY DEF Decision
  <2>2. \/ v.kind = "int" /\ IsIntegral(t) /\ InIntegral(v.at, t)
        \/ v.kind = "int" /\ IsFloating(t)
        \/ v.kind = "int" /\ IsDecimal(t) /\ InDecimal(v.at, t)
        \/ v.kind = "float" /\ IsFloating(t)
        \/ v.kind = "decimal" /\ IsDecimal(t) /\ InDecimal(v.at, t)
    <3>1. CASE v.kind = "int"
      BY <1>1, <1>4, <3>1, KindsOfColumns DEF LiteralDecision, Decision
    <3>2. CASE v.kind = "float"
      BY <1>1, <1>4, <3>2 DEF LiteralDecision, Decision
    <3>3. CASE v.kind = "decimal"
      BY <1>1, <1>4, <3>3 DEF LiteralDecision, Decision
    <3>4. CASE v.kind \notin {"int", "float", "decimal"}
      BY <1>1, <1>4, <3>4 DEF LiteralDecision
    <3>. QED BY <3>1, <3>2, <3>3, <3>4
  <2>. QED BY <1>1, <2>2 DEF ValueOfType
<1>. QED BY <1>2, <1>3, <1>4

(***************************************************************************)
(* The operands below an operand, and their values.                        *)
(***************************************************************************)
TreeFrom(operand, tree) ==
  {operand} \cup UNION {tree[p] : p \in ToSet(NestedOperands(operand))}

(* The tree of an operand depends on those of its arguments only.          *)
LEMMA GrownAlike ==
  ASSUME NEW operand, NEW f, NEW g,
         \A i \in DOMAIN NestedOperands(operand) :
           f[NestedOperands(operand)[i]] = g[NestedOperands(operand)[i]]
  PROVE  TreeFrom(operand, f) = TreeFrom(operand, g)
<1>1. ASSUME NEW p \in ToSet(NestedOperands(operand)) PROVE f[p] = g[p]
  BY <1>1 DEF ToSet
<1>. QED BY <1>1 DEF TreeFrom

(* Tree is the function its recursive definition describes.                *)
LEMMA TreeUnfold ==
  ASSUME NEW operand \in Operands
  PROVE  Tree[operand] = TreeFrom(operand, Tree)
<1> DEFINE step(o, f) == TreeFrom(o, f)
           Below(k) == {o \in Operands : OperandDepth[o] < k}
           Fits(f, S) == f = [o \in S |-> step(o, f)]
           T == {k \in Nat : \E f : Fits(f, Below(k))}
<1>1. Cardinality(Operands) \in Nat
  BY PreflightAssumption, FS_CardinalityType DEF PreflightAssumption, OperandTrees
<1>2. \A o \in Operands :
        OperandDepth[o] \in Nat /\ OperandDepth[o] < Cardinality(Operands) + 1
  BY <1>1, PreflightAssumption DEF PreflightAssumption, OperandTrees
<1>3. ASSUME NEW o \in Operands, NEW i \in DOMAIN NestedOperands(o)
      PROVE  /\ NestedOperands(o)[i] \in Operands
             /\ OperandDepth[NestedOperands(o)[i]] < OperandDepth[o]
  BY PreflightAssumption DEF PreflightAssumption, OperandTrees
<1>4. 0 \in T
  <2>1. Below(0) = {}
    BY <1>2
  <2>2. PICK f : f = [o \in {} |-> {}]
    OBVIOUS
  <2>3. Fits(f, {})
    <3> HIDE DEF step
    <3>. QED BY <2>2
  <2>. QED BY <2>1, <2>3
<1>5. ASSUME NEW k \in Nat, k \in T PROVE k + 1 \in T
  <2>1. PICK f : f = [o \in Below(k) |-> step(o, f)]
    BY <1>5
  <2>2. PICK g : g = [o \in Below(k + 1) |-> step(o, f)]
    OBVIOUS
  <2>3. ASSUME NEW o \in Below(k) PROVE g[o] = f[o]
    <3>1. o \in Below(k + 1)
      BY <1>2
    <3> HIDE DEF step, Below
    <3>2. g[o] = step(o, f)
      BY <2>2, <3>1
    <3>3. f[o] = step(o, f)
      BY <2>1
    <3>. QED BY <3>2, <3>3
  <2>4. ASSUME NEW o \in Below(k + 1) PROVE step(o, f) = step(o, g)
    <3>1. ASSUME NEW i \in DOMAIN NestedOperands(o)
          PROVE  f[NestedOperands(o)[i]] = g[NestedOperands(o)[i]]
      <4>1. PICK arg : arg = NestedOperands(o)[i]
        OBVIOUS
      <4>2. arg \in Operands /\ OperandDepth[arg] < OperandDepth[o]
        BY <1>3, <4>1
      <4>3. arg \in Below(k)
        BY <1>2, <4>2
      <4>. QED BY <2>3, <4>1, <4>3
    <3>. QED BY <3>1, GrownAlike
  <2>5. g = [o \in Below(k + 1) |-> step(o, g)]
    <3> HIDE DEF step, Below
    <3>. QED BY <2>2, <2>4
  <2> HIDE DEF step, Below
  <2>. QED BY <2>5
<1>6. Nat \subseteq T
  <2> HIDE DEF T
  <2>. QED BY <1>4, <1>5, Inductive
<1>7. \E f : Fits(f, Operands)
  <2>1. Below(Cardinality(Operands) + 1) = Operands
    BY <1>2
  <2>2. Cardinality(Operands) + 1 \in T
    <3> HIDE DEF T
    <3>. QED BY <1>1, <1>6
  <2> HIDE DEF step, Below
  <2>. QED BY <2>1, <2>2
<1>8. Tree = CHOOSE f : Fits(f, Operands)
  BY DEF Tree, TreeFrom
<1>9. Fits(Tree, Operands)
  <2> HIDE DEF Fits
  <2>. QED BY <1>7, <1>8
<1> HIDE DEF step
<1>10. Tree[operand] = step(operand, Tree)
  BY <1>9
<1>. QED BY <1>10 DEF step

ValueFrom(operand, r, stored, value) ==
  LET args == NestedOperands(operand)
      plain == PlainValue(operand, r, stored, [i \in DOMAIN args |-> value[args[i]]])
  IN  IF plain = None THEN operand.default_if_null.value ELSE plain

(* The value of an operand depends on those of its arguments only.         *)
LEMMA ValuedAlike ==
  ASSUME NEW operand, NEW r, NEW stored, NEW f, NEW g,
         \A i \in DOMAIN NestedOperands(operand) :
           f[NestedOperands(operand)[i]] = g[NestedOperands(operand)[i]]
  PROVE  ValueFrom(operand, r, stored, f) = ValueFrom(operand, r, stored, g)
<1>1. PICK args : args = NestedOperands(operand)
  OBVIOUS
<1>2. [i \in DOMAIN args |-> f[args[i]]] = [i \in DOMAIN args |-> g[args[i]]]
  BY <1>1
<1>. QED BY <1>1, <1>2 DEF ValueFrom

(* Resolution is the function its recursive definition describes.          *)
LEMMA ResolutionUnfold ==
  ASSUME NEW r, NEW stored, NEW value, value = Resolution(r, stored),
         NEW operand \in Operands
  PROVE  value[operand] = ValueFrom(operand, r, stored, value)
<1> DEFINE step(o, f) == ValueFrom(o, r, stored, f)
           Below(k) == {o \in Operands : OperandDepth[o] < k}
           Fits(f, S) == f = [o \in S |-> step(o, f)]
           T == {k \in Nat : \E f : Fits(f, Below(k))}
<1>1. Cardinality(Operands) \in Nat
  BY PreflightAssumption, FS_CardinalityType DEF PreflightAssumption, OperandTrees
<1>2. \A o \in Operands :
        OperandDepth[o] \in Nat /\ OperandDepth[o] < Cardinality(Operands) + 1
  BY <1>1, PreflightAssumption DEF PreflightAssumption, OperandTrees
<1>3. ASSUME NEW o \in Operands, NEW i \in DOMAIN NestedOperands(o)
      PROVE  /\ NestedOperands(o)[i] \in Operands
             /\ OperandDepth[NestedOperands(o)[i]] < OperandDepth[o]
  BY PreflightAssumption DEF PreflightAssumption, OperandTrees
<1>4. 0 \in T
  <2>1. Below(0) = {}
    BY <1>2
  <2>2. PICK f : f = [o \in {} |-> {}]
    OBVIOUS
  <2>3. Fits(f, {})
    <3> HIDE DEF step
    <3>. QED BY <2>2
  <2>. QED BY <2>1, <2>3
<1>5. ASSUME NEW k \in Nat, k \in T PROVE k + 1 \in T
  <2>1. PICK f : f = [o \in Below(k) |-> step(o, f)]
    BY <1>5
  <2>2. PICK g : g = [o \in Below(k + 1) |-> step(o, f)]
    OBVIOUS
  <2>3. ASSUME NEW o \in Below(k) PROVE g[o] = f[o]
    <3>1. o \in Below(k + 1)
      BY <1>2
    <3> HIDE DEF step, Below
    <3>2. g[o] = step(o, f)
      BY <2>2, <3>1
    <3>3. f[o] = step(o, f)
      BY <2>1
    <3>. QED BY <3>2, <3>3
  <2>4. ASSUME NEW o \in Below(k + 1) PROVE step(o, f) = step(o, g)
    <3>1. ASSUME NEW i \in DOMAIN NestedOperands(o)
          PROVE  f[NestedOperands(o)[i]] = g[NestedOperands(o)[i]]
      <4>1. PICK arg : arg = NestedOperands(o)[i]
        OBVIOUS
      <4>2. arg \in Operands /\ OperandDepth[arg] < OperandDepth[o]
        BY <1>3, <4>1
      <4>3. arg \in Below(k)
        BY <1>2, <4>2
      <4>. QED BY <2>3, <4>1, <4>3
    <3>. QED BY <3>1, ValuedAlike
  <2>5. g = [o \in Below(k + 1) |-> step(o, g)]
    <3> HIDE DEF step, Below
    <3>. QED BY <2>2, <2>4
  <2> HIDE DEF step, Below
  <2>. QED BY <2>5
<1>6. Nat \subseteq T
  <2> HIDE DEF T
  <2>. QED BY <1>4, <1>5, Inductive
<1>7. \E f : Fits(f, Operands)
  <2>1. Below(Cardinality(Operands) + 1) = Operands
    BY <1>2
  <2>2. Cardinality(Operands) + 1 \in T
    <3> HIDE DEF T
    <3>. QED BY <1>1, <1>6
  <2> HIDE DEF step, Below
  <2>. QED BY <2>1, <2>2
<1>8. value = CHOOSE f : Fits(f, Operands)
  BY DEF Resolution, ValueFrom
<1>9. Fits(value, Operands)
  <2> HIDE DEF Fits
  <2>. QED BY <1>7, <1>8
<1> HIDE DEF step
<1>10. value[operand] = step(operand, value)
  BY <1>9
<1>. QED BY <1>10 DEF step

(* An operand is well formed, and so are its arguments, which are less     *)
(* deep.                                                                   *)
LEMMA OperandShape ==
  ASSUME NEW operand \in Operands
  PROVE  /\ WellFormedOperand(operand, DOMAIN Source, Targets)
         /\ OperandDepth[operand] \in Nat
         /\ \A i \in DOMAIN NestedOperands(operand) :
              /\ NestedOperands(operand)[i] \in Operands
              /\ OperandDepth[NestedOperands(operand)[i]] < OperandDepth[operand]
BY PreflightAssumption, FS_CardinalityType DEF PreflightAssumption, OperandTrees

(* An operand is in its tree, with its arguments and theirs.               *)
LEMMA TreeOfOperand ==
  ASSUME NEW operand \in Operands
  PROVE  /\ operand \in Tree[operand]
         /\ \A i \in DOMAIN NestedOperands(operand) :
              Tree[NestedOperands(operand)[i]] \subseteq Tree[operand]
<1>1. Tree[operand] = {operand} \cup UNION {Tree[p] : p \in ToSet(NestedOperands(operand))}
  BY TreeUnfold DEF TreeFrom
<1>2. \A i \in DOMAIN NestedOperands(operand) :
        NestedOperands(operand)[i] \in ToSet(NestedOperands(operand))
  BY DEF ToSet
<1>. QED BY <1>1, <1>2

(* A tree is one of operands, and holds the tree of each of them.          *)
LEMMA TreesNest ==
  ASSUME NEW operand \in Operands
  PROVE  \A p \in Tree[operand] : p \in Operands /\ Tree[p] \subseteq Tree[operand]
<1> DEFINE Nested(o) == \A p \in Tree[o] : p \in Operands /\ Tree[p] \subseteq Tree[o]
           T == {k \in Nat : \A o \in Operands : OperandDepth[o] < k => Nested(o)}
<1>1. 0 \in T
  BY OperandShape
<1>2. ASSUME NEW k \in Nat, k \in T PROVE k + 1 \in T
  <2>1. ASSUME NEW o \in Operands, OperandDepth[o] < k + 1 PROVE Nested(o)
    <3>1. SUFFICES ASSUME NEW p \in Tree[o] PROVE p \in Operands /\ Tree[p] \subseteq Tree[o]
      OBVIOUS
    <3>2. CASE p = o
      BY <3>2
    <3>3. CASE p # o
      <4>1. PICK arg \in ToSet(NestedOperands(o)) : p \in Tree[arg]
        BY <3>1, <3>3, TreeUnfold DEF TreeFrom
      <4>2. PICK i \in DOMAIN NestedOperands(o) : arg = NestedOperands(o)[i]
        BY <4>1 DEF ToSet
      <4>3. /\ arg \in Operands /\ OperandDepth[arg] < OperandDepth[o]
            /\ OperandDepth[arg] \in Nat /\ OperandDepth[o] \in Nat
        BY <4>2, OperandShape
      <4>4. OperandDepth[arg] < k
        BY <2>1, <4>3
      <4>5. Nested(arg)
        BY <1>2, <4>3, <4>4
      <4>6. Tree[arg] \subseteq Tree[o]
        BY <4>2, TreeOfOperand
      <4>. QED BY <4>1, <4>5, <4>6
    <3>. QED BY <3>2, <3>3
  <2>. QED BY <2>1
<1>3. Nat \subseteq T
  <2> HIDE DEF T
  <2>. QED BY <1>1, <1>2, Inductive
<1>4. PICK d : d = OperandDepth[operand]
  OBVIOUS
<1>5. d \in Nat /\ d + 1 \in T /\ d < d + 1
  BY <1>3, <1>4, OperandShape
<1>. QED BY <1>4, <1>5

(***************************************************************************)
(* The values of operands.                                                 *)
(***************************************************************************)
(* An operand that the checks of an accepted ruleset pass and that does    *)
(* not depend on data.                                                     *)
Checked(operand, type) ==
  /\ DefaultIssues(operand, type[operand].base) = {}
  /\ operand.kind = "custom_function" =>
       /\ ArgumentIssues(operand, type) = {}
       /\ type[operand].base # Unknown /\ ReturnTypeHint[operand.name] # "decimal"

(* A default that passes its check is a value of the type it stands in for *)
(* (_validate_operand_defaults).                                           *)
LEMMA DefaultHolds ==
  ASSUME LiteralsPlain, NEW operand \in Operands, NEW base \in ColumnTypes,
         DefaultIssues(operand, base) = {}
  PROVE  ValueOfType(operand.default_if_null.value, base)
<1>1. PICK default : default = operand.default_if_null
  OBVIOUS
<1>2. IsLiteral(default) /\ LiteralFits(default) /\ base # Unknown
  BY <1>1, OperandShape, ColumnKinds DEF WellFormedOperand, LiteralsPlain, Known
<1>3. CASE default.value = None
  BY <1>1, <1>3 DEF ValueOfType
<1>4. CASE default.value # None
  <2>1. BaseLiteralType(default) # Unknown
    BY <1>2, <1>4 DEF LiteralFits
  <2>2. \/ LiteralDecision(default, base) = "fits"
        \/ /\ LiteralDecision(default, base) = "undecided"
           /\ FitsType(BaseLiteralType(default), base)
    BY <1>1, <1>2, <2>1 DEF DefaultIssues
  <2>. QED BY <1>1, <1>2, <2>2, CompatibleLiteral
<1>. QED BY <1>3, <1>4

(* A value of a type that matches a hint is what the hint says.            *)
LEMMA MatchingHolds ==
  ASSUME NEW t \in MaybeType, NEW v, ValueOfType(v, t), NEW hint,
         t = Unknown \/ ArgumentMatches(t, hint)
  PROVE  InContract(v, hint) /\ v # Raised
<1>1. CASE t = Unknown
  <2>1. v = None
    BY <1>1, NoValueOfUnknown
  <2>. QED BY <2>1 DEF InContract, None, Raised
<1>2. CASE t \in ColumnTypes /\ ArgumentMatches(t, hint)
  <2>1. v # Raised
    BY <1>2, ValuesAreStored
  <2>2. CASE hint = "any" \/ v = None
    BY <2>1, <2>2 DEF InContract
  <2>3. CASE v # None /\ hint = "string" /\ t = Type("string")
    <3>1. t.name = "string"
      BY <2>3 DEF Type
    <3>2. v.kind = "text"
      BY <1>2, <2>3, <3>1, KindsOfColumns DEF ValueOfType
    <3>. QED BY <2>1, <2>3, <3>2 DEF InContract
  <2>4. CASE v # None /\ hint = "integer" /\ IsIntegral(t)
    <3>1. v.kind = "int"
      BY <1>2, <2>4, KindsOfColumns DEF ValueOfType
    <3>. QED BY <2>1, <2>4, <3>1 DEF InContract
  <2>5. CASE /\ v # None /\ hint = "number"
             /\ IsIntegral(t) \/ IsFloating(t) \/ IsDecimal(t)
    <3>1. v.kind \in {"int", "float", "decimal"}
      BY <1>2, <2>5, KindsOfColumns DEF ValueOfType
    <3>. QED BY <2>1, <2>5, <3>1 DEF InContract, IsNumber
  <2>. QED BY <1>2, <2>2, <2>3, <2>4, <2>5 DEF ArgumentMatches
<1>. QED BY <1>1, <1>2 DEF MaybeType

(* What a function returns when it is called as its contract says.         *)
LEMMA ContractKept ==
  ASSUME NEW name, NEW args, KeepsContract(name, args),
         \A i \in DOMAIN args : args[i] # Raised /\ InContract(args[i], ArgumentHint[name][i]),
         NEW t \in ColumnTypes,
         \/ ReturnTypeHint[name] = "same_as" /\ ValueOfType(args[1], t)
         \/ /\ ReturnTypeHint[name] = "common_type"
            /\ \A i \in DOMAIN args : ValueOfType(args[i], t)
         \/ /\ ReturnTypeHint[name] \notin {"same_as", "common_type", "decimal"}
            /\ HintType(ReturnTypeHint[name]) = t
  PROVE  ValueOfType(Function(name, args), t)
<1>1. t # Unknown
  BY ColumnKinds DEF Known
<1>. QED BY <1>1 DEF KeepsContract

(* What a checked function returns is of its inferred type                 *)
(* (_infer_custom_function_type).                                          *)
LEMMA ResultFits ==
  ASSUME FunctionsKeepContract, NEW operand \in Operands, operand.kind = "custom_function",
         NEW types, DOMAIN types = DOMAIN operand.args,
         \A i \in DOMAIN operand.args : types[i] \in MaybeType,
         NEW values, DOMAIN values = DOMAIN operand.args,
         \A i \in DOMAIN operand.args : ValueOfType(values[i], types[i]),
         \A i \in DOMAIN operand.args :
           types[i] = Unknown \/ ArgumentMatches(types[i], ArgumentHint[operand.name][i]),
         types = [i \in DOMAIN operand.args |-> types[i]],
         FunctionType(operand.name, types) \in ColumnTypes,
         ReturnTypeHint[operand.name] # "decimal"
  PROVE  ValueOfType(Function(operand.name, values), FunctionType(operand.name, types))
<1>1. PICK name : name = operand.name
  OBVIOUS
<1>2. PICK t : t = FunctionType(name, types)
  OBVIOUS
<1>3. t \in ColumnTypes /\ t # Unknown
  BY <1>1, <1>2, ColumnKinds DEF Known
<1>4. KeepsContract(name, values)
  BY <1>1 DEF FunctionsKeepContract
<1>5. \A i \in DOMAIN values :
        values[i] # Raised /\ InContract(values[i], ArgumentHint[name][i])
  BY <1>1, MatchingHolds
<1>6. PICK n \in Nat : DOMAIN types = 1 .. n /\ (operand.args # <<>> => n # 0)
  <2>1. operand.args \in Seq(ToSet(operand.args))
    BY OperandShape DEF WellFormedOperand
  <2>2. PICK m : m = Len(operand.args)
    OBVIOUS
  <2>3. m \in Nat /\ DOMAIN operand.args = 1 .. m /\ (operand.args # <<>> => m # 0)
    BY <2>1, <2>2, LenProperties, EmptySeq
  <2>. QED BY <2>3
<1>7. CASE ReturnTypeHint[name] = "same_as"
  <2>1. operand.args # <<>>
    BY <1>1, <1>7, OperandShape DEF WellFormedOperand
  <2>2. 1 \in DOMAIN operand.args /\ t = types[1]
    BY <1>2, <1>6, <1>7, <2>1 DEF FunctionType
  <2>3. ValueOfType(values[1], t)
    BY <2>2
  <2>. QED BY <1>1, <1>2, <1>3, <1>4, <1>5, <1>7, <2>3, ContractKept
<1>8. CASE ReturnTypeHint[name] = "common_type"
  <2>1. t = ArgumentsType(types)
    BY <1>2, <1>8 DEF FunctionType
  <2>2. ~Conflicting(types) /\ t = CommonOf(types)
    BY <1>3, <2>1 DEF ArgumentsType
  <2>3. types \in Seq(MaybeType)
    <3>1. types \in [1 .. n -> MaybeType]
      BY <1>6
    <3>. QED BY <1>6, <3>1, SeqDef
  <2>4. ASSUME NEW i \in DOMAIN values PROVE ValueOfType(values[i], t)
    <3>1. CASE types[i] = Unknown
      <4>1. values[i] = None
        BY <3>1, NoValueOfUnknown
      <4>. QED BY <4>1 DEF ValueOfType
    <3>2. CASE types[i] # Unknown
      BY <2>2, <2>3, <3>2, CommonOfHolds
    <3>. QED BY <3>1, <3>2
  <2>. QED BY <1>1, <1>2, <1>3, <1>4, <1>5, <1>8, <2>4, ContractKept
<1>9. CASE ReturnTypeHint[name] \notin {"same_as", "common_type"}
  <2>1. t = HintType(ReturnTypeHint[name])
    BY <1>2, <1>9 DEF FunctionType
  <2>. QED BY <1>1, <1>2, <1>3, <1>4, <1>5, <1>9, <2>1, ContractKept
<1>. QED BY <1>7, <1>8, <1>9

(* A checked operand whose arguments have values of their types has one of *)
(* its own (_base_operand_type, _operand_type; operand_runtime.py).         *)
LEMMA ValueFits ==
  ASSUME RowsFitSource, LiteralsPlain, FunctionsKeepContract,
         NEW r \in Rows, NEW assigned \in [Targets -> MaybeType], NEW stored,
         \A t \in Targets : Holds(assigned[t], stored[t]),
         NEW type, type = OperandTypes(Source, assigned),
         NEW value, value = Resolution(r, stored),
         NEW operand \in Operands, Checked(operand, type),
         \A i \in DOMAIN NestedOperands(operand) :
           ValueOfType(value[NestedOperands(operand)[i]], type[NestedOperands(operand)[i]].full)
  PROVE  ValueOfType(value[operand], type[operand].full)
<1>1. PICK args : args = NestedOperands(operand)
  OBVIOUS
<1>2. PICK argTypes : argTypes = [i \in DOMAIN args |-> type[args[i]].full]
  OBVIOUS
<1>3. PICK argValues : argValues = [i \in DOMAIN args |-> value[args[i]]]
  OBVIOUS
<1>4. PICK base : base = BaseType(operand, Source, assigned, argTypes)
  OBVIOUS
<1>5. PICK plain : plain = PlainValue(operand, r, stored, argValues)
  OBVIOUS
<1>6. PICK default : default = operand.default_if_null
  OBVIOUS
<1>7. type[operand].base = base /\ type[operand].full = TypeWithDefault(operand, base)
  <2>1. type[operand] = TypeFrom(operand, assigned, type)
    BY OperandTypesUnfold
  <2>. QED BY <1>1, <1>2, <1>4, <2>1 DEF TypeFrom
<1>8. value[operand] = IF plain = None THEN default.value ELSE plain
  <2>1. value[operand] = ValueFrom(operand, r, stored, value)
    BY ResolutionUnfold
  <2>. QED BY <1>1, <1>3, <1>5, <1>6, <2>1 DEF ValueFrom
<1>9. base \in MaybeType
  <2>1. \A i \in DOMAIN NestedOperands(operand) :
          type[NestedOperands(operand)[i]].full \in MaybeType
    BY OperandShape, TypesOfOperands
  <2>2. TypeFrom(operand, assigned, type).base \in MaybeType
    BY <2>1, TypeOfOperand
  <2>. QED BY <1>7, <2>2, OperandTypesUnfold
<1>10. /\ WellFormedOperand(operand, DOMAIN Source, Targets)
       /\ IsLiteral(default) /\ LiteralFits(default)
  BY <1>6, OperandShape DEF WellFormedOperand, LiteralsPlain
<1>11. ValueOfType(plain, base)
  <2>1. CASE operand.kind = "field"
    <3>1. /\ plain = r[operand.name] /\ operand.name \in DOMAIN Source
          /\ base = IF Source[operand.name] = Void THEN Unknown ELSE Source[operand.name]
      BY <1>4, <1>5, <1>10, <2>1 DEF PlainValue, BaseType, WellFormedOperand
    <3>. QED BY <3>1 DEF RowsFitSource
  <2>2. CASE operand.kind = "assigned"
    <3>1. plain = stored[operand.name] /\ operand.name \in Targets
          /\ base = assigned[operand.name]
      BY <1>4, <1>5, <1>10, <2>2 DEF PlainValue, BaseType, WellFormedOperand
    <3>. QED BY <1>9, <3>1, HeldValues
  <2>3. CASE operand.kind = "literal"
    <3>1. plain = operand.value /\ base = BaseLiteralType(operand)
      BY <1>4, <1>5, <2>3 DEF PlainValue, BaseType
    <3>2. LiteralFits(operand)
      BY <2>3 DEF LiteralsPlain
    <3>. QED BY <3>1, <3>2 DEF LiteralFits, ValueOfType
  <2>4. CASE operand.kind = "custom_function"
    <3>1. /\ plain = Function(operand.name, argValues)
          /\ base = FunctionType(operand.name, argTypes) /\ args = operand.args
      BY <1>1, <1>4, <1>5, <2>4 DEF PlainValue, BaseType, NestedOperands
    <3>2. base \in ColumnTypes /\ ReturnTypeHint[operand.name] # "decimal"
      BY <1>7, <1>9, <2>4 DEF Checked, MaybeType
    <3>3. \A i \in DOMAIN operand.args :
            /\ argTypes[i] = type[operand.args[i]].full /\ argTypes[i] \in MaybeType
            /\ ValueOfType(argValues[i], argTypes[i])
      BY <1>1, <1>2, <1>3, <3>1, OperandShape, TypesOfOperands
    <3>4. \A i \in DOMAIN operand.args :
            argTypes[i] = Unknown \/ ArgumentMatches(argTypes[i], ArgumentHint[operand.name][i])
      BY <2>4, <3>3 DEF Checked, ArgumentIssues
    <3>5. /\ DOMAIN argTypes = DOMAIN operand.args /\ DOMAIN argValues = DOMAIN operand.args
          /\ argTypes = [i \in DOMAIN operand.args |-> argTypes[i]]
      BY <1>2, <1>3, <3>1
    <3>6. ValueOfType(Function(operand.name, argValues), FunctionType(operand.name, argTypes))
      BY <2>4, <3>1, <3>2, <3>3, <3>4, <3>5, ResultFits
    <3>. QED BY <3>1, <3>6
  <2>. QED BY <1>10, <2>1, <2>2, <2>3, <2>4 DEF WellFormedOperand
<1>12. CASE base \in ColumnTypes
  <2>1. TypeWithDefault(operand, base) = base
    BY <1>12, ColumnKinds DEF TypeWithDefault, Known
  <2>2. ValueOfType(default.value, base)
    BY <1>6, <1>7, <1>12, DefaultHolds DEF Checked
  <2>. QED BY <1>7, <1>8, <1>11, <2>1, <2>2
<1>13. CASE base = Unknown
  <2>1. plain = None /\ value[operand] = default.value
    BY <1>8, <1>11, <1>13, NoValueOfUnknown
  <2>2. ValueOfType(default.value, BaseLiteralType(default))
    BY <1>10 DEF LiteralFits, ValueOfType
  <2>3. operand.kind # "custom_function"
    BY <1>7, <1>13 DEF Checked
  <2>4. CASE operand.kind \in {"field", "assigned"}
    <3>1. TypeWithDefault(operand, base) = BaseLiteralType(default)
      BY <1>6, <1>13, <2>4 DEF TypeWithDefault
    <3>. QED BY <1>7, <2>1, <2>2, <3>1
  <2>5. CASE operand.kind = "literal"
    <3>1. plain = operand.value
      BY <1>5, <2>5 DEF PlainValue
    <3>2. default.value = None
      BY <1>6, <2>1, <2>5, <3>1 DEF LiteralsPlain
    <3>. QED BY <2>1, <3>2 DEF ValueOfType
  <2>. QED BY <1>10, <2>3, <2>4, <2>5 DEF WellFormedOperand
<1>. QED BY <1>9, <1>12, <1>13 DEF MaybeType

(* Whatever is checked all the way down has a value of its inferred type.  *)
LEMMA ValuesFit ==
  ASSUME RowsFitSource, LiteralsPlain, FunctionsKeepContract,
         NEW r \in Rows, NEW assigned \in [Targets -> MaybeType], NEW stored,
         \A t \in Targets : Holds(assigned[t], stored[t]),
         NEW type, type = OperandTypes(Source, assigned),
         NEW value, value = Resolution(r, stored),
         NEW operand \in Operands, \A o \in Tree[operand] : Checked(o, type)
  PROVE  ValueOfType(value[operand], type[operand].full)
<1> DEFINE Below(o) == \A p \in Tree[o] : Checked(p, type)
           T == {k \in Nat : \A o \in Operands :
                   OperandDepth[o] < k /\ Below(o) => ValueOfType(value[o], type[o].full)}
<1>1. 0 \in T
  BY OperandShape
<1>2. ASSUME NEW k \in Nat, k \in T PROVE k + 1 \in T
  <2>1. ASSUME NEW o \in Operands, OperandDepth[o] < k + 1, Below(o)
        PROVE  ValueOfType(value[o], type[o].full)
    <3>1. ASSUME NEW i \in DOMAIN NestedOperands(o)
          PROVE  ValueOfType(value[NestedOperands(o)[i]], type[NestedOperands(o)[i]].full)
      <4>1. PICK arg : arg = NestedOperands(o)[i]
        OBVIOUS
      <4>2. /\ arg \in Operands /\ OperandDepth[arg] < OperandDepth[o]
            /\ OperandDepth[arg] \in Nat /\ OperandDepth[o] \in Nat
        BY <4>1, OperandShape
      <4>3. Tree[arg] \subseteq Tree[o]
        BY <4>1, TreeOfOperand
      <4>4. OperandDepth[arg] < k /\ Below(arg)
        BY <2>1, <4>2, <4>3
      <4>. QED BY <1>2, <4>1, <4>2, <4>4
    <3>2. Checked(o, type)
      BY <2>1, TreeOfOperand
    <3>. QED BY <3>1, <3>2, ValueFits
  <2>. QED BY <2>1
<1>3. Nat \subseteq T
  <2> HIDE DEF T
  <2>. QED BY <1>1, <1>2, Inductive
<1>4. PICK d : d = OperandDepth[operand]
  OBVIOUS
<1>5. d \in Nat /\ d + 1 \in T /\ d < d + 1
  BY <1>3, <1>4, OperandShape
<1>. QED BY <1>4, <1>5

(***************************************************************************)
(* What an accepted ruleset stores.                                        *)
(***************************************************************************)
LiteralsHeld(target) ==
  issues = {} =>
    \A a \in AssignmentsOf(target) :
      a.value.kind = "literal" => ValueOfType(a.value.value, resolved[target])

(* Literals are values of the types their targets are resolved to, the     *)
(* operands of an accepted ruleset have no issue, and rows are those of    *)
(* the schema.                                                             *)
Promises ==
  /\ stage = "resolve" => \A t \in Assigned \ unresolved : LiteralsHeld(t)
  /\ stage \notin {"infer", "resolve"} => \A t \in Assigned : LiteralsHeld(t)
  /\ Accepted => OperandIssues = {}
  /\ stage \in {"evaluate", "done"} => row \in Rows
  /\ stage # "done" => failed = NoId

(* A rule has one assignment to a target.                                  *)
LEMMA OnlyAssignment ==
  ASSUME ruleset \in Rulesets, NEW i \in DOMAIN ruleset, NEW a \in ToSet(ruleset[i])
  PROVE  /\ Assigns(ruleset[i], a.target_field)
         /\ AssignmentTo(ruleset[i], a.target_field) = a
<1>1. PICK t : t = a.target_field
  OBVIOUS
<1>2. Assigns(ruleset[i], t)
  BY <1>1 DEF Assigns
<1>3. PICK b : b = AssignmentTo(ruleset[i], t)
  OBVIOUS
<1>4. b \in ToSet(ruleset[i]) /\ b.target_field = t
  BY <1>2, <1>3 DEF Assigns, AssignmentTo
<1>5. WellFormedRule(ruleset[i])
  BY RulesOfRuleset
<1>. QED BY <1>1, <1>2, <1>3, <1>4, <1>5 DEF WellFormedRule

(* The identifier of an assignment is its own.                             *)
LEMMA Identified ==
  ASSUME ruleset \in Rulesets, NEW a \in AllAssignments
  PROVE  AssignmentById(a.assignment_id) = a
<1> DEFINE assignments == UNION {ToSet(rule) : rule \in ToSet(ruleset)}
<1>1. \A b, c \in assignments : b.assignment_id = c.assignment_id => b = c
  BY PreflightAssumption DEF PreflightAssumption
<1>2. AllAssignments \subseteq assignments
  BY DEF AllAssignments, ToSet
<1>3. PICK b : b = AssignmentById(a.assignment_id)
  OBVIOUS
<1>4. b \in AllAssignments /\ b.assignment_id = a.assignment_id
  BY <1>3 DEF AssignmentById
<1>. QED BY <1>1, <1>2, <1>3, <1>4

(* A literal has the type it is inferred to be of, unless it is None.      *)
LEMMA LiteralTyped ==
  ASSUME LiteralsPlain, NEW o \in Operands, o.kind = "literal", o.value # None,
         NEW assigned, NEW type, type = OperandTypes(Source, assigned)
  PROVE  /\ IsLiteral(o) /\ LiteralFits(o)
         /\ type[o].full = BaseLiteralType(o)
         /\ BaseLiteralType(o) \in ColumnTypes /\ ValueOfType(o.value, BaseLiteralType(o))
<1>1. IsLiteral(o) /\ LiteralFits(o)
  BY OperandShape DEF WellFormedOperand, LiteralsPlain
<1>2. BaseLiteralType(o) # Unknown /\ ValueOfType(o.value, BaseLiteralType(o))
  BY <1>1 DEF LiteralFits
<1>3. BaseLiteralType(o) \in ColumnTypes
  BY <1>1, <1>2, LiteralTypes DEF MaybeType
<1>4. PICK argTypes : argTypes = [i \in DOMAIN NestedOperands(o) |->
                                    type[NestedOperands(o)[i]].full]
  OBVIOUS
<1>5. type[o].full = TypeWithDefault(o, BaseType(o, Source, assigned, argTypes))
  <2>1. type[o] = TypeFrom(o, assigned, type)
    BY OperandTypesUnfold
  <2>. QED BY <1>4, <2>1 DEF TypeFrom
<1>6. BaseType(o, Source, assigned, argTypes) = BaseLiteralType(o)
  BY DEF BaseType
<1>7. type[o].full = BaseLiteralType(o)
  BY <1>2, <1>5, <1>6 DEF TypeWithDefault
<1>. QED BY <1>1, <1>2, <1>3, <1>7

(* A compatible literal is a value of its target's type.                   *)
LEMMA CompatibleHolds ==
  ASSUME LiteralsPlain, NEW a, a.value \in Operands, a.value.kind = "literal",
         NEW assigned, NEW type, type = OperandTypes(Source, assigned),
         NEW t \in ColumnTypes,
         a.value.value # None => AssignmentIsCompatible(a, type[a.value].full, t)
  PROVE  ValueOfType(a.value.value, t)
<1>1. PICK o : o = a.value
  OBVIOUS
<1>2. CASE o.value = None
  BY <1>1, <1>2 DEF ValueOfType
<1>3. CASE o.value # None
  <2>1. IsLiteral(o) /\ LiteralFits(o) /\ type[o].full = BaseLiteralType(o)
    BY <1>1, <1>3, LiteralTyped
  <2>2. \/ LiteralDecision(o, t) = "fits"
        \/ LiteralDecision(o, t) = "undecided" /\ FitsType(BaseLiteralType(o), t)
    BY <1>1, <1>3, <2>1 DEF AssignmentIsCompatible
  <2>. QED BY <1>1, <2>1, <2>2, CompatibleLiteral
<1>. QED BY <1>2, <1>3

(* A target that is resolved without an issue holds its literals           *)
(* (_resolve_assignment_types).                                            *)
LEMMA ResolvedHolds ==
  ASSUME LiteralsPlain, IInv, NEW target \in Assigned,
         NEW type, type = OperandTypes(Source, available),
         ResolveExisting(target, type) \/ ResolveNew(target, type), issues' = {},
         NEW a \in AssignmentsOf(target), a.value.kind = "literal"
  PROVE  ValueOfType(a.value.value, resolved'[target])
<1>1. ruleset \in Rulesets /\ available \in [Targets -> MaybeType]
  BY DEF IInv, Shape
<1>2. /\ a \in AllAssignments /\ a.target_field = target
      /\ a.value \in Operands /\ target \in Targets
  BY <1>1, AssignmentsOfRuleset DEF AssignmentsOf
<1>3. resolved \in [Targets -> MaybeType]
  BY DEF IInv, Shape
<1>4. CASE ResolveExisting(target, type)
  <2>1. resolved'[target] = Source[target] /\ Source[target] \in ColumnTypes
    BY <1>2, <1>3, <1>4, ExistingTypes DEF ResolveExisting
  <2> DEFINE misfits == {b \in AssignmentsOf(target) :
                           IF type[b.value].full = Unknown
                           THEN b.value.kind = "literal"
                                /\ LiteralDecision(b.value, Source[target]) = "misfit"
                           ELSE ~AssignmentIsCompatible(b, type[b.value].full, Source[target])}
  <2>2. PICK other : issues' = other \cup {<<"TARGET_TYPE_INCOMPATIBLE", b.assignment_id>> :
                                             b \in misfits}
    BY <1>4 DEF ResolveExisting
  <2>3. misfits = {}
    <3> HIDE DEF misfits
    <3>. QED BY <2>2
  <2>4. type[a.value].full # Unknown =>
          AssignmentIsCompatible(a, type[a.value].full, Source[target])
    BY <2>3
  <2>5. a.value.value # None => type[a.value].full # Unknown
    BY <1>2, LiteralTyped, ColumnKinds DEF Known
  <2>. QED BY <1>2, <2>1, <2>4, <2>5, CompatibleHolds
<1>5. CASE ResolveNew(target, type)
  <2>1. PICK types : types = TypesAssigned(target, type)
    OBVIOUS
  <2>2. resolved'[target] = CommonOf(types)
    BY <1>2, <1>3, <1>5, <2>1 DEF ResolveNew
  <2>3. ~Conflicting(types)
    <3>1. PICK other : issues' = issues \cup (IF Conflicting(types)
                                            THEN {<<"TYPE_CONFLICT", target>>} ELSE {})
                                         \cup other
      BY <1>5, <2>1 DEF ResolveNew
    <3>. QED BY <3>1
  <2>4. PICK n \in Nat : DOMAIN ruleset = 1 .. n
    BY <1>1, RulesOfRuleset
  <2>5. types = [i \in 1 .. n |->
                   IF Assigns(ruleset[i], target)
                   THEN type[AssignmentTo(ruleset[i], target).value].full ELSE Unknown]
    BY <2>1, <2>4 DEF TypesAssigned
  <2>6. ASSUME NEW i \in 1 .. n, Assigns(ruleset[i], target)
        PROVE  type[AssignmentTo(ruleset[i], target).value].full \in MaybeType
    BY <1>1, <2>4, <2>6, AssignmentOfRule, TypesOfOperands
  <2>7. types \in Seq(MaybeType)
    <3>1. types \in [1 .. n -> MaybeType]
      BY <2>5, <2>6 DEF MaybeType
    <3>. QED BY <3>1, SeqDef
  <2>8. PICK i \in 1 .. n : a \in ToSet(ruleset[i])
    BY <1>1, <1>2, <2>4, RulesOfRuleset
  <2>9. i \in DOMAIN types /\ types[i] = type[a.value].full
    BY <1>1, <1>2, <2>4, <2>5, <2>8, OnlyAssignment
  <2>10. CASE a.value.value = None
    BY <2>10 DEF ValueOfType
  <2>11. CASE a.value.value # None
    <3>1. types[i] # Unknown /\ ValueOfType(a.value.value, types[i])
      BY <1>2, <2>9, <2>11, LiteralTyped, ColumnKinds DEF Known
    <3>. QED BY <2>2, <2>3, <2>7, <2>9, <3>1, CommonOfHolds
  <2>. QED BY <2>10, <2>11
<1>. QED BY <1>4, <1>5

(* The operands of an accepted ruleset have passed their checks.           *)
LEMMA OperandsChecked ==
  ASSUME OperandIssues = {}, NEW a \in AllAssignments, NEW o \in Tree[a.value],
         NEW type, type = OperandTypes(Source, resolved)
  PROVE  /\ DefaultIssues(o, type[o].base) = {}
         /\ o.kind = "custom_function" => ArgumentIssues(o, type) = {}
<1> DEFINE of(p) == DefaultIssues(p, type[p].base) \cup
                      (IF p.kind = "custom_function" THEN ArgumentIssues(p, type) ELSE {})
           reports(b) == UNION {of(p) : p \in Tree[b.value]}
<1>1. OperandIssues = UNION {reports(b) \X {b.assignment_id} : b \in AllAssignments}
  BY DEF OperandIssues, OperandIssuesAgainst
<1>2. of(o) = {}
  <2>1. SUFFICES ASSUME NEW check \in of(o) PROVE FALSE
    OBVIOUS
  <2>2. check \in reports(a)
    <3> HIDE DEF of
    <3>. QED BY <2>1
  <2>3. <<check, a.assignment_id>> \in reports(a) \X {a.assignment_id}
    <3> HIDE DEF reports
    <3>. QED BY <2>2
  <2>4. <<check, a.assignment_id>> \in OperandIssues
    <3> HIDE DEF reports
    <3>. QED BY <1>1, <2>3
  <2>. QED BY <2>4
<1>. QED BY <1>2

(* An operand that does not depend on data has a value of its type.        *)
LEMMA IndependentFits ==
  ASSUME RowsFitSource, LiteralsPlain, FunctionsKeepContract,
         IInv, OperandIssues = {}, row \in Rows,
         NEW a \in AllAssignments, NEW operand \in Tree[a.value], ~DataDependent(operand)
  PROVE  /\ operand \in Operands
         /\ OperandTypes(Source, resolved)[operand].full \in MaybeType
         /\ ValueOfType(Resolution(row, committed)[operand],
                        OperandTypes(Source, resolved)[operand].full)
<1>1. PICK type : type = OperandTypes(Source, resolved)
  OBVIOUS
<1>2. PICK value : value = Resolution(row, committed)
  OBVIOUS
<1>3. PICK assigned : assigned = resolved
  OBVIOUS
<1>4. PICK stored : stored = committed
  OBVIOUS
<1>5. PICK r : r = row
  OBVIOUS
<1>6. /\ ruleset \in Rulesets /\ assigned \in [Targets -> MaybeType]
      /\ \A t \in Targets : Holds(assigned[t], stored[t])
  BY <1>3, <1>4 DEF IInv, Shape, Columns
<1>7. a.value \in Operands
  BY <1>6, AssignmentsOfRuleset
<1>8. operand \in Operands /\ Tree[operand] \subseteq Tree[a.value]
  BY <1>7, TreesNest
<1>9. \A o \in Tree[operand] : Checked(o, type)
  <2>1. ASSUME NEW o \in Tree[operand] PROVE Checked(o, type)
    <3>1. /\ DefaultIssues(o, type[o].base) = {}
          /\ o.kind = "custom_function" => ArgumentIssues(o, type) = {}
      BY <1>1, <1>8, OperandsChecked
    <3>2. o.kind = "custom_function" =>
            type[o].base # Unknown /\ ReturnTypeHint[o.name] # "decimal"
      BY <1>1 DEF DataDependent
    <3>. QED BY <3>1, <3>2 DEF Checked
  <2>. QED BY <2>1
<1>10. r \in Rows /\ type = OperandTypes(Source, assigned) /\ value = Resolution(r, stored)
  BY <1>1, <1>2, <1>3, <1>4, <1>5
<1>11. ValueOfType(value[operand], type[operand].full)
  BY <1>6, <1>8, <1>9, <1>10, ValuesFit
<1>12. type[operand].full \in MaybeType
  BY <1>6, <1>8, <1>10, TypesOfOperands
<1>. QED BY <1>1, <1>2, <1>8, <1>11, <1>12

(* A literal resolves to itself, whatever the row.                         *)
LEMMA LiteralResolved ==
  ASSUME LiteralsPlain, NEW o \in Operands, o.kind = "literal"
  PROVE  Resolution(row, committed)[o] = o.value
<1>1. PICK value : value = Resolution(row, committed)
  OBVIOUS
<1>2. PICK r : r = row
  OBVIOUS
<1>3. PICK stored : stored = committed
  OBVIOUS
<1>4. value[o] = ValueFrom(o, r, stored, value)
  BY <1>1, <1>2, <1>3, ResolutionUnfold
<1>5. PICK argValues : argValues = [i \in DOMAIN NestedOperands(o) |->
                                      value[NestedOperands(o)[i]]]
  OBVIOUS
<1>6. PlainValue(o, r, stored, argValues) = o.value
  BY DEF PlainValue
<1>7. value[o] = IF o.value = None THEN o.default_if_null.value ELSE o.value
  BY <1>4, <1>5, <1>6 DEF ValueFrom
<1>8. o.value = None => o.default_if_null.value = None
  BY DEF LiteralsPlain
<1>. QED BY <1>1, <1>7, <1>8

(* A value that does not depend on data is stored, where the resolved      *)
(* types agree.                                                            *)
LEMMA IndependentStored ==
  ASSUME RowsFitSource, LiteralsPlain, FunctionsKeepContract,
         IInv, Accepted, OperandIssues = {}, row \in Rows, AssignmentsConsistent,
         NEW a \in AllAssignments, ~DataDependent(a.value)
  PROVE  Stored(a) # Raised
<1>1. PICK t : t = resolved[a.target_field]
  OBVIOUS
<1>2. PICK v : v = Resolution(row, committed)[a.value]
  OBVIOUS
<1>3. PICK type : type = OperandTypes(Source, resolved)
  OBVIOUS
<1>4. a.value \in Operands /\ a.value \in Tree[a.value]
  BY AssignmentsOfRuleset, TreeOfOperand DEF IInv, Shape
<1>5. t \in ColumnTypes
  BY <1>1, AcceptedTyped DEF Assigned
<1>6. type[a.value].full \in MaybeType /\ ValueOfType(v, type[a.value].full)
  BY <1>2, <1>3, <1>4, IndependentFits
<1>7. ValueOfType(v, t)
  <2>1. CASE type[a.value].full = Unknown
    <3>1. v = None
      BY <1>6, <2>1, NoValueOfUnknown
    <3>. QED BY <3>1 DEF ValueOfType
  <2>2. CASE type[a.value].full \in ColumnTypes
    <3>1. AssignmentIsCompatible(a, type[a.value].full, t)
      BY <1>1, <1>3, <2>2, ColumnKinds DEF AssignmentsConsistent, Known
    <3>2. CASE a.value.kind = "literal"
      <4>1. ValueOfType(a.value.value, t)
        BY <1>3, <1>4, <1>5, <3>1, <3>2, CompatibleHolds
      <4>2. v = a.value.value
        BY <1>2, <1>4, <3>2, LiteralResolved
      <4>. QED BY <4>1, <4>2
    <3>3. CASE a.value.kind # "literal"
      <4>1. ~(a.value.kind = "custom_function" /\ ReturnTypeHint[a.value.name] = "decimal")
        BY <1>4 DEF DataDependent
      <4>2. FitsType(type[a.value].full, t)
        BY <3>1, <3>3, <4>1 DEF AssignmentIsCompatible
      <4>. QED BY <1>5, <1>6, <2>2, <4>2, FittingHolds
    <3>. QED BY <3>2, <3>3
  <2>. QED BY <1>6, <2>1, <2>2 DEF MaybeType
<1>8. SparkAssignmentValue(v, t) # Raised
  BY <1>5, <1>7, ValuesAreStored
<1>. QED BY <1>1, <1>2, <1>8 DEF Stored

(* Nothing is accepted and no row has failed at the start.                 *)
LEMMA InitPromises == Init => Promises
BY DEF Init, Promises, Accepted

(* Every step keeps literals, checks and the row as they are promised.     *)
LEMMA StepPromises ==
  ASSUME LiteralsPlain, IInv, Promises, [Next]_vars
  PROVE  Promises'
<1>1. stage' # "done" => failed' = NoId
  <2>1. RowRaises => stage' = "done"
    BY DEF RowRaises
  <2>2. CASE ~RowRaises
    <3>1. UNCHANGED failed /\ (stage = "done" => stage' = "done")
      BY <2>2 DEF Next, vars, InferRule, StartResolution, ResolveTarget, StartChecks,
                  CheckOperands, StartRow, SkipRule, ApplyRule, FinishRow
    <3>. QED BY <3>1 DEF Promises
  <2>. QED BY <2>1, <2>2
<1>2. UNCHANGED ruleset
  BY DEF Next, vars, InferRule, StartResolution, ResolveTarget, StartChecks,
         CheckOperands, StartRow, SkipRule, ApplyRule, RowRaises, FinishRow
<1>3. /\ AllAssignments' = AllAssignments /\ Assigned' = Assigned
      /\ \A t : AssignmentsOf(t)' = AssignmentsOf(t)
  BY <1>2 DEF AllAssignments, Assigned, AssignmentsOf
<1>4. CASE ResolveTarget
  <2>1. /\ stage = "resolve" /\ stage' = "resolve" /\ unresolved # {}
        /\ unresolved \subseteq Assigned /\ Shape
    BY <1>4 DEF IInv, Shape, ResolveTarget
  <2>2. PICK target : target = CHOOSE t \in unresolved : TRUE
    OBVIOUS
  <2>3. target \in unresolved /\ target \in Assigned
    BY <2>1, <2>2
  <2>4. PICK type : type = OperandTypes(Source, available)
    OBVIOUS
  <2>5. /\ ResolveExisting(target, type) \/ ResolveNew(target, type)
        /\ unresolved' = unresolved \ {target}
    BY <1>4, <2>2, <2>4 DEF ResolveTarget
  <2>6. /\ issues \subseteq issues'
        /\ \A t \in Targets : t # target => resolved'[t] = resolved[t]
    BY <2>1, <2>3, <2>4, <2>5, ExistingSettled, NewSettled
  <2>7. ASSUME NEW t \in Assigned \ unresolved', issues' = {},
               NEW a \in AssignmentsOf(t), a.value.kind = "literal"
        PROVE  ValueOfType(a.value.value, resolved'[t])
    <3>1. CASE t = target
      BY <2>3, <2>4, <2>5, <2>7, <3>1, ResolvedHolds
    <3>2. CASE t # target
      <4>1. t \in Assigned \ unresolved /\ t \in Targets
        BY <2>1, <2>5, <2>7, <3>2, AssignedTargets DEF Shape
      <4>2. issues = {} /\ resolved'[t] = resolved[t]
        BY <2>6, <2>7, <3>2, <4>1
      <4>. QED BY <2>1, <2>7, <4>1, <4>2 DEF Promises, LiteralsHeld
    <3>. QED BY <3>1, <3>2
  <2>8. \A t \in Assigned' \ unresolved' : LiteralsHeld(t)'
    BY <1>3, <2>7 DEF LiteralsHeld
  <2>. QED BY <1>1, <2>1, <2>8 DEF Promises, Accepted
<1>5. ASSUME UNCHANGED resolved, issues \subseteq issues', NEW t, LiteralsHeld(t)
      PROVE  LiteralsHeld(t)'
  BY <1>3, <1>5 DEF LiteralsHeld
<1>6. UNCHANGED resolved => OperandIssues' = OperandIssues
  BY <1>3 DEF OperandIssues, OperandIssuesAgainst
<1>7. CASE InferRule \/ StartResolution
  <2>1. \/ stage' = "infer"
        \/ stage' = "resolve" /\ unresolved' = Assigned
    BY <1>7 DEF InferRule, StartResolution
  <2>2. stage' = "resolve" => Assigned' \ unresolved' = {}
    BY <1>3, <2>1
  <2>. QED BY <1>1, <2>1, <2>2 DEF Promises, Accepted
<1>8. CASE StartChecks
  <2>1. \A t \in Assigned : LiteralsHeld(t)
    BY <1>8 DEF Promises, StartChecks
  <2>2. UNCHANGED resolved /\ issues \subseteq issues' /\ stage' = "check"
    BY <1>8 DEF StartChecks
  <2>. QED BY <1>1, <1>3, <1>5, <2>1, <2>2 DEF Promises, Accepted
<1>9. CASE CheckOperands
  <2>1. \A t \in Assigned : LiteralsHeld(t)
    BY <1>9 DEF Promises, CheckOperands
  <2>2. /\ UNCHANGED resolved /\ issues' = issues \cup OperandIssues
        /\ stage' = IF issues' = {} THEN "accepted" ELSE "rejected"
    BY <1>9 DEF CheckOperands
  <2>3. Accepted' => OperandIssues' = {}
    BY <1>6, <2>2 DEF Accepted
  <2>. QED BY <1>1, <1>3, <1>5, <2>1, <2>2, <2>3 DEF Promises
<1>10. CASE StartRow \/ SkipRule \/ ApplyRule \/ RowRaises \/ FinishRow
  <2>1. /\ Accepted /\ stage \notin {"infer", "resolve"}
        /\ stage' \in {"evaluate", "done"} /\ UNCHANGED <<resolved, issues>>
    BY <1>10 DEF Accepted, StartRow, SkipRule, ApplyRule, RowRaises, FinishRow
  <2>2. row' \in Rows
    BY <1>10 DEF Promises, StartRow, SkipRule, ApplyRule, RowRaises, FinishRow
  <2>3. OperandIssues = {} /\ \A t \in Assigned : LiteralsHeld(t)
    BY <2>1 DEF Promises
  <2>. QED BY <1>1, <1>3, <1>5, <1>6, <2>1, <2>2, <2>3 DEF Promises
<1>11. CASE UNCHANGED vars
  <2>1. UNCHANGED <<ruleset, stage, unresolved, resolved, issues, row>>
    BY <1>11 DEF vars
  <2>2. \A t : LiteralsHeld(t) => LiteralsHeld(t)'
    BY <1>5, <2>1
  <2>3. Accepted' = Accepted /\ OperandIssues' = OperandIssues
    BY <1>6, <2>1 DEF Accepted
  <2>. QED BY <1>1, <1>3, <2>1, <2>2, <2>3 DEF Promises
<1>. QED BY <1>4, <1>7, <1>8, <1>9, <1>10, <1>11 DEF Next

(* The promises hold in every reachable state.                             *)
LEMMA PromisesInvariance == ASSUME LiteralsPlain PROVE Spec => []Promises
<1>1. IInv /\ Promises /\ [Next]_vars => Promises'
  BY StepPromises
<1>. QED BY InitPromises, Invariance, <1>1, PTL DEF Spec

(* No literal of an accepted ruleset is refused when a row stores it.      *)
THEOREM LiteralsAreStored == ASSUME LiteralsPlain PROVE Spec => []LiteralsFit
<1>1. ASSUME IInv, Promises PROVE LiteralsFit
  <2>1. SUFFICES ASSUME Accepted, NEW a \in AllAssignments, a.value.kind = "literal"
                 PROVE  SparkAssignmentValue(Resolution(row, committed)[a.value],
                                             resolved[a.target_field]) # Raised
    BY DEF LiteralsFit
  <2>2. PICK t : t = a.target_field
    OBVIOUS
  <2>3. t \in Assigned /\ a \in AssignmentsOf(t) /\ a.value \in Operands
    BY <1>1, <2>2, AssignmentsOfRuleset DEF IInv, Shape, Assigned, AssignmentsOf
  <2>4. issues = {} /\ LiteralsHeld(t)
    BY <1>1, <2>1, <2>3 DEF IInv, Outcome, Promises, Accepted
  <2>5. ValueOfType(a.value.value, resolved[t])
    BY <2>1, <2>3, <2>4 DEF LiteralsHeld
  <2>6. resolved[t] \in ColumnTypes
    BY <1>1, <2>1, <2>3, AcceptedTyped
  <2>7. Resolution(row, committed)[a.value] = a.value.value
    BY <2>1, <2>3, LiteralResolved
  <2>. QED BY <2>2, <2>5, <2>6, <2>7, ValuesAreStored
<1>. QED BY Invariance, PromisesInvariance, <1>1, PTL

(* A function of an accepted ruleset gets what its contract declares, be   *)
(* it a field, a literal, a default, a value assigned by an earlier rule   *)
(* or the result of another function.                                      *)
THEOREM ArgumentsAreInContract ==
  ASSUME RowsFitSource, LiteralsPlain, FunctionsKeepContract
  PROVE  Spec => []ArgumentsFitContract
<1>1. ASSUME IInv, Promises PROVE ArgumentsFitContract
  <2>1. SUFFICES ASSUME stage = "evaluate", next <= Len(ruleset),
                        NEW a \in ToSet(ruleset[next]), NEW o \in Tree[a.value],
                        o.kind = "custom_function", NEW i \in DOMAIN o.args,
                        ~DataDependent(o.args[i])
                 PROVE  InContract(Resolution(row, committed)[o.args[i]],
                                   ArgumentHint[o.name][i])
    BY DEF ArgumentsFitContract
  <2>2. PICK type : type = OperandTypes(Source, resolved)
    OBVIOUS
  <2>3. PICK arg : arg = o.args[i]
    OBVIOUS
  <2>4. PICK hint : hint = ArgumentHint[o.name][i]
    OBVIOUS
  <2>5. PICK v : v = Resolution(row, committed)[arg]
    OBVIOUS
  <2>6. ruleset \in Rulesets /\ next \in DOMAIN ruleset
    BY <1>1, <2>1, RulesOfRuleset DEF IInv, Shape
  <2>7. a \in AllAssignments /\ a.value \in Operands
    BY <2>6, RulesOfRuleset, AssignmentsOfRuleset
  <2>8. OperandIssues = {} /\ row \in Rows
    BY <1>1, <2>1 DEF Promises, Accepted
  <2>9. o \in Operands /\ Tree[o] \subseteq Tree[a.value]
    BY <2>7, TreesNest
  <2>10. arg \in Operands /\ Tree[arg] \subseteq Tree[o] /\ arg \in Tree[arg]
    <3>1. NestedOperands(o) = o.args
      BY <2>1 DEF NestedOperands
    <3>. QED BY <2>3, <2>9, <3>1, OperandShape, TreeOfOperand
  <2>11. type[arg].full \in MaybeType /\ ValueOfType(v, type[arg].full)
    BY <1>1, <2>1, <2>2, <2>3, <2>5, <2>7, <2>8, <2>9, <2>10, IndependentFits
  <2>12. type[arg].full = Unknown \/ ArgumentMatches(type[arg].full, hint)
    <3>1. ArgumentIssues(o, type) = {}
      BY <2>1, <2>2, <2>7, <2>8, OperandsChecked
    <3>. QED BY <2>3, <2>4, <3>1 DEF ArgumentIssues
  <2>. QED BY <2>3, <2>4, <2>5, <2>11, <2>12, MatchingHolds
<1>. QED BY Invariance, PromisesInvariance, <1>1, PTL

(* No step but that of a row that fails records a failure.                 *)
LEMMA NoFailure ==
  ASSUME Promises, FailuresDataDependent, [Next]_vars, ~RowRaises
  PROVE  FailuresDataDependent'
<1>1. CASE UNCHANGED vars
  <2>1. UNCHANGED <<ruleset, stage, resolved, failed>>
    BY <1>1 DEF vars
  <2>2. FailuresDataDependent' = FailuresDataDependent
    BY <2>1 DEF FailuresDataDependent, AssignmentsConsistent, Accepted, AllAssignments,
                AssignmentById, DataDependent
  <2>. QED BY <2>2
<1>2. CASE Next
  <2>1. stage # "done" /\ failed' = failed
    BY <1>2 DEF Next, InferRule, StartResolution, ResolveTarget, StartChecks,
                CheckOperands, StartRow, SkipRule, ApplyRule, FinishRow
  <2>2. failed' = NoId
    BY <2>1 DEF Promises
  <2>. QED BY <2>2 DEF FailuresDataDependent
<1>. QED BY <1>1, <1>2

(* A row that fails does so because of a function's result.                *)
LEMMA FailureExplained ==
  ASSUME RowsFitSource, LiteralsPlain, FunctionsKeepContract, IInv, Promises, RowRaises
  PROVE  FailuresDataDependent'
<1>1. /\ ruleset \in Rulesets /\ next \in DOMAIN ruleset
      /\ stage = "evaluate" /\ stage' = "done"
      /\ UNCHANGED <<ruleset, resolved>>
  BY RulesOfRuleset DEF IInv, Shape, RowRaises
<1>2. PICK i \in DOMAIN ruleset[next] :
        Stored(ruleset[next][i]) = Raised /\ failed' = ruleset[next][i].assignment_id
  BY DEF RowRaises
<1>3. PICK a : a = ruleset[next][i]
  OBVIOUS
<1>4. a \in AllAssignments
  BY <1>1, <1>3, RulesOfRuleset DEF ToSet
<1>5. AllAssignments' = AllAssignments
  BY <1>1 DEF AllAssignments
<1>6. AssignmentById(failed') = a
  BY <1>1, <1>2, <1>3, <1>4, Identified
<1>7. AssignmentsConsistent' = AssignmentsConsistent
  BY <1>1, <1>5 DEF AssignmentsConsistent, Accepted
<1>8. AssignmentsConsistent => DataDependent(a.value)
  <2>1. Accepted /\ OperandIssues = {} /\ row \in Rows
    BY <1>1 DEF Promises, Accepted
  <2>. QED BY <1>2, <1>3, <1>4, <2>1, IndependentStored
<1>9. DataDependent(AssignmentById(failed).value)' <=> DataDependent(a.value)
  <2>1. AssignmentById(failed)' = a
    BY <1>5, <1>6 DEF AssignmentById
  <2>. QED BY <1>1, <2>1 DEF DataDependent
<1>. QED BY <1>7, <1>8, <1>9 DEF FailuresDataDependent

(* Where the resolved types agree, a row of an accepted ruleset fails only *)
(* because of a function whose type says too little before evaluation.     *)
THEOREM FailuresAreDataDependent ==
  ASSUME RowsFitSource, LiteralsPlain, FunctionsKeepContract
  PROVE  Spec => []FailuresDataDependent
<1>1. Init => FailuresDataDependent
  BY DEF Init, FailuresDataDependent
<1>2. IInv /\ Promises /\ FailuresDataDependent /\ [Next]_vars => FailuresDataDependent'
  BY FailureExplained, NoFailure
<1>. QED BY <1>1, <1>2, Invariance, PromisesInvariance, PTL DEF Spec
=============================================================================
