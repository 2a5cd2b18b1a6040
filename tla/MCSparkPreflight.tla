-------------------------- MODULE MCSparkPreflight --------------------------
(***************************************************************************)
(* A schema of one column per kind of type, and rulesets of a few rules of *)
(* a pool in any order.  A byte holds -8..7 and a long -64..63; decimals   *)
(* have at most three digits, so that precision runs out as it does in     *)
(* Spark between a long and a literal of many digits.                      *)
(***************************************************************************)
EXTENDS SparkPreflight

CONSTANTS
  PoolIds,    \* which rules of the pool the rulesets use
  MaxRules    \* how many rules a ruleset has

MCIntegralMax == [byte |-> 7, long |-> 63]
MCIntegralDigits == [byte |-> 1, long |-> 2]

MCSource ==
  [small |-> Type("byte"), big |-> Long, ratio |-> Double, price |-> Decimal(2, 1),
   label |-> Type("string"), blank |-> Void]

MCReturnTypeHint ==
  [coalesce |-> "common_type", null_if |-> "same_as", to_decimal |-> "decimal",
   pick |-> "any", pad |-> "string"]
MCArgumentHint ==
  [coalesce |-> <<"any", "any">>, null_if |-> <<"any", "any">>, to_decimal |-> <<"any">>,
   pick |-> <<"any">>, pad |-> <<"integer">>]
MCFunction(name, args) ==
  CASE name = "coalesce" -> IF args[1] = None THEN args[2] ELSE args[1]
    [] name = "null_if" -> IF args[1] = args[2] THEN None ELSE args[1]
    [] name = "to_decimal" -> IF IsNumber(args[1]) THEN Dec(args[1].at) ELSE None
    [] name = "pick" -> args[1]
    [] name = "pad" -> IF args[1] = None THEN None ELSE Text(args[1].at)

Lit(v, exponent, hint) ==
  [kind |-> "literal", value |-> v, exponent |-> exponent, value_type |-> hint,
   default_if_null |-> NoDefault]
Fallback(v, exponent) == [value |-> v, exponent |-> exponent, value_type |-> NoHint]
Field(f) == [kind |-> "field", name |-> f, default_if_null |-> NoDefault]
FieldOr(f, v, exponent) == [Field(f) EXCEPT !.default_if_null = Fallback(v, exponent)]
Reads(t) == [kind |-> "assigned", name |-> t, default_if_null |-> NoDefault]
ReadsOr(t, v, exponent) == [Reads(t) EXCEPT !.default_if_null = Fallback(v, exponent)]
Call(f, args) ==
  [kind |-> "custom_function", name |-> f, args |-> args, default_if_null |-> NoDefault]

Set(id, target, value) == [assignment_id |-> id, target_field |-> target, value |-> value]

Pool ==
  [long |-> <<Set("long", "t", Field("big"))>>,
   byte |-> <<Set("byte", "t", Field("small"))>>,
   double |-> <<Set("double", "t", Field("ratio"))>>,
   decimal |-> <<Set("decimal", "t", Lit(Dec(50), -1, NoHint))>>,
   cent |-> <<Set("cent", "t", Lit(Dec(5), -2, NoHint))>>,
   nothing |-> <<Set("nothing", "t", Field("blank"))>>,
   clear |-> <<Set("clear", "t", Lit(None, 0, "integer"))>>,
   copy |-> <<Set("copy", "u", Reads("t"))>>,
   copyOr |-> <<Set("copyOr", "u", ReadsOr("t", IntValue(1), 0))>>,
   copyText |-> <<Set("copyText", "u", ReadsOr("t", Text(1), 0))>>,
   chain |-> <<Set("chain", "v", Reads("u")), Set("widen", "t", Field("ratio"))>>,
   padded |-> <<Set("padded", "v", Call("pad", <<Reads("t")>>))>>,
   padBoth |-> <<Set("padBoth", "v", Call("pad", <<Reads("u")>>)),
                 Set("widen2", "t", Field("ratio"))>>,
   first |-> <<Set("first", "t", Call("coalesce", <<Field("big"), Lit(Dec(50), -1, NoHint)>>))>>,
   unless |-> <<Set("unless", "u", Call("null_if", <<Reads("t"), Lit(IntValue(5), 0, NoHint)>>))>>,
   price |-> <<Set("price", "price", Reads("t"))>>,
   priceOr |-> <<Set("priceOr", "price", FieldOr("small", IntValue(9), 0))>>,
   cents |-> <<Set("cents", "price", Call("to_decimal", <<Field("ratio")>>))>>,
   small |-> <<Set("small", "small", Call("pick", <<Field("ratio")>>))>>,
   nine |-> <<Set("nine", "small", Lit(IntValue(9), 0, NoHint))>>,
   five |-> <<Set("five", "small", Lit(IntValue(5), 0, NoHint))>>,
   smallT |-> <<Set("smallT", "small", Reads("t"))>>,
   half |-> <<Set("half", "u", FieldOr("blank", Dec(50), -1))>>,
   bare |-> <<Set("bare", "t", Lit(None, 0, NoHint))>>,
   odd |-> <<Set("odd", "t", Lit(None, 0, "other"))>>,
   orText |-> <<Set("orText", "small",
                    [Lit(None, 0, NoHint) EXCEPT !.default_if_null = Fallback(Text(1), 0)])>>,
   copyLate |-> <<Set("copyLate", "v", ReadsOr("u", IntValue(50), 0)),
                  Set("widen3", "t", Field("big"))>>,
   sameAsNull |-> <<Set("sameAsNull", "small",
                        [Call("null_if", <<Lit(None, 0, NoHint), Lit(IntValue(5), 0, NoHint)>>)
                           EXCEPT !.default_if_null = Fallback(Text(1), 0)])>>,
   precise |-> <<Set("precise", "t", Lit(Dec(5055), -2, NoHint))>>,
   large |-> <<Set("large", "t", Lit(IntValue(64), 0, NoHint))>>,
   opaque |-> <<Set("opaque", "t", Lit(List, 0, NoHint))>>]

PoolOperands == UNION {{a.value : a \in ToSet(Pool[id])} : id \in PoolIds}
MCOperands == PoolOperands \cup UNION {ToSet(NestedOperands(o)) : o \in PoolOperands}

ReadsOf(assignments) ==
  LET values == {a.value : a \in ToSet(assignments)}
      operands == values \cup UNION {ToSet(NestedOperands(o)) : o \in values}
  IN  {o.name : o \in {p \in operands : p.kind = "assigned"}}
AssignedBy(assignments) == {a.target_field : a \in ToSet(assignments)}

Orders == UNION {{s \in [1..n -> PoolIds] : IsInjective(s)} : n \in 1..MaxRules}
Produced(rules) ==
  \A i \in DOMAIN rules : \A t \in ReadsOf(rules[i]) :
    \E j \in 1..(i - 1) : t \in AssignedBy(rules[j])
MCRulesets == {r \in {[i \in DOMAIN s |-> Pool[s[i]]] : s \in Orders} : Produced(r)}

MCRows ==
  {[small |-> s, big |-> b, ratio |-> r, price |-> Dec(950), label |-> Text(2),
    blank |-> None] :
     s \in {None, IntValue(7)}, b \in {IntValue(5), IntValue(63)}, r \in {None, Float(150)}}

\* What the theorems on preflight take for granted is so here: of the functions for some
\* values, of the literals but for those of the finding.
Samples == {None, IntValue(5), IntValue(64), Float(150), Dec(50), Dec(5), Text(1), List}
ASSUME /\ RowsFitSource
       /\ PoolIds \cap {"orText", "opaque", "precise", "large"} = {} => LiteralsPlain
       /\ \A name \in Functions : \A args \in [DOMAIN ArgumentHint[name] -> Samples] :
            KeepsContract(name, args)
=============================================================================
