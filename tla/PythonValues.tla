--------------------------- MODULE PythonValues ---------------------------
(***************************************************************************)
(* The Python values a ruleset is authored, held and persisted with        *)
(* (models.py): scalars, collections and operands.  Every value is a       *)
(* record whose type says which fields it has; a number counts in units of *)
(* 1/Unit as in Comparison.                                                *)
(***************************************************************************)
EXTENDS Comparison, FiniteSets, SequencesExt

CONSTANTS
  HugeNumbers,   \* the numbers a float spells with an exponent
  Spelling       \* text -> the day or instant it spells in ISO form

PyNone == [type |-> "none"]
PyBool(b) == [type |-> "bool", holds |-> b]
PyInt(n) == [type |-> "int", number |-> n]
PyFloat(n) == [type |-> "float", number |-> n]
PyNonfinite == [type |-> "nonfinite"]                     \* a float or Decimal nan or inf
PyDecimal(n, form) == [type |-> "decimal", number |-> n, form |-> form]
PyText(t) == [type |-> "text", text |-> t]
PyDigits(n) == [type |-> "digits", number |-> n]          \* text that spells a number
PyDay(d) == [type |-> "day", day |-> d]
PyInstant(d, m, zone) == [type |-> "instant", day |-> d, moment |-> m, zone |-> zone]
PyList(items) == [type |-> "list", items |-> items]
PyTuple(items) == [type |-> "tuple", items |-> items]
PySet(members) == [type |-> "set", members |-> members]
PyMapping(entries) == [type |-> "mapping", entries |-> entries]

\* An exception in place of a value.
Refused == [type |-> "refused"]

\* str(Decimal): without a point or an exponent, with a point, or with an exponent.
Forms == {"integral", "point", "exponent"}
FloatForm(n) == IF n \in HugeNumbers THEN "exponent" ELSE "point"

\* A mapping key is text, or the integer 1, written #1 here: its str() is "1".
IsTextKey(k) == k # "#1"
KeyText(k) == IF IsTextKey(k) THEN k ELSE "1"

IsText(v) == v.type \in {"text", "digits"}
IsMapping(v) == v.type = "mapping"
IsSequence(v) == v.type \in {"list", "tuple"}
IsCollection(v) == v.type \in {"list", "tuple", "set"}
IsNonEmptyText(v) == v.type = "digits" \/ (v.type = "text" /\ v.text \notin {"", " "})
HasKey(v, k) == k \in DOMAIN v.entries

\* The values inside a collection or a mapping, as they are iterated.
Contents(v) ==
  CASE IsSequence(v) -> v.items
    [] v.type = "set" -> SetToSeq(v.members)
    [] IsMapping(v) -> LET keys == SetToSeq(DOMAIN v.entries)
                       IN  [i \in DOMAIN keys |-> v.entries[keys[i]]]
    [] OTHER -> <<>>

(***************************************************************************)
(* The four kinds of operand.  The name of a literal and the value of the  *)
(* others are unused.                                                      *)
(***************************************************************************)
Operand(kind, name, value, value_type, args) ==
  [type |-> "operand", kind |-> kind, name |-> name, value |-> value,
   value_type |-> value_type, args |-> args, default_if_null |-> PyNone]
FieldOperand(name) == Operand("field", name, PyNone, PyNone, PyNone)
AssignedOperand(target) == Operand("assigned", target, PyNone, PyNone, PyNone)
LiteralOperand(value, value_type) == Operand("literal", PyNone, value, value_type, PyNone)
CustomFunctionOperand(name, args) == Operand("custom_function", name, PyNone, PyNone, args)
IsOperand(v) == v.type = "operand"

RECURSIVE NestedIn(_), OperandTree(_), Hashable(_)

\* iter_nested_operands: the operands in argument collections, not those inside them.
NestedIn(v) ==
  IF IsOperand(v) THEN <<v>>
  ELSE LET inside == Contents(v) IN FlattenSeq([i \in DOMAIN inside |-> NestedIn(inside[i])])

\* The operand and those nested in its arguments, at any depth.
OperandTree(operand) ==
  LET nested == NestedIn(operand.args)
  IN  <<operand>> \o FlattenSeq([i \in DOMAIN nested |-> OperandTree(nested[i])])

\* May the value be a member of a set?
Hashable(v) ==
  CASE v.type \in {"list", "set", "mapping"} -> FALSE
    [] v.type = "tuple" -> \A x \in ToSet(v.items) : Hashable(x)
    [] IsOperand(v) -> Hashable(v.value) /\ Hashable(v.args) /\ Hashable(v.default_if_null)
    [] OTHER -> TRUE

SetOf(members) ==
  IF Refused \in members \/ \E x \in members : ~Hashable(x) THEN Refused ELSE PySet(members)

\* dict(...) with every key turned into its text; two keys of one text are refused.
MappingOf(entries) ==
  IF \/ \E k \in DOMAIN entries : entries[k] = Refused
     \/ \E j, k \in DOMAIN entries : j # k /\ KeyText(j) = KeyText(k)
  THEN Refused
  ELSE PyMapping([t \in {KeyText(k) : k \in DOMAIN entries} |->
                    entries[CHOOSE k \in DOMAIN entries : KeyText(k) = t]])

\* The collection v with every element x replaced by Op(x).
Rebuilt(v, Op(_)) ==
  CASE IsSequence(v) ->
         LET items == [i \in DOMAIN v.items |-> Op(v.items[i])]
         IN  IF \E i \in DOMAIN items : items[i] = Refused
             THEN Refused ELSE [v EXCEPT !.items = items]
    [] v.type = "set" -> SetOf({Op(x) : x \in v.members})
    [] IsMapping(v) -> MappingOf([k \in DOMAIN v.entries |-> Op(v.entries[k])])

\* tuple(Op(i, x) for i, x in enumerate(items, start=1))
Enumerated(items, Op(_, _)) ==
  LET built == [i \in DOMAIN items |-> Op(i, items[i])]
  IN  IF \E i \in DOMAIN built : built[i] = Refused THEN Refused ELSE PyTuple(built)

\* The list of what Op makes of the items.
ListOf(items, Op(_)) == Rebuilt(PyList(items), Op)

\* A record of values, unless one of them is refused.
Built(r) == IF \E f \in DOMAIN r : r[f] = Refused THEN Refused ELSE r

(***************************************************************************)
(* Walking a condition group.                                              *)
(***************************************************************************)
RECURSIVE GroupsIn(_)
GroupsIn(group) ==
  LET nested == group.groups.items
  IN  <<group>> \o FlattenSeq([i \in DOMAIN nested |-> GroupsIn(nested[i])])

ConditionsIn(group) ==
  LET groups == GroupsIn(group)
  IN  FlattenSeq([i \in DOMAIN groups |-> groups[i].conditions.items])

\* The operands of a condition; a unary one has no right operand.
Sides(c) == IF c.right = PyNone THEN <<c.left>> ELSE <<c.left, c.right>>
=============================================================================
