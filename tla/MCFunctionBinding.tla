------------------------- MODULE MCFunctionBinding -------------------------
(***************************************************************************)
(* Four operands: a function around another one, another use of the inner  *)
(* function, and one whose arguments do not fit.                           *)
(***************************************************************************)
EXTENDS FunctionBinding

CONSTANTS
  MaxUses,         \* how many uses a ruleset has
  OnlyLeavesShared \* are the rulesets limited to those that share only leaves?

MCFunctionOf == [outer |-> "f", inner |-> "g", leaf |-> "g", wrong |-> "f"]
MCArgs == [outer |-> <<"inner">>, inner |-> <<>>, leaf |-> <<>>, wrong |-> <<"leaf">>]

MCRulesets ==
  {r \in UNION {[1..n -> Use] : n \in 1..MaxUses} :
     OnlyLeavesShared => SharesOnlyLeaves(r)}
============================================================================
