SPECIFICATION FairSpec
CONSTANTS
  Functions = {"f", "g"}
  Implementations = {"one", "two"}
  NoImplementation = "missing"
  Operands = {"outer", "inner", "leaf", "wrong"}
  FunctionOf <- MCFunctionOf
  Args <- MCArgs
  Misfits = {"wrong"}
  Rulesets <- MCRulesets
  Unbound = "unbound"
  Unresolved = "unresolved"
  NoOperand = NoOperand
  NoRuleset = NoRuleset
  MaxUses = 3
  OnlyLeavesShared = TRUE
INVARIANTS
  TypeOK
  CallsRegistered
  NeverBindsLate
PROPERTIES
  RefusedForCause
  PreparationSettles
CHECK_DEADLOCK FALSE
