SPECIFICATION Spec
CONSTANTS
  Functions = {"f", "g"}
  Implementations = {"one", "two"}
  NoImplementation = "missing"
  Operands = {"outer", "inner", "leaf", "wrong"}
  FunctionOf <- MCFunctionOf
  Args <- MCArgs
  Misfits = {"wrong"}
  Rulesets <- MCRulesets
  Unbound = "unbound"
  Unresolved = "unresolved"
  NoOperand = NoOperand
  NoRuleset = NoRuleset
  MaxUses = 2
  OnlyLeavesShared = FALSE
INVARIANT
  CallsRegistered
CHECK_DEADLOCK FALSE
