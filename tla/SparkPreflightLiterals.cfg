SPECIFICATION Spec
CONSTANTS
  IntegralMax <- MCIntegralMax
  IntegralDigits <- MCIntegralDigits
  MaxPrecision = 3
  HintScale = 1
  UnitDigits = 2
  DoubleExact = 32
  Functions = {"coalesce", "null_if", "to_decimal", "pick", "pad"}
  ReturnTypeHint <- MCReturnTypeHint
  ArgumentHint <- MCArgumentHint
  Function <- MCFunction
  Operands <- MCOperands
  NoHint = NoHint
  NoId = NoId
  Targets = {"t", "u", "v", "price", "small"}
  Source <- MCSource
  Rulesets <- MCRulesets
  Rows <- MCRows
  PoolIds = {"long", "opaque", "orText"}
  MaxRules = 2
INVARIANTS
  LiteralsFit
CHECK_DEADLOCK FALSE
