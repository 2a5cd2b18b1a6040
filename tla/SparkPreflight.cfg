SPECIFICATION Spec
CONSTANTS
  IntegralMax <- MCIntegralMax
  IntegralDigits <- MCIntegralDigits
  MaxPrecision = 3
  HintScale = 1
  UnitDigits = 2
  DoubleExact = 32
  Functions = {"coalesce", "null_if", "to_decimal", "pick", "pad"}
  ReturnTypeHint <- MCReturnTypeHint
  ArgumentHint <- MCArgumentHint
  Function <- MCFunction
  Operands <- MCOperands
  NoHint = NoHint
  NoId = NoId
  Targets = {"t", "u", "v", "price", "small"}
  Source <- MCSource
  Rulesets <- MCRulesets
  Rows <- MCRows
  PoolIds = {"long", "byte", "double", "decimal", "cent", "nothing", "clear", "copy", "copyOr", "copyText", "chain", "padded", "padBoth", "first", "unless", "price", "priceOr", "cents", "small", "nine", "five", "smallT", "half", "bare", "odd", "copyLate", "sameAsNull"}
  MaxRules = 3
INVARIANTS
  TypeOK
  EveryTargetTyped
  FailuresDataDependent
  LiteralsFit
  ArgumentsFitContract
PROPERTIES
  ValuesPreserved
CHECK_DEADLOCK FALSE
