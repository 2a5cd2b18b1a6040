SPECIFICATION Spec
CONSTANTS
  Fields = {"score", "level", "rate"}
  Targets = {"score", "grade", "note"}
  TargetType <- MCTargetType
  IntegralMax = 3
  Operands <- MCOperands
  Function <- MCFunction
  TextRelation = {}
  NoId = NoId
  Inputs <- MCInputs
  PoolIds = {"base", "swap", "stop", "calls", "noted", "risky", "large", "off"}
  MaxRules = 1
  NonfiniteScores = TRUE
INVARIANT
  ModesAgree
CHECK_DEADLOCK FALSE
