SPECIFICATION Spec
CONSTANTS
  Fields = {"score", "level", "rate"}
  Targets = {"score", "grade", "note"}
  TargetType <- MCTargetType
  IntegralMax = 3
  Operands <- MCOperands
  Function <- MCFunction
  TextRelation = {}
  NoId = NoId
  Inputs <- MCInputs
  PoolIds = {"base", "swap", "stop", "calls", "noted", "risky", "large", "off"}
  MaxRules = 3
  NonfiniteScores = FALSE
INVARIANTS
  TypeOK
  ModesAgree
  AppliedByMatched
  HistoryFollowsMatches
  HistoryChains
  EffectiveEmitted
  TracesNameProducers
PROPERTIES
  ImplementsDecision
CHECK_DEADLOCK FALSE
