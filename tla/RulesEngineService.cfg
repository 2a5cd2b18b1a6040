SPECIFICATION Spec
CONSTANTS
  TextRelation = {}
  HugeNumbers <- MCHugeNumbers
  Spelling <- MCSpelling
  LongMax = 60
  Specs <- MCSpecs
  Fields = {"score", "level"}
  Targets = {"grade", "score"}
  TargetType <- MCTargetType
  IntegralMax = 3
  Operands <- MCOperands
  Function <- MCFunction
  NoId = NoId
  Rulesets <- MCRulesets
  Columns = {"score", "level"}
  Worlds <- MCWorlds
  TargetsOf <- AssignmentTargets
  Evaluations <- MCEvaluations
  Evaluated <- MCEvaluated
  NullValue <- Null
  NoPlan = NoPlan
  NoRows = NoRows
  BroadMatchThreshold <- MCThreshold
  FunctionNames = {"half", "pick"}
  Saves <- MCSaves
  NoSave = NoSave
  Drafts <- MCDrafts
  WordNumber <- MCWordNumber
  NoDraft = NoDraft
  NoRuleset = NoRuleset
  NoRow = NoRow
  NoReport = NoReport
CONSTRAINT SessionsApart
INVARIANTS
  ProjectionsAgree
  AssignedReadsFollowProducers
  CoverageAddsUp
PROPERTIES
  LoadsWhatWasPublished
  LoadIsStable
  RetriedSaveAddsNothing
CHECK_DEADLOCK FALSE
