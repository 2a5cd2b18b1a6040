\* The long histories: publish, load, retire, publish again, load again.
SPECIFICATION Spec
CONSTANTS
  Calls = {c1, c2, c3, c4, c5}
  Ids = {"A", "B"}
  Names = {"N"}
  Versions = {"v1"}
  Payloads = {"p", "q", "bad"}
  Rulesets <- LifecycleRulesets
  InvalidPayloads = {"bad"}
  Actors = {"system", "alice"}
  System = "system"
  Absent = "absent"
  ActorArguments = {"alice"}
  Nobody = "nobody"
  AnyVersion = "any"
  Modes = {"error", "ignore", "overwrite", "append"}
  Operations = {"publish", "retire", "load"}
  SerializedPublishers = TRUE
  SparkMayFail = FALSE
  MaxClock = 1
  NoRequest = NoRequest
  NoRow = NoRow
SYMMETRY Symmetry
INVARIANTS LoadsRepeatable
PROPERTIES LoadIgnoresRetired
\* Every call of the history may have ended.
CHECK_DEADLOCK FALSE
