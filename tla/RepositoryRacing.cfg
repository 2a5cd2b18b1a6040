\* Publishers race, against the contract of save_published.
SPECIFICATION Spec
CONSTANTS
  Calls = {c1, c2, c3}
  Ids = {"A", "B"}
  Names = {"N", "M"}
  Versions = {"v1"}
  Payloads = {"p", "q", "bad"}
  Rulesets <- MCRulesets
  InvalidPayloads = {"bad"}
  Actors = {"system", "alice"}
  System = "system"
  Absent = "absent"
  ActorArguments = {"absent", "alice"}
  Nobody = "nobody"
  AnyVersion = "any"
  Modes = {"error", "ignore", "overwrite", "append"}
  Operations = {"publish", "retire", "load", "create"}
  SerializedPublishers = FALSE
  SparkMayFail = TRUE
  MaxClock = 2
  NoRequest = NoRequest
  NoRow = NoRow
SYMMETRY Symmetry
INVARIANTS RetireReportsOnce AcknowledgedPublishDurable
PROPERTIES OnlyRacersDuplicate
\* Every call of the history may have ended.
CHECK_DEADLOCK FALSE
