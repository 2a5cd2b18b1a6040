\* Publishers take turns; anything else interleaves with them.
SPECIFICATION Spec
CONSTANTS
  Calls = {c1, c2, c3}
  Ids = {"A", "B"}
  Names = {"N", "M"}
  Versions = {"v1"}
  Payloads = {"p", "q", "bad"}
  Rulesets <- MCRulesets
  InvalidPayloads = {"bad"}
  Actors = {"system", "alice"}
  System = "system"
  Absent = "absent"
  ActorArguments = {"absent", "alice"}
  Nobody = "nobody"
  AnyVersion = "any"
  Modes = {"error", "ignore", "overwrite", "append"}
  Operations = {"publish", "retire", "load", "create"}
  SerializedPublishers = TRUE
  SparkMayFail = TRUE
  MaxClock = 2
  NoRequest = NoRequest
  NoRow = NoRow
SYMMETRY Symmetry
INVARIANTS TypeOK UniqueIdentities
PROPERTIES RowsImmutable RetireTouchesOneRow ImplementsCatalog
\* Every call of the history may have ended.
CHECK_DEADLOCK FALSE
