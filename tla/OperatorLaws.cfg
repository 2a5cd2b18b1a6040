SPECIFICATION LawsSpec
CONSTANTS
  TextRelation = {}
  Scalars <- MCScalars
  Tolerances = {0, 1, 2}
  MinYear = 1
  MaxYear = 9999
  CalendarDates <- MCCalendarDates
  Offsets <- MCOffsets
  None = None
  OutOfRange = OutOfRange
  Unmeasured = Unmeasured
INVARIANTS
  Trichotomy
  OrderedConsistent
  BetweenInclusive
  MembershipIsEquality
  CompletedPeriods
CHECK_DEADLOCK FALSE
