----------------------- MODULE CalendarPeriodsProofs -----------------------
(***************************************************************************)
(* Completed periods for every pair of dates of any range of years.        *)
(***************************************************************************)
EXTENDS CalendarPeriods, TLAPS

\* What counting needs of a date: a month of a year, and a day.
IsDate(d) == d.year \in Int /\ d.month \in 1..12 /\ d.day \in Int

LEMMA CalendarDatesAreDates == \A d \in CalendarDates : IsDate(d) /\ d # None
  BY CalendarAssumption, SMT DEF IsDate, DaysIn

\* The index of a month names its year and its month.
LEMMA MonthOfIndex ==
  ASSUME NEW year \in Int, NEW month \in 1..12
  PROVE  /\ (year * 12 + month - 1) \div 12 = year
         /\ ((year * 12 + month - 1) % 12) + 1 = month
  OBVIOUS

\* Of two dates in different months the one with the larger index is later; in one
\* month the days decide.
LEMMA LaterByIndex ==
  ASSUME NEW d, NEW e, IsDate(d), IsDate(e)
  PROVE  /\ MonthIndex(d) > MonthIndex(e) => Later(d, e)
         /\ MonthIndex(d) < MonthIndex(e) => ~Later(d, e)
         /\ MonthIndex(d) = MonthIndex(e) => (Later(d, e) <=> d.day > e.day)
<1>1. /\ d.year \in Int /\ d.month \in 1..12 /\ d.day \in Int
      /\ e.year \in Int /\ e.month \in 1..12 /\ e.day \in Int
  BY DEF IsDate
<1>2. CASE d.year > e.year
  <2>1. Later(d, e)
    BY <1>2 DEF Later
  <2>2. MonthIndex(d) > MonthIndex(e)
    BY <1>1, <1>2 DEF MonthIndex
  <2>. QED BY <1>1, <2>1, <2>2 DEF MonthIndex
<1>3. CASE d.year < e.year
  <2>1. ~Later(d, e)
    BY <1>1, <1>3 DEF Later
  <2>2. MonthIndex(d) < MonthIndex(e)
    BY <1>1, <1>3 DEF MonthIndex
  <2>. QED BY <1>1, <2>1, <2>2 DEF MonthIndex
<1>4. CASE d.year = e.year
  <2>1. Later(d, e) <=> d.month > e.month \/ (d.month = e.month /\ d.day > e.day)
    BY <1>1, <1>4 DEF Later
  <2>2. MonthIndex(d) = d.year * 12 + d.month - 1 /\ MonthIndex(e) = d.year * 12 + e.month - 1
    BY <1>4 DEF MonthIndex
  <2>3. /\ MonthIndex(d) > MonthIndex(e) <=> d.month > e.month
        /\ MonthIndex(d) = MonthIndex(e) <=> d.month = e.month
        /\ MonthIndex(d) < MonthIndex(e) <=> d.month < e.month
    BY <1>1, <2>2
  <2>. QED BY <1>1, <2>1, <2>2, <2>3
<1>. QED BY <1>1, <1>2, <1>3, <1>4

\* Adding months moves the index by their number, whatever the day becomes.
LEMMA AddMonthsMovesIndex ==
  ASSUME NEW d, IsDate(d), d # None, NEW n \in Int, AddMonths(d, n) # OutOfRange
  PROVE  IsDate(AddMonths(d, n)) /\ MonthIndex(AddMonths(d, n)) = MonthIndex(d) + n
<1> DEFINE index == MonthIndex(d) + n
           year == index \div 12
           month == (index % 12) + 1
<1>1. index \in Int
  BY DEF IsDate, MonthIndex
<1>2. year \in Int /\ month \in 1..12 /\ year * 12 + month - 1 = index
  BY <1>1
<1>3. DaysIn(year, month) \in Int
  BY DEF DaysIn
<1>4. AddMonths(d, n) = [year |-> year, month |-> month,
                         day |-> IF d.day < DaysIn(year, month) THEN d.day ELSE DaysIn(year, month)]
  BY DEF AddMonths
<1> HIDE DEF index, year, month
<1>. QED BY <1>2, <1>3, <1>4 DEF IsDate, MonthIndex, index

\* The months completed are those that can be added without passing the last date.
LEMMA MonthsAreCounted ==
  ASSUME NEW first \in CalendarDates, NEW last \in CalendarDates
  PROVE  /\ CompletedMonths(first, last) \in Int
         /\ CountsMonths(first, last, CompletedMonths(first, last))
<1> DEFINE months == MonthIndex(last) - MonthIndex(first)
           count == CompletedMonths(first, last)
<1>1. IsDate(first) /\ IsDate(last) /\ first # None
  BY CalendarDatesAreDates
<1>2. months \in Int
  BY <1>1 DEF IsDate, MonthIndex
<1>3. count = IF Later(AddMonths(first, months), last) THEN months - 1 ELSE months
  BY DEF CompletedMonths
<1>4. count \in Int
  BY <1>2, <1>3
<1>5. ASSUME NEW n \in Offsets, AddMonths(first, n) # OutOfRange
      PROVE  Later(AddMonths(first, n), last) <=> n > count
  <2>1. n \in Int
    BY CalendarAssumption
  <2>2. IsDate(AddMonths(first, n)) /\ MonthIndex(AddMonths(first, n)) = MonthIndex(first) + n
    BY <1>1, <1>5, <2>1, AddMonthsMovesIndex
  <2>3. MonthIndex(first) \in Int /\ MonthIndex(last) \in Int
    BY <1>1 DEF IsDate, MonthIndex
  <2>4. CASE n > months
    <3>1. MonthIndex(AddMonths(first, n)) > MonthIndex(last)
      BY <2>1, <2>2, <2>3, <2>4
    <3>2. Later(AddMonths(first, n), last)
      BY <3>1, <1>1, <2>2, LaterByIndex
    <3>3. n > count
      BY <1>2, <1>3, <2>1, <2>4
    <3>. QED BY <3>2, <3>3
  <2>5. CASE n < months
    <3>1. MonthIndex(AddMonths(first, n)) < MonthIndex(last)
      BY <2>1, <2>2, <2>3, <2>5
    <3>2. ~Later(AddMonths(first, n), last)
      BY <3>1, <1>1, <2>2, LaterByIndex
    <3>3. ~(n > count)
      BY <1>2, <1>3, <2>1, <2>5
    <3>. QED BY <3>2, <3>3
  <2>6. CASE n = months
    <3>1. n > count <=> Later(AddMonths(first, months), last)
      BY <1>2, <1>3, <2>6
    <3>. QED BY <3>1, <2>6
  <2>. QED BY <1>2, <2>1, <2>4, <2>5, <2>6
<1>. QED BY <1>4, <1>5 DEF CountsMonths

\* Adding the difference of the years reaches the first date's month in the year of
\* the last date.
LEMMA AddYearsReachesYear ==
  ASSUME NEW first \in CalendarDates, NEW last \in CalendarDates
  PROVE  LET reached == AddYears(first, last.year - first.year)
         IN  IsDate(reached) /\ reached.year = last.year /\ reached.month = first.month
<1>1. IsDate(first) /\ IsDate(last) /\ first # None /\ last.year \in MinYear..MaxYear
  BY CalendarDatesAreDates, CalendarAssumption
<1> DEFINE offset == (last.year - first.year) * 12
<1>2. MonthIndex(first) + offset = last.year * 12 + first.month - 1
  BY <1>1 DEF IsDate, MonthIndex
<1>3. /\ (MonthIndex(first) + offset) \div 12 = last.year
      /\ ((MonthIndex(first) + offset) % 12) + 1 = first.month
  BY <1>1, <1>2, MonthOfIndex DEF IsDate
<1>4. DaysIn(last.year, first.month) \in Int
  BY DEF DaysIn
<1>5. AddMonths(first, offset) =
        [year |-> last.year, month |-> first.month,
         day |-> IF first.day < DaysIn(last.year, first.month) THEN first.day
                 ELSE DaysIn(last.year, first.month)]
  <2> HIDE DEF offset
  <2>. QED BY <1>1, <1>3 DEF AddMonths
<1>. QED BY <1>1, <1>4, <1>5 DEF AddYears, IsDate

\* Completed years are completed dozens of months.
LEMMA YearsAreCounted ==
  ASSUME NEW first \in CalendarDates, NEW last \in CalendarDates
  PROVE  /\ CompletedYears(first, last) \in Int
         /\ CountsYears(CompletedMonths(first, last), CompletedYears(first, last))
<1> DEFINE months == MonthIndex(last) - MonthIndex(first)
           years == last.year - first.year
           reached == AddYears(first, years)
<1>1. IsDate(first) /\ IsDate(last)
  BY CalendarDatesAreDates
<1>2. /\ years \in Int /\ months \in Int
      /\ months = 12 * years + last.month - first.month
      /\ first.month \in 1..12 /\ last.month \in 1..12
  BY <1>1 DEF IsDate, MonthIndex
<1>3. IsDate(reached) /\ reached.year = last.year /\ reached.month = first.month
  BY AddYearsReachesYear
<1>4. CompletedYears(first, last) = IF Later(reached, last) THEN years - 1 ELSE years
  BY DEF CompletedYears
<1>5. CompletedMonths(first, last) =
        IF Later(AddMonths(first, months), last) THEN months - 1 ELSE months
  BY DEF CompletedMonths
<1>6. CASE first.month > last.month
  <2>1. Later(reached, last)
    BY <1>1, <1>3, <1>6 DEF Later, IsDate
  <2>2. CompletedYears(first, last) = years - 1
    BY <2>1, <1>4
  <2>3. CompletedMonths(first, last) \in {months - 1, months}
    BY <1>5
  <2>. QED BY <1>2, <1>6, <2>2, <2>3 DEF CountsYears
<1>7. CASE first.month < last.month
  <2>1. ~Later(reached, last)
    BY <1>1, <1>3, <1>7 DEF Later, IsDate
  <2>2. CompletedYears(first, last) = years
    BY <2>1, <1>4
  <2>3. CompletedMonths(first, last) \in {months - 1, months}
    BY <1>5
  <2>. QED BY <1>2, <1>7, <2>2, <2>3 DEF CountsYears
<1>8. CASE first.month = last.month
  <2>1. months = years * 12
    BY <1>2, <1>8
  <2>2. reached = AddMonths(first, months)
    BY <2>1 DEF AddYears
  <2>3. CASE Later(reached, last)
    <3>1. CompletedYears(first, last) = years - 1 /\ CompletedMonths(first, last) = months - 1
      BY <1>4, <1>5, <2>2, <2>3
    <3>. QED BY <1>2, <2>1, <3>1 DEF CountsYears
  <2>4. CASE ~Later(reached, last)
    <3>1. CompletedYears(first, last) = years /\ CompletedMonths(first, last) = months
      BY <1>4, <1>5, <2>2, <2>4
    <3>. QED BY <1>2, <2>1, <3>1 DEF CountsYears
  <2>. QED BY <2>3, <2>4
<1>. QED BY <1>2, <1>6, <1>7, <1>8

\* What was measured is what the two functions return for the arguments.
Measured ==
  /\ start \in CalendarDates \cup {None} /\ end \in CalendarDates \cup {None}
  /\ periods # Unmeasured =>
       periods = [months |-> DiffMonths(start, end), years |-> DiffYears(start, end)]

LEMMA MeasuredIsCompleted == Measured => CompletedPeriods
<1> SUFFICES ASSUME Measured, periods # Unmeasured, start # None, end # None
             PROVE  CompletedPeriods
  BY DEF CompletedPeriods
<1>1. start \in CalendarDates /\ end \in CalendarDates
  BY DEF Measured
<1>2. periods.months = DiffMonths(start, end) /\ periods.years = DiffYears(start, end)
  BY DEF Measured
<1>3. CASE Later(start, end)
  <2> DEFINE months == CompletedMonths(end, start)
             years == CompletedYears(end, start)
  <2>1. months \in Int /\ CountsMonths(end, start, months)
    BY <1>1, MonthsAreCounted
  <2>2. years \in Int /\ CountsYears(months, years)
    BY <1>1, YearsAreCounted
  <2>3. periods.months = -months /\ periods.years = -years
    BY <1>1, <1>2, <1>3 DEF DiffMonths, DiffYears
  <2> HIDE DEF months, years
  <2>4. -periods.months = months /\ -periods.years = years
    BY <2>1, <2>2, <2>3
  <2>. QED BY <1>3, <2>1, <2>2, <2>4 DEF CompletedPeriods
<1>4. CASE ~Later(start, end)
  <2>1. /\ periods.months = CompletedMonths(start, end)
        /\ periods.years = CompletedYears(start, end)
    BY <1>1, <1>2, <1>4 DEF DiffMonths, DiffYears
  <2>. QED BY <1>1, <1>4, <2>1, MonthsAreCounted, YearsAreCounted DEF CompletedPeriods
<1>. QED BY <1>3, <1>4

\* standard_functions.py:445-502: the periods counted between any two dates are those
\* that adding confirms, for every range of years and every offset.
THEOREM CompletedPeriodsHold == PeriodSpec => []CompletedPeriods
<1>1. PeriodInit => Measured
  BY DEF PeriodInit, Measured
<1>2. Measured /\ [MeasurePeriods]_periodVars => Measured'
  <2> SUFFICES ASSUME Measured, [MeasurePeriods]_periodVars PROVE Measured'
    OBVIOUS
  <2>1. CASE MeasurePeriods
    BY <2>1 DEF Measured, MeasurePeriods
  <2>2. CASE UNCHANGED periodVars
    BY <2>2 DEF Measured, periodVars
  <2>. QED BY <2>1, <2>2
<1>. QED BY <1>1, <1>2, MeasuredIsCompleted, PTL DEF PeriodSpec
=============================================================================
