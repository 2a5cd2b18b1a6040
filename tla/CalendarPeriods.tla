-------------------------- MODULE CalendarPeriods --------------------------
(***************************************************************************)
(* The calendar functions a rule measures and moves dates with             *)
(* (standard_functions.py): adding months and years clamps to the end of   *)
(* the target month, and the periods between two dates are counted by      *)
(* adding.  Arguments are dates or null, offsets are whole numbers.        *)
(***************************************************************************)
EXTENDS Integers

CONSTANTS
  MinYear, MaxYear,   \* the range of date
  CalendarDates,      \* the dates that occur, [year, month, day]
  Offsets,            \* the numbers of months that are added
  None,
  OutOfRange,         \* the ValueError of date_add_months
  Unmeasured

\* calendar.monthrange
IsLeap(year) == year % 4 = 0 /\ (year % 100 # 0 \/ year % 400 = 0)
DaysIn(year, month) ==
  CASE month = 2 -> IF IsLeap(year) THEN 29 ELSE 28
    [] month \in {4, 6, 9, 11} -> 30
    [] OTHER -> 31

ASSUME CalendarAssumption ==
  /\ MinYear \in Int /\ MaxYear \in Int
  /\ \A d \in CalendarDates :
       /\ d = [year |-> d.year, month |-> d.month, day |-> d.day]
       /\ d.year \in MinYear..MaxYear /\ d.month \in 1..12
       /\ d.day \in 1..DaysIn(d.year, d.month)
  /\ Offsets \subseteq Int
  /\ None \notin CalendarDates
  /\ OutOfRange \notin [year : Int, month : Int, day : Int]
  /\ Unmeasured \notin [months : Int \cup {None}, years : Int \cup {None}]

VARIABLES
  start, end,   \* the arguments
  periods       \* what date_diff_months and date_diff_years return, or Unmeasured

periodVars == <<start, end, periods>>

\* start > end, of two dates
Later(d, e) ==
  \/ d.year > e.year
  \/ d.year = e.year /\ d.month > e.month
  \/ d.year = e.year /\ d.month = e.month /\ d.day > e.day

MonthIndex(d) == d.year * 12 + d.month - 1

AddMonths(d, months) ==
  LET index == MonthIndex(d) + months
      year == index \div 12
      month == (index % 12) + 1
      last == DaysIn(year, month)
  IN  IF d = None THEN None
      ELSE IF year \notin MinYear..MaxYear THEN OutOfRange
      ELSE [year |-> year, month |-> month, day |-> IF d.day < last THEN d.day ELSE last]

AddYears(d, years) == AddMonths(d, years * 12)

CompletedMonthsByIndex(first, last) ==   \* mutant: the last month counts, completed or not
  MonthIndex(last) - MonthIndex(first)
\* The month of the later date counts if adding it does not pass that date.
CompletedMonths(first, last) ==
  LET months == MonthIndex(last) - MonthIndex(first)
  IN  IF Later(AddMonths(first, months), last) THEN months - 1 ELSE months

CompletedYears(first, last) ==
  LET years == last.year - first.year
  IN  IF Later(AddYears(first, years), last) THEN years - 1 ELSE years

\* None if an argument is, negative if the dates are exchanged.
DiffMonths(from, to) ==
  IF None \in {from, to} THEN None
  ELSE IF Later(from, to) THEN -CompletedMonths(to, from) ELSE CompletedMonths(from, to)
DiffYears(from, to) ==
  IF None \in {from, to} THEN None
  ELSE IF Later(from, to) THEN -CompletedYears(to, from) ELSE CompletedYears(from, to)

-----------------------------------------------------------------------------
PeriodInit ==
  /\ start \in CalendarDates \cup {None} /\ end \in CalendarDates \cup {None}
  /\ periods = Unmeasured

MeasurePeriods ==
  /\ periods = Unmeasured
  /\ periods' = [months |-> DiffMonths(start, end), years |-> DiffYears(start, end)]
  /\ UNCHANGED <<start, end>>

PeriodSpec == PeriodInit /\ [][MeasurePeriods]_periodVars

-----------------------------------------------------------------------------
\* The number of months between two dates is the one that date_add_months agrees
\* with: so many can be added to the earlier date without passing the later one, and
\* no more, whatever the lengths of the months and the leap days between them.
CountsMonths(first, last, months) ==
  \A n \in Offsets :
    LET reached == AddMonths(first, n)
    IN  reached # OutOfRange => (Later(reached, last) <=> n > months)

\* Twelve completed months are a completed year, and nothing less is.
CountsYears(months, years) == 12 * years <= months /\ months < 12 * (years + 1)

\* README.md:779-780: what date_diff_months and date_diff_years return is the signed
\* number of completed periods, as counted by the functions that add them.
CompletedPeriods ==
  periods # Unmeasured /\ None \notin {start, end} =>
    IF Later(start, end)
    THEN CountsMonths(end, start, -periods.months) /\ CountsYears(-periods.months, -periods.years)
    ELSE CountsMonths(start, end, periods.months) /\ CountsYears(periods.months, periods.years)
=============================================================================
