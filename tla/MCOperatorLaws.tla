--------------------------- MODULE MCOperatorLaws ---------------------------
(***************************************************************************)
(* The laws of the comparison operators and of the calendar functions.     *)
(* They share nothing, so a behaviour takes one comparison next to a       *)
(* period of nulls, or one period next to a comparison of nulls.           *)
(***************************************************************************)
EXTENDS ComparisonLaws, CalendarPeriods

MCScalars ==
  {Null, Nonfinite, NonfiniteText, Word(2), Bool(0), Bool(1)}
    \cup UNION {{Number(n), Numeral(n)} : n \in 0..3}
    \cup UNION {{Date(d), Aware(d), Naive(d)} : d \in 0..1}

\* Both ends of months of every length, of leap years and of others, across a
\* century that is none, and at the limits of date.
MCYears == {1, 1899, 1900, 1901, 2023, 2024, 9999}
MCCalendarDates ==
  LET ends(y, m) == {1, 15, 28, 29, 30, 31} \cap 1..DaysIn(y, m)
  IN  UNION {{[year |-> y, month |-> m, day |-> d] : d \in ends(y, m)} :
               y \in MCYears, m \in {1, 2, 4, 12}}
MCOffsets == -1..30

LawsInit ==
  \/ Init /\ start = None /\ end = None /\ periods = Unmeasured
  \/ /\ PeriodInit
     /\ left = Null /\ right = Null /\ bound = Null
     /\ tolerance = 0 /\ error_on_null = FALSE
     /\ outcome = [op \in Operators |-> Pending]
LawsNext ==
  \/ CompareAll /\ UNCHANGED periodVars
  \/ MeasurePeriods /\ UNCHANGED vars
LawsSpec == LawsInit /\ [][LawsNext]_<<vars, periodVars>>
=============================================================================
