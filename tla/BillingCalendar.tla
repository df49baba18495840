-------------------------- MODULE BillingCalendar --------------------------
(***************************************************************************)
(* A subscription that is renewed again and again: each renewal computes   *)
(* the new end from the last one (calculateSubscriptionEndDate), so what a *)
(* short month takes from the day of the month is not given back.          *)
(***************************************************************************)
EXTENDS BillingMath

CONSTANTS
  FirstYear,  \* subscriptions start on any day of this year
  MaxMonths   \* bound: months paid for

ASSUME CalendarAssumption == FirstYear \in Nat /\ MaxMonths \in Nat

Cycles == {"MONTHLY", "QUARTERLY", "HALF_YEARLY", "ANNUAL"}

VARIABLES
  start,  \* the day the subscription began
  end,    \* the day it runs to
  months  \* months paid for so far

calendarVars == <<start, end, months>>

Date == [year : Nat, month : 1..12, day : 1..31]

IsDate(d) == d \in Date /\ d.day <= GetDaysInMonth(d.year, d.month)

CalendarTypeOK == IsDate(start) /\ IsDate(end) /\ months \in 0..MaxMonths

CalendarInit ==
  /\ start \in {d \in [year : {FirstYear}, month : 1..12, day : 1..31] : IsDate(d)}
  /\ end = start
  /\ months = 0

Renew(cycle) ==
  /\ months + MonthsOf(cycle) <= MaxMonths
  /\ months' = months + MonthsOf(cycle)
  /\ end' = CalculateSubscriptionEndDate(end, cycle)
  /\ UNCHANGED start

CalendarNext == \E cycle \in Cycles : Renew(cycle)

CalendarSpec == CalendarInit /\ [][CalendarNext]_calendarVars
-----------------------------------------------------------------------------
(* Properties *)

MonthIndex(d) == 12 * d.year + d.month

\* However the months were paid for, one by one or a year at a time, the service
\* ends in the month they come to, on a day that exists, never later than the day
\* it began on, and at most three days earlier: what the shortest month takes.
MonthsAreServed ==
  /\ IsDate(end)
  /\ MonthIndex(end) = MonthIndex(start) + months
  /\ end.day <= start.day /\ start.day <= end.day + 3
=============================================================================
