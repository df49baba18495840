----------------------- MODULE BillingCalendarProofs -----------------------
(***************************************************************************)
(* Proofs about BillingCalendar: that renewals serve the months paid for   *)
(* from any first year and for any number of months.                       *)
(***************************************************************************)
EXTENDS BillingCalendar, TLAPS

LEMMA DaysInMonth ==
  ASSUME NEW year, NEW month \in 1..12
  PROVE  GetDaysInMonth(year, month) \in 28..31
  BY DEF GetDaysInMonth

LEMMA CycleMonths ==
  ASSUME NEW cycle \in Cycles
  PROVE  MonthsOf(cycle) \in {1, 3, 6, 12}
  BY DEF Cycles, MonthsOf

\* AddMonths goes to a day that exists, as many months later, on the same day of
\* the month or on the last, which is the 28th or later.
LEMMA MonthsLater ==
  ASSUME NEW date, IsDate(date), NEW k \in Nat
  PROVE  LET later == AddMonths(date, k)
         IN /\ IsDate(later)
            /\ MonthIndex(later) = MonthIndex(date) + k
            /\ later.day <= date.day
            /\ later.day = date.day \/ later.day >= 28
<1>. DEFINE n == date.month + k - 1
            q == n \div 12
            r == n % 12
            month == r + 1
            year == date.year + q
            day == AtMost(date.day, GetDaysInMonth(year, month))
<1>1. date.year \in Nat /\ date.month \in 1..12 /\ date.day \in 1..31
  BY DEF IsDate, Date
<1>2. n \in Nat
  BY <1>1
<1>3. AddMonths(date, k) = [year |-> year, month |-> month, day |-> day]
  BY DEF AddMonths
<1>4. q \in Nat /\ r \in 0..11 /\ date.month + k - 1 = 12 * q + r
  <2>. HIDE DEF n
  <2>1. q \in Nat /\ r \in 0..11 /\ n = 12 * q + r
    BY <1>2
  <2>. QED  BY <2>1 DEF n
<1>. HIDE DEF n, q, r
<1>5. year \in Nat /\ month \in 1..12
  BY <1>1, <1>4
<1>6. 12 * year + month = 12 * date.year + date.month + k
  BY <1>1, <1>4
<1>. HIDE DEF month, year
<1>7. GetDaysInMonth(year, month) \in 28..31
  BY <1>5, DaysInMonth
<1>8. /\ day \in 1..31 /\ day <= date.day /\ day <= GetDaysInMonth(year, month)
      /\ day = date.day \/ day >= 28
  BY <1>1, <1>7 DEF AtMost
<1>. HIDE DEF day
<1>9. LET later == AddMonths(date, k)
      IN later.year = year /\ later.month = month /\ later.day = day /\ later \in Date
  BY <1>3, <1>5, <1>8 DEF Date
<1>. QED  BY <1>6, <1>8, <1>9 DEF IsDate, MonthIndex
-----------------------------------------------------------------------------
(* The invariant is what is to be proved: MonthsAreServed with the types.  *)

IInv == CalendarTypeOK /\ MonthsAreServed

LEMMA Initially == CalendarInit => IInv
<1>. SUFFICES ASSUME CalendarInit PROVE IInv
  OBVIOUS
<1>1. IsDate(start) /\ end = start /\ months = 0
  BY CalendarAssumption DEF CalendarInit, IsDate, Date
<1>2. start.year \in Nat /\ start.month \in 1..12 /\ start.day \in 1..31
  BY <1>1 DEF IsDate, Date
<1>. QED  BY <1>1, <1>2, CalendarAssumption DEF IInv, CalendarTypeOK, MonthsAreServed, MonthIndex

LEMMA RenewStep == ASSUME IInv, NEW cycle \in Cycles, Renew(cycle) PROVE IInv'
<1>. DEFINE k == MonthsOf(cycle)
<1>1. /\ k \in Nat /\ months + k <= MaxMonths /\ months' = months + k
      /\ end' = AddMonths(end, k) /\ start' = start
  BY CycleMonths DEF Renew, CalculateSubscriptionEndDate
<1>. HIDE DEF k
<1>2. /\ IsDate(start) /\ IsDate(end) /\ months \in 0..MaxMonths
      /\ MonthIndex(end) = MonthIndex(start) + months
      /\ end.day <= start.day /\ start.day <= end.day + 3
  BY DEF IInv, CalendarTypeOK, MonthsAreServed
<1>3. /\ IsDate(end') /\ MonthIndex(end') = MonthIndex(end) + k
      /\ end'.day <= end.day /\ (end'.day = end.day \/ end'.day >= 28)
  <2>. DEFINE later == AddMonths(end, k)
  <2>1. /\ IsDate(later) /\ MonthIndex(later) = MonthIndex(end) + k
        /\ later.day <= end.day /\ (later.day = end.day \/ later.day >= 28)
    BY <1>1, <1>2, MonthsLater
  <2>. QED  BY <1>1, <2>1
<1>4. /\ start.day \in 1..31 /\ end.day \in 1..31 /\ end'.day \in 1..31
      /\ start.year \in Nat /\ start.month \in 1..12
  BY <1>2, <1>3 DEF IsDate, Date
<1>5. MonthIndex(start) \in Nat
  BY <1>4 DEF MonthIndex
<1>6. MonthIndex(end') = MonthIndex(start) + months'
  BY <1>1, <1>2, <1>3, <1>5, CalendarAssumption
<1>7. end'.day <= start.day /\ start.day <= end'.day + 3
  BY <1>2, <1>3, <1>4
<1>8. months' \in 0..MaxMonths
  BY <1>1, <1>2, CalendarAssumption
<1>9. CalendarTypeOK'
  BY <1>1, <1>2, <1>3, <1>8 DEF CalendarTypeOK
<1>10. MonthsAreServed'
  BY <1>1, <1>3, <1>6, <1>7 DEF MonthsAreServed
<1>. QED  BY <1>9, <1>10 DEF IInv

LEMMA Step == IInv /\ [CalendarNext]_calendarVars => IInv'
<1>. SUFFICES ASSUME IInv, [CalendarNext]_calendarVars PROVE IInv'
  OBVIOUS
<1>1. CASE UNCHANGED calendarVars
  BY <1>1 DEF IInv, CalendarTypeOK, MonthsAreServed, calendarVars
<1>2. ASSUME NEW cycle \in Cycles, Renew(cycle) PROVE IInv'
  BY <1>2, RenewStep
<1>. QED  BY <1>1, <1>2 DEF CalendarNext
-----------------------------------------------------------------------------
\* Start and end are days that exist, within the bound on months.
THEOREM TypeCorrect == CalendarSpec => []CalendarTypeOK
<1>1. IInv => CalendarTypeOK
  BY DEF IInv
<1>. QED  BY <1>1, Initially, Step, PTL DEF CalendarSpec

\* A subscription renewed in any sequence of cycles ends in the month that was
\* paid for, at most three days of the month early and never late.
THEOREM MonthsServed == CalendarSpec => []MonthsAreServed
<1>1. IInv => MonthsAreServed
  BY DEF IInv
<1>. QED  BY <1>1, Initially, Step, PTL DEF CalendarSpec
=============================================================================
