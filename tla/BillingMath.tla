---------------------------- MODULE BillingMath ----------------------------
(***************************************************************************)
(* The money and calendar arithmetic that the API, the worker and the web  *)
(* console share (packages/shared).  Money is in paise, a tax rate in      *)
(* hundredths of a percent: the two decimal places of the code's Decimals. *)
(***************************************************************************)
EXTENDS Naturals, Sequences, SequencesExt

Percent == 100
StandardRate == 18 * Percent

\* toDecimalPlaces(2, ROUND_HALF_UP) of the quotient n / d.
RoundHalfUp(n, d) == (2 * n + d) \div (2 * d)

Tax(amount, rate) == RoundHalfUp(amount * rate, 100 * Percent)

\* A discount is never more than what it is taken from.
AtMost(n, limit) == IF n > limit THEN limit ELSE n

CalculateLineItem(item) ==
  LET gross   == item.unitPrice * item.quantity
      taxable == gross - AtMost(item.discount, gross)
      tax     == Tax(taxable, item.rate)
  IN  [taxable |-> taxable, tax |-> tax, total |-> taxable + tax]

\* Variant with a fault: the state's half is not added.
CentralTaxOnly(taxable, intraState, rate) ==
  IF intraState THEN Tax(taxable, RoundHalfUp(rate, 2)) ELSE Tax(taxable, rate)

\* Intra-state: half the rate to the centre, half to the state.
TotalTax(taxable, intraState, rate) ==
  IF intraState THEN 2 * Tax(taxable, RoundHalfUp(rate, 2)) ELSE Tax(taxable, rate)

SumOf(amounts) == FoldLeft(LAMBDA sum, amount : sum + amount, 0, amounts)

\* The taxes of the header come from defaultTaxRate, whatever the items carry.
CalculateInvoiceTotals(items, discount, intraState, defaultTaxRate) ==
  LET lines    == [i \in DOMAIN items |-> CalculateLineItem(items[i])]
      subtotal == SumOf([i \in DOMAIN lines |-> lines[i].taxable])
      taxable  == subtotal - AtMost(discount, subtotal)
      tax      == TotalTax(taxable, intraState, defaultTaxRate)
  IN  [subtotal |-> subtotal, tax |-> tax, total |-> taxable + tax,
       items |-> SumOf([i \in DOMAIN lines |-> lines[i].total])]
-----------------------------------------------------------------------------
(* Subscription periods, in the organization's calendar *)

IsLeapYear(year) == (year % 4 = 0 /\ year % 100 # 0) \/ year % 400 = 0

GetDaysInMonth(year, month) ==
  IF month = 2 THEN IF IsLeapYear(year) THEN 29 ELSE 28
  ELSE IF month \in {4, 6, 9, 11} THEN 30 ELSE 31

MonthsOf(billingCycle) ==
  CASE billingCycle = "QUARTERLY"   -> 3
    [] billingCycle = "HALF_YEARLY" -> 6
    [] billingCycle = "ANNUAL"      -> 12
    [] OTHER                        -> 1

\* Variant with a fault: the day is kept, for the Date to carry it over.
AddMonthsUnclamped(date, months) ==
  [year  |-> date.year + (date.month + months - 1) \div 12,
   month |-> ((date.month + months - 1) % 12) + 1,
   day   |-> date.day]

\* Variant with a fault: December is the month 0 of the next year.
AddMonthsFromZero(date, months) ==
  LET month == (date.month + months) % 12
      year  == date.year + (date.month + months) \div 12
  IN  [year  |-> year, month |-> month,
       day   |-> AtMost(date.day, GetDaysInMonth(year, month))]

\* The same day some months later, or the last day of that month.
AddMonths(date, months) ==
  LET month == ((date.month + months - 1) % 12) + 1
      year  == date.year + (date.month + months - 1) \div 12
  IN  [year  |-> year, month |-> month,
       day   |-> AtMost(date.day, GetDaysInMonth(year, month))]

\* For every cycle but CUSTOM, which adds days (see CalculateEndDate in
\* SubscriptionFsm).
CalculateSubscriptionEndDate(start, billingCycle) ==
  AddMonths(start, MonthsOf(billingCycle))
=============================================================================
