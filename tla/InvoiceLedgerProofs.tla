------------------------ MODULE InvoiceLedgerProofs ------------------------
(***************************************************************************)
(* Proofs about InvoiceLedger: that its invariants hold for any number of  *)
(* transactions, plans, events and invoices.  The arithmetic of one line   *)
(* item comes first, then the invariant that every step preserves.         *)
(***************************************************************************)
EXTENDS InvoiceLedger, TLAPS

\* Max from the community modules, of the indices of a sequence of one.
LEMMA MaxOfOne == Max({1}) = 1
  BY DEF Max

\* SumOf folds from the left; for one amount the fold is unrolled by hand.
LEMMA SumOfOne ==
  ASSUME NEW f, DOMAIN f = {1}, f[1] \in Nat
  PROVE  SumOf(f) = f[1]
<1>. DEFINE Body(i) == [s \in SUBSET {1} |->
                          IF s = {} THEN 0 ELSE i[s \ {Max(s)}] + f[Max(s)]]
            it == CHOOSE i : i = Body(i)
            w == [s \in SUBSET {1} |-> IF s = {} THEN 0 ELSE f[1]]
<1>1. SumOf(f) = it[{1}]
  BY DEF SumOf, FoldLeft, MapThenFoldSet
<1>2. \A s \in SUBSET {1} : IF s = {} THEN w[s] = 0
                            ELSE /\ Max(s) = 1 /\ s \ {Max(s)} = {}
                                 /\ w[s] = w[s \ {Max(s)}] + f[Max(s)]
  <2>. SUFFICES ASSUME NEW s \in SUBSET {1}, s # {}
                PROVE  Max(s) = 1 /\ s \ {Max(s)} = {} /\ w[s] = w[s \ {Max(s)}] + f[Max(s)]
    OBVIOUS
  <2>1. s = {1}
    OBVIOUS
  <2>2. Max(s) = 1
    BY <2>1, MaxOfOne
  <2>3. s \ {Max(s)} = {}
    BY <2>1, <2>2
  <2>4. w[{}] = 0 /\ w[{1}] = f[1]
    OBVIOUS
  <2>. QED  BY <2>1, <2>2, <2>3, <2>4
<1>3. w = Body(w)
  BY <1>2
<1>4. it = Body(it)
  <2>. HIDE DEF Body
  <2>. QED  BY <1>3
<1>5. it[{1}] = it[{}] + f[1]
  <2>1. {1} \in SUBSET {1} /\ {1} # {} /\ {1} \ {1} = {}
    OBVIOUS
  <2>2. \A i : Body(i)[{1}] = i[{1} \ {Max({1})}] + f[Max({1})]
    BY <2>1
  <2>. HIDE DEF it, Body
  <2>. QED  BY <1>4, <2>1, <2>2, MaxOfOne
<1>6. it[{}] = 0
  <2>2. \A i : Body(i)[{}] = 0
    OBVIOUS
  <2>. HIDE DEF it, Body
  <2>. QED  BY <1>4, <2>2
<1>. QED  BY <1>1, <1>5, <1>6
\* The standard rate in hundredths of a percent, and its half.
LEMMA Halved == StandardRate = 1800 /\ RoundHalfUp(StandardRate, 2) = 900 /\ 100 * Percent = 10000
  BY DEF StandardRate, Percent, RoundHalfUp

\* Tax is within half a paisa of the exact tax.
LEMMA TaxBounds ==
  ASSUME NEW amount \in Nat, NEW rate \in Nat
  PROVE  /\ Tax(amount, rate) \in Nat
         /\ 20000 * Tax(amount, rate) <= 2 * (amount * rate) + 10000
         /\ 2 * (amount * rate) + 10000 < 20000 * Tax(amount, rate) + 20000
<1>. DEFINE n == 2 * (amount * rate) + 10000
<1>1. n \in Nat
  OBVIOUS
<1>2. Tax(amount, rate) = n \div 20000
  BY Halved DEF Tax, RoundHalfUp
<1>. HIDE DEF n
<1>3. n \div 20000 \in Nat /\ 20000 * (n \div 20000) <= n /\ n < 20000 * (n \div 20000) + 20000
  BY <1>1
<1>. QED  BY <1>2, <1>3 DEF n

LEMMA TaxIsNat ==
  ASSUME NEW amount \in Nat, NEW rate \in Nat
  PROVE  Tax(amount, rate) \in Nat
  BY TaxBounds

\* Rounding the two halves of the tax apart costs or gains at most a paisa.
LEMMA HalvesAgree ==
  ASSUME NEW t \in Nat
  PROVE  /\ Tax(t, 900) \in Nat /\ Tax(t, 1800) \in Nat
         /\ 2 * Tax(t, 900) <= Tax(t, 1800) + 1
         /\ Tax(t, 1800) <= 2 * Tax(t, 900) + 1
<1>. DEFINE a == Tax(t, 900)
            b == Tax(t, 1800)
<1>1. /\ a \in Nat /\ 20000 * a <= 1800 * t + 10000 /\ 1800 * t + 10000 < 20000 * a + 20000
      /\ b \in Nat /\ 20000 * b <= 3600 * t + 10000 /\ 3600 * t + 10000 < 20000 * b + 20000
  <2>1. /\ a \in Nat /\ 20000 * a <= 2 * (t * 900) + 10000
        /\ 2 * (t * 900) + 10000 < 20000 * a + 20000
    BY TaxBounds
  <2>2. /\ b \in Nat /\ 20000 * b <= 2 * (t * 1800) + 10000
        /\ 2 * (t * 1800) + 10000 < 20000 * b + 20000
    BY TaxBounds
  <2>. HIDE DEF a, b
  <2>. QED  BY <2>1, <2>2
<1>. HIDE DEF a, b
<1>2. 2 * a <= b + 1 /\ b <= 2 * a + 1
  BY <1>1
<1>. QED  BY <1>1, <1>2 DEF a, b

LineItem == [unitPrice : Nat, quantity : Nat \ {0}, discount : Nat, rate : Nat]

\* The amounts of an invoice with one line.
LEMMA OneLine ==
  ASSUME NEW item \in LineItem, NEW discount \in Nat, NEW intraState \in BOOLEAN
  PROVE  LET line == CalculateLineItem(item)
             sums == CalculateInvoiceTotals(<<item>>, discount, intraState, StandardRate)
             taxable == line.taxable - AtMost(discount, line.taxable)
         IN /\ line.taxable \in Nat /\ taxable \in Nat
            /\ sums.items = line.taxable + Tax(line.taxable, item.rate)
            /\ sums.total = taxable + TotalTax(taxable, intraState, StandardRate)
<1>. DEFINE line == CalculateLineItem(item)
            lines == [i \in DOMAIN <<item>> |-> CalculateLineItem(<<item>>[i])]
            untaxed == [i \in DOMAIN lines |-> lines[i].taxable]
            taxed == [i \in DOMAIN lines |-> lines[i].total]
            taxable == line.taxable - AtMost(discount, line.taxable)
<1>1. line.taxable \in Nat /\ line.total = line.taxable + Tax(line.taxable, item.rate)
  <2>1. item.unitPrice * item.quantity \in Nat
    BY DEF LineItem
  <2>2. \A g \in Nat : g - AtMost(item.discount, g) \in Nat
    BY DEF LineItem, AtMost
  <2>. QED  BY <2>1, <2>2 DEF CalculateLineItem
<1>2. line.total \in Nat
  <2>1. Tax(line.taxable, item.rate) \in Nat
    BY <1>1, TaxIsNat DEF LineItem
  <2>. QED  BY <1>1, <2>1
<1>3. DOMAIN <<item>> = {1} /\ <<item>>[1] = item
  OBVIOUS
<1>4. DOMAIN untaxed = {1} /\ untaxed[1] = line.taxable
  BY <1>3
<1>5. DOMAIN taxed = {1} /\ taxed[1] = line.total
  BY <1>3
<1>. HIDE DEF lines, untaxed, taxed, line
<1>6. SumOf(untaxed) = line.taxable /\ SumOf(taxed) = line.total
  BY <1>1, <1>2, <1>4, <1>5, SumOfOne
<1>7. LET sums == CalculateInvoiceTotals(<<item>>, discount, intraState, StandardRate)
      IN /\ sums.items = SumOf(taxed)
         /\ sums.total = SumOf(untaxed) - AtMost(discount, SumOf(untaxed))
                         + TotalTax(SumOf(untaxed) - AtMost(discount, SumOf(untaxed)),
                                    intraState, StandardRate)
  BY DEF CalculateInvoiceTotals, lines, untaxed, taxed
<1>8. taxable \in Nat
  BY <1>1 DEF AtMost
<1>. QED  BY <1>1, <1>6, <1>7, <1>8 DEF line

\* The tax of a header is a number of paise.
LEMMA TotalTaxIsNat ==
  ASSUME NEW t \in Nat, NEW intraState \in BOOLEAN
  PROVE  TotalTax(t, intraState, StandardRate) \in Nat
<1>1. Tax(t, 900) \in Nat /\ Tax(t, 1800) \in Nat
  BY HalvesAgree
<1>. QED  BY <1>1, Halved DEF TotalTax

StandardRates == \A p \in Plans : Rate[p] = StandardRate

Agrees(m, n) == m <= n + 1 /\ n <= m + 1

\* What Open and Create compute; and for a plan at the standard rate the header
\* is within a paisa of the line.
LEMMA Sums ==
  ASSUME NEW item \in LineItem, NEW discount \in Nat, NEW intraState \in BOOLEAN
  PROVE  LET sums == CalculateInvoiceTotals(<<item>>, discount, intraState, StandardRate)
         IN /\ sums.total \in Nat /\ sums.items \in Nat
            /\ discount = 0 /\ item.rate = StandardRate => Agrees(sums.total, sums.items)
<1>. DEFINE line == CalculateLineItem(item)
            sums == CalculateInvoiceTotals(<<item>>, discount, intraState, StandardRate)
            taxable == line.taxable - AtMost(discount, line.taxable)
<1>1. /\ line.taxable \in Nat /\ taxable \in Nat
      /\ sums.items = line.taxable + Tax(line.taxable, item.rate)
      /\ sums.total = taxable + TotalTax(taxable, intraState, StandardRate)
  BY OneLine
<1>2. discount = 0 => taxable = line.taxable
  BY <1>1 DEF AtMost
<1>3. Tax(line.taxable, item.rate) \in Nat
  BY <1>1, TaxIsNat DEF LineItem
<1>. HIDE DEF line, sums, taxable
<1>4. TotalTax(taxable, intraState, StandardRate) \in Nat
  BY <1>1, TotalTaxIsNat
<1>5. ASSUME discount = 0, item.rate = StandardRate
      PROVE  Agrees(sums.total, sums.items)
  <2>. DEFINE t == line.taxable
  <2>1. /\ t \in Nat /\ sums.items = t + Tax(t, 1800)
        /\ sums.total = t + TotalTax(t, intraState, StandardRate)
    BY <1>1, <1>2, <1>5, Halved
  <2>2. TotalTax(t, intraState, StandardRate) \in {2 * Tax(t, 900), Tax(t, 1800)}
    BY Halved DEF TotalTax
  <2>. HIDE DEF t
  <2>3. /\ Tax(t, 900) \in Nat /\ Tax(t, 1800) \in Nat
        /\ 2 * Tax(t, 900) <= Tax(t, 1800) + 1 /\ Tax(t, 1800) <= 2 * Tax(t, 900) + 1
    BY <2>1, HalvesAgree
  <2>. QED  BY <2>1, <2>2, <2>3 DEF Agrees
<1>. QED  BY <1>1, <1>3, <1>4, <1>5 DEF sums
-----------------------------------------------------------------------------
(* The invariant *)

\* A transaction that has looked for the invoice of its event holds the lock, and
\* what it did not find nobody else has written.
NotYetBilled(w) ==
  writer[w].pc \in {"counting", "counted", "numbered", "inserted"} /\ writer[w].event # Manual
    => ~Billed(writer[w].event)

\* The number of a transaction is the count it has read plus one, and the ledger
\* has not become shorter; it is refused only after it has become longer.
NumberFollowsCount(w) ==
  /\ writer[w].pc \in {"counted", "numbered", "inserted", "refused"} =>
       writer[w].number.seq = writer[w].since + 1 /\ writer[w].since <= Len(ledger)
  /\ writer[w].pc = "refused" => writer[w].since < Len(ledger)

AmountsAgree(w) ==
  StandardRates /\ writer[w].pc # "idle" /\ writer[w].event # Manual =>
    Agrees(writer[w].total, writer[w].items)

Sound(w) == NotYetBilled(w) /\ NumberFollowsCount(w) /\ AmountsAgree(w)

OneHolder ==
  \A v, w \in Writers :
    HoldsLock(v) /\ HoldsLock(w) /\ EventKey(writer[v].event) = EventKey(writer[w].event)
      => v = w

\* A row's number is never ahead of its place.
NumbersLag == \A i \in DOMAIN ledger : ledger[i].number.seq <= i

HeadersAgree ==
  \A i \in DOMAIN ledger :
    StandardRates /\ ledger[i].event # Manual => Agrees(ledger[i].total, ledger[i].items)

IInv ==
  /\ LedgerTypeOK /\ OneInvoicePerEvent /\ OneHolder /\ NumbersLag /\ HeadersAgree
  /\ \A w \in Writers : Sound(w)
-----------------------------------------------------------------------------
LEMMA Initially == LedgerInit => IInv
<1>. SUFFICES ASSUME LedgerInit PROVE IInv
  OBVIOUS
<1>1. ledger = <<>> /\ \A w \in Writers : writer[w] = NoTransaction
  BY DEF LedgerInit
<1>2. LedgerTypeOK
  BY LedgerAssumption DEF LedgerInit, LedgerTypeOK
<1>3. \A w \in Writers : writer[w].pc = "idle"
  BY <1>1 DEF NoTransaction
<1>. QED
  BY <1>1, <1>2, <1>3 DEF IInv, OneInvoicePerEvent, OneHolder, HoldsLock, NumbersLag,
     HeadersAgree, Sound, NotYetBilled, NumberFollowsCount, AmountsAgree

\* A transaction goes on and the ledger stays as it is.
LEMMA WriterStep ==
  ASSUME IInv, UNCHANGED ledger,
         NEW w \in Writers, NEW t \in Transaction \cup {NoTransaction},
         writer' = [writer EXCEPT ![w] = t],
         Sound(w)',
         \A v \in Writers \ {w} : HoldsLock(v) /\ HoldsLock(w)' =>
           EventKey(writer[v].event) # EventKey(t.event)
  PROVE  IInv'
<1>1. /\ writer' \in [Writers -> Transaction \cup {NoTransaction}] /\ writer'[w] = t
      /\ \A v \in Writers \ {w} : writer'[v] = writer[v]
  BY DEF IInv, LedgerTypeOK
<1>2. LedgerTypeOK'
  BY <1>1 DEF IInv, LedgerTypeOK
<1>3. \A v \in Writers \ {w} : Sound(v)'
  <2>. SUFFICES ASSUME NEW v \in Writers \ {w} PROVE Sound(v)'
    OBVIOUS
  <2>1. Sound(v) /\ writer'[v] = writer[v]
    BY <1>1 DEF IInv
  <2>2. NotYetBilled(v)'
    BY <2>1 DEF Sound, NotYetBilled, Billed
  <2>3. NumberFollowsCount(v)' /\ AmountsAgree(v)'
    BY <2>1 DEF Sound, NumberFollowsCount, AmountsAgree
  <2>. QED  BY <2>2, <2>3 DEF Sound
<1>4. OneHolder'
  <2>. SUFFICES ASSUME NEW u \in Writers, NEW v \in Writers, HoldsLock(u)', HoldsLock(v)',
                       EventKey(writer'[u].event) = EventKey(writer'[v].event)
                PROVE  u = v
    BY DEF OneHolder
  <2>1. \A x \in Writers \ {w} : HoldsLock(x)' = HoldsLock(x)
    BY <1>1 DEF HoldsLock
  <2>. QED  BY <1>1, <2>1 DEF IInv, OneHolder
<1>5. OneInvoicePerEvent' /\ NumbersLag' /\ HeadersAgree'
  BY DEF IInv, OneInvoicePerEvent, NumbersLag, HeadersAgree
<1>. QED  BY <1>2, <1>3, <1>4, <1>5 DEF IInv

\* A transaction of the same event goes on, and holds the lock already if it does
\* afterwards.
LEMMA BecomesStep ==
  ASSUME IInv, NEW w \in Writers, NEW pc, NEW number \in Number, NEW since \in 0..MaxRows,
         writer[w].pc # "idle", Becomes(w, pc, number, since),
         pc \in {"open", "locked", "counting", "counted", "numbered", "inserted", "refused"},
         writer[w].event # Manual /\ pc # "refused" => HoldsLock(w),
         NotYetBilled(w)', NumberFollowsCount(w)'
  PROVE  IInv'
<1>. DEFINE t == [pc |-> pc, event |-> writer[w].event, number |-> number, since |-> since,
                  total |-> writer[w].total, items |-> writer[w].items]
<1>1. writer[w] \in Transaction
  BY DEF IInv, LedgerTypeOK, NoTransaction
<1>2. t \in Transaction
  BY <1>1 DEF Transaction
<1>3. writer' = [writer EXCEPT ![w] = t] /\ UNCHANGED ledger
  BY DEF Becomes
<1>4. writer'[w] = t
  BY <1>3 DEF IInv, LedgerTypeOK
<1>5. AmountsAgree(w)'
  <2>1. AmountsAgree(w)
    BY DEF IInv, Sound
  <2>. QED  BY <1>4, <2>1 DEF AmountsAgree, StandardRates
<1>6. HoldsLock(w)' => HoldsLock(w)
  BY <1>4 DEF HoldsLock
<1>7. \A v \in Writers \ {w} : HoldsLock(v) /\ HoldsLock(w)' =>
        EventKey(writer[v].event) # EventKey(t.event)
  BY <1>6 DEF IInv, OneHolder
<1>8. Sound(w)'
  BY <1>5 DEF Sound
<1>. HIDE DEF t
<1>. QED  BY <1>2, <1>3, <1>7, <1>8, WriterStep

LEMMA BeginStep ==
  ASSUME IInv, NEW w \in Writers, NEW pc \in {"open", "counting"},
         NEW event \in Events \cup {Manual}, NEW sums,
         Begin(w, pc, event, sums), pc = "counting" => event = Manual,
         sums.total \in Nat, sums.items \in Nat,
         StandardRates /\ event # Manual => Agrees(sums.total, sums.items)
  PROVE  IInv'
<1>. DEFINE t == [pc |-> pc, event |-> event, number |-> [seq |-> 1, stamp |-> 0],
                  since |-> 0, total |-> sums.total, items |-> sums.items]
<1>1. t \in Transaction
  BY LedgerAssumption DEF Transaction, Number
<1>2. writer' = [writer EXCEPT ![w] = t] /\ UNCHANGED ledger
  BY DEF Begin
<1>3. writer'[w] = t
  BY <1>2 DEF IInv, LedgerTypeOK
<1>4. Sound(w)'
  BY <1>3 DEF Sound, NotYetBilled, NumberFollowsCount, AmountsAgree, StandardRates
<1>5. ~HoldsLock(w)'
  BY <1>3 DEF HoldsLock
<1>. HIDE DEF t
<1>. QED  BY <1>1, <1>2, <1>4, <1>5, WriterStep

LEMMA OpenStep == ASSUME IInv, NEW w \in Writers, Open(w) PROVE IInv'
<1>1. PICK e \in Events, intraState \in BOOLEAN :
        Begin(w, "open", e,
              CalculateInvoiceTotals(<<PlanItem(e.plan)>>, 0, intraState, StandardRate))
  BY DEF Open
<1>. DEFINE sums == CalculateInvoiceTotals(<<PlanItem(e.plan)>>, 0, intraState, StandardRate)
<1>2. e.plan \in Plans
  BY LedgerAssumption
<1>3. PlanItem(e.plan) \in LineItem /\ PlanItem(e.plan).rate = Rate[e.plan]
  BY <1>2, LedgerAssumption DEF PlanItem, LineItem
<1>4. /\ sums.total \in Nat /\ sums.items \in Nat
      /\ StandardRates => Agrees(sums.total, sums.items)
  BY <1>2, <1>3, Sums DEF StandardRates
<1>. HIDE DEF sums
<1>5. Begin(w, "open", e, sums)
  BY <1>1 DEF sums
<1>. QED  BY <1>4, <1>5, BeginStep

LEMMA CreateStep == ASSUME IInv, NEW w \in Writers, Create(w) PROVE IInv'
<1>1. PICK item \in ManualItems, discount \in Discounts, intraState \in BOOLEAN :
        Begin(w, "counting", Manual,
              CalculateInvoiceTotals(<<item>>, discount, intraState, StandardRate))
  BY DEF Create
<1>. DEFINE sums == CalculateInvoiceTotals(<<item>>, discount, intraState, StandardRate)
<1>2. item \in LineItem /\ discount \in Nat
  BY LedgerAssumption DEF LineItem
<1>3. sums.total \in Nat /\ sums.items \in Nat
  BY <1>2, Sums
<1>. HIDE DEF sums
<1>4. Begin(w, "counting", Manual, sums)
  BY <1>1 DEF sums
<1>. QED  BY <1>3, <1>4, BeginStep

LEMMA LockStep == ASSUME IInv, NEW w \in Writers, Lock(w) PROVE IInv'
<1>. DEFINE t == [pc |-> "locked", event |-> writer[w].event, number |-> writer[w].number,
                  since |-> writer[w].since, total |-> writer[w].total,
                  items |-> writer[w].items]
<1>1. writer[w] \in Transaction /\ writer[w].pc = "open"
  BY DEF IInv, LedgerTypeOK, NoTransaction, Lock
<1>2. t \in Transaction
  BY <1>1 DEF Transaction
<1>3. writer' = [writer EXCEPT ![w] = t] /\ UNCHANGED ledger
  BY DEF Lock, Goes, Becomes
<1>4. writer'[w] = t
  BY <1>3 DEF IInv, LedgerTypeOK
<1>5. Sound(w)'
  <2>1. AmountsAgree(w)
    BY DEF IInv, Sound
  <2>2. AmountsAgree(w)'
    BY <1>1, <1>4, <2>1 DEF AmountsAgree, StandardRates
  <2>. QED  BY <1>4, <2>2 DEF Sound, NotYetBilled, NumberFollowsCount
<1>6. \A v \in Writers : HoldsLock(v) => EventKey(writer[v].event) # EventKey(t.event)
  BY DEF Lock
<1>. HIDE DEF t
<1>. QED  BY <1>2, <1>3, <1>5, <1>6, WriterStep

\* A transaction ends and writes nothing.
LEMMA EndsStep ==
  ASSUME IInv, NEW w \in Writers, Ends(w), UNCHANGED ledger
  PROVE  IInv'
<1>1. writer' = [writer EXCEPT ![w] = NoTransaction]
  BY DEF Ends
<1>2. writer'[w].pc = "idle"
  BY <1>1 DEF IInv, LedgerTypeOK, NoTransaction
<1>3. Sound(w)' /\ ~HoldsLock(w)'
  BY <1>2 DEF Sound, NotYetBilled, NumberFollowsCount, AmountsAgree, HoldsLock
<1>. QED  BY <1>1, <1>3, WriterStep

\* What stands for the transaction of w after Becomes.
LEMMA Became ==
  ASSUME IInv, NEW w \in Writers, NEW pc, NEW number, NEW since, Becomes(w, pc, number, since)
  PROVE  /\ writer'[w].pc = pc /\ writer'[w].event = writer[w].event
         /\ writer'[w].number = number /\ writer'[w].since = since
         /\ UNCHANGED ledger
  BY DEF IInv, LedgerTypeOK, Becomes

LEMMA FindExistingStep == ASSUME IInv, NEW w \in Writers, FindExisting(w) PROVE IInv'
<1>1. CASE Ends(w) /\ UNCHANGED ledger
  BY <1>1, EndsStep
<1>2. CASE ~Billed(writer[w].event) /\ Goes(w, "counting")
  <2>1. Becomes(w, "counting", writer[w].number, writer[w].since) /\ writer[w].pc = "locked"
    BY <1>2 DEF Goes, FindExisting
  <2>2. writer[w].number \in Number /\ writer[w].since \in 0..MaxRows
    BY <2>1 DEF IInv, LedgerTypeOK, NoTransaction, Transaction
  <2>3. NotYetBilled(w)' /\ NumberFollowsCount(w)'
    BY <1>2, <2>1, Became DEF NotYetBilled, NumberFollowsCount, Billed
  <2>4. writer[w].event # Manual => HoldsLock(w)
    BY <2>1 DEF HoldsLock
  <2>. QED  BY <2>1, <2>2, <2>3, <2>4, BecomesStep
<1>. QED  BY <1>1, <1>2 DEF FindExisting

LEMMA CountStep == ASSUME IInv, NEW w \in Writers, Count(w) PROVE IInv'
<1>. DEFINE number == [seq |-> InvoiceCount + 1, stamp |-> 0]
<1>1. Becomes(w, "counted", number, Len(ledger)) /\ writer[w].pc = "counting"
  BY DEF Count
<1>2. Len(ledger) \in 0..MaxRows
  BY DEF IInv, LedgerTypeOK
<1>3. number \in Number /\ number.seq = Len(ledger) + 1
  BY <1>2, LedgerAssumption DEF Number, InvoiceCount
<1>4. NotYetBilled(w)
  BY DEF IInv, Sound
<1>. HIDE DEF number
<1>5. NotYetBilled(w)' /\ NumberFollowsCount(w)'
  BY <1>1, <1>2, <1>3, <1>4, Became DEF NotYetBilled, NumberFollowsCount, Billed
<1>6. writer[w].event # Manual => HoldsLock(w)
  BY <1>1 DEF HoldsLock
<1>. QED  BY <1>1, <1>2, <1>3, <1>5, <1>6, BecomesStep

\* From the count to the insertion: the number keeps its sequence number.
LEMMA NumberedStep ==
  ASSUME IInv, NEW w \in Writers, NEW pc \in {"numbered", "inserted", "refused"},
         NEW number \in Number, writer[w].pc \in {"counted", "numbered"},
         Becomes(w, pc, number, writer[w].since), number.seq = writer[w].number.seq,
         pc = "refused" => writer[w].since < Len(ledger)
  PROVE  IInv'
<1>1. writer[w].since \in 0..MaxRows
  BY DEF IInv, LedgerTypeOK, NoTransaction, Transaction
<1>2. NotYetBilled(w) /\ NumberFollowsCount(w)
  BY DEF IInv, Sound
<1>3. NotYetBilled(w)' /\ NumberFollowsCount(w)'
  BY <1>2, Became DEF NotYetBilled, NumberFollowsCount, Billed
<1>4. HoldsLock(w) \/ writer[w].event = Manual
  BY DEF HoldsLock
<1>. QED  BY <1>1, <1>3, <1>4, BecomesStep

LEMMA AvoidCollisionStep == ASSUME IInv, NEW w \in Writers, AvoidCollision(w) PROVE IInv'
<1>1. Becomes(w, "numbered", writer[w].number, writer[w].since) /\ writer[w].pc = "counted"
  BY DEF AvoidCollision, Goes
<1>2. writer[w].number \in Number
  BY <1>1 DEF IInv, LedgerTypeOK, NoTransaction, Transaction
<1>. QED  BY <1>1, <1>2, NumberedStep

LEMMA AddSuffixStep == ASSUME IInv, NEW w \in Writers, AddSuffix(w) PROVE IInv'
<1>1. PICK t \in Stamps :
        Becomes(w, "numbered", [seq |-> writer[w].number.seq, stamp |-> t], writer[w].since)
  BY DEF AddSuffix
<1>. DEFINE number == [seq |-> writer[w].number.seq, stamp |-> t]
<1>2. writer[w].pc = "counted"
  BY DEF AddSuffix
<1>3. writer[w].number \in Number
  BY <1>2 DEF IInv, LedgerTypeOK, NoTransaction, Transaction
<1>4. number \in Number /\ number.seq = writer[w].number.seq
  BY <1>3 DEF Number
<1>. HIDE DEF number
<1>5. Becomes(w, "numbered", number, writer[w].since)
  BY <1>1 DEF number
<1>. QED  BY <1>2, <1>4, <1>5, NumberedStep

\* Of a refused number there is a row, at or behind the place of the number.
LEMMA InsertStep == ASSUME IInv, NEW w \in Writers, Insert(w) PROVE IInv'
<1>. DEFINE pc == IF Taken(writer[w].number) THEN "refused" ELSE "inserted"
<1>1. Becomes(w, pc, writer[w].number, writer[w].since) /\ writer[w].pc = "numbered"
  BY DEF Insert, Goes
<1>2. writer[w].number \in Number /\ writer[w].since \in Nat
  BY <1>1 DEF IInv, LedgerTypeOK, NoTransaction, Transaction
<1>3. writer[w].number.seq = writer[w].since + 1
  BY <1>1 DEF IInv, Sound, NumberFollowsCount
<1>4. ASSUME Taken(writer[w].number) PROVE writer[w].since < Len(ledger)
  <2>1. PICK i \in DOMAIN ledger : ledger[i].number = writer[w].number
    BY <1>4 DEF Taken
  <2>2. writer[w].number.seq <= i
    BY <2>1 DEF IInv, NumbersLag
  <2>3. DOMAIN ledger = 1..Len(ledger) /\ Len(ledger) \in Nat
    BY DEF IInv, LedgerTypeOK
  <2>. QED  BY <1>2, <1>3, <2>2, <2>3
<1>5. pc \in {"numbered", "inserted", "refused"} /\ (pc = "refused" => writer[w].since < Len(ledger))
  BY <1>4
<1>. HIDE DEF pc
<1>. QED  BY <1>1, <1>2, <1>5, NumberedStep

LEMMA CommitStep == ASSUME IInv, NEW w \in Writers, Commit(w) PROVE IInv'
<1>. DEFINE row == [number |-> writer[w].number, event |-> writer[w].event,
                    status |-> "ISSUED", total |-> writer[w].total,
                    items |-> writer[w].items]
            n == Len(ledger)
<1>1. writer[w].pc = "inserted" /\ n < MaxRows /\ ledger' = Append(ledger, row)
  BY DEF Commit
<1>2. writer[w] \in Transaction /\ ledger \in Seq(Invoice) /\ n \in Nat
  BY <1>1 DEF IInv, LedgerTypeOK, NoTransaction
<1>3. row \in Invoice
  BY <1>2 DEF Transaction, Invoice
<1>4. /\ writer' \in [Writers -> Transaction \cup {NoTransaction}]
      /\ writer'[w].pc = "idle" /\ \A v \in Writers \ {w} : writer'[v] = writer[v]
  BY DEF Commit, Ends, IInv, LedgerTypeOK, NoTransaction
<1>5. NotYetBilled(w) /\ NumberFollowsCount(w) /\ AmountsAgree(w)
  BY DEF IInv, Sound
<1>6. /\ row.number.seq <= n + 1
      /\ StandardRates /\ row.event # Manual => Agrees(row.total, row.items)
      /\ row.event # Manual => HoldsLock(w) /\ ~Billed(row.event)
  <2>1. writer[w].since \in Nat
    BY <1>2 DEF Transaction
  <2>. QED  BY <1>1, <1>2, <1>5, <2>1
            DEF NumberFollowsCount, AmountsAgree, NotYetBilled, HoldsLock
<1>7. row.event = writer[w].event /\ row.status = "ISSUED"
  OBVIOUS
<1>. HIDE DEF row
<1>8. /\ ledger' \in Seq(Invoice) /\ Len(ledger') = n + 1
      /\ DOMAIN ledger' = 1..(n + 1) /\ DOMAIN ledger = 1..n
      /\ ledger'[n + 1] = row /\ \A i \in 1..n : ledger'[i] = ledger[i]
  BY <1>1, <1>2, <1>3
<1>. HIDE DEF n
<1>9. LedgerTypeOK'
  BY <1>1, <1>2, <1>4, <1>8, LedgerAssumption DEF LedgerTypeOK
<1>10. NumbersLag'
  BY <1>2, <1>6, <1>8 DEF IInv, NumbersLag
<1>11. HeadersAgree'
  BY <1>2, <1>6, <1>8 DEF IInv, HeadersAgree, StandardRates
<1>12. OneInvoicePerEvent'
  <2>. SUFFICES ASSUME NEW i \in 1..(n + 1), NEW j \in 1..(n + 1),
                       ledger'[i].event # Manual, ledger'[i].status = "ISSUED",
                       ledger'[j].event # Manual, ledger'[j].status = "ISSUED",
                       EventKey(ledger'[i].event) = EventKey(ledger'[j].event)
                PROVE  i = j
    BY <1>8 DEF OneInvoicePerEvent
  <2>1. CASE i \in 1..n /\ j \in 1..n
    BY <1>8, <2>1 DEF IInv, OneInvoicePerEvent
  <2>2. \A k \in 1..n : ledger[k].event # Manual /\ ledger[k].status = "ISSUED" /\ row.event # Manual
                          => EventKey(ledger[k].event) # EventKey(row.event)
    BY <1>6, <1>8 DEF Billed
  <2>3. CASE i = n + 1
    BY <1>2, <1>8, <2>2, <2>3
  <2>4. CASE j = n + 1
    BY <1>2, <1>8, <2>2, <2>4
  <2>. QED  BY <1>2, <2>1, <2>3, <2>4
<1>13. OneHolder'
  <2>1. \A v \in Writers : HoldsLock(v)' => v # w /\ HoldsLock(v)
    BY <1>4 DEF HoldsLock
  <2>. QED  BY <1>4, <2>1 DEF IInv, OneHolder
<1>14. \A v \in Writers : Sound(v)'
  <2>. SUFFICES ASSUME NEW v \in Writers PROVE Sound(v)'
    OBVIOUS
  <2>1. CASE v = w
    BY <1>4, <2>1 DEF Sound, NotYetBilled, NumberFollowsCount, AmountsAgree
  <2>2. CASE v # w
    <3>1. Sound(v) /\ writer'[v] = writer[v]
      BY <1>4, <2>2 DEF IInv
    <3>2. NotYetBilled(v)'
      <4>. SUFFICES ASSUME writer[v].pc \in {"counting", "counted", "numbered", "inserted"},
                           writer[v].event # Manual
                    PROVE  ~Billed(writer[v].event)'
        BY <3>1 DEF NotYetBilled
      <4>1. ~Billed(writer[v].event)
        BY <3>1 DEF Sound, NotYetBilled
      <4>2. HoldsLock(v)
        BY DEF HoldsLock
      <4>3. row.event # Manual => EventKey(row.event) # EventKey(writer[v].event)
        BY <1>6, <1>7, <2>2, <4>2 DEF IInv, OneHolder
      <4>. QED  BY <1>2, <1>8, <3>1, <4>1, <4>3 DEF Billed
    <3>3. NumberFollowsCount(v)'
      <4>1. writer[v].pc # "idle" => writer[v].since \in Nat
        BY DEF IInv, LedgerTypeOK, NoTransaction, Transaction
      <4>. QED  BY <1>2, <1>8, <3>1, <4>1 DEF Sound, NumberFollowsCount, n
    <3>4. AmountsAgree(v)'
      BY <3>1 DEF Sound, AmountsAgree, StandardRates
    <3>. QED  BY <3>2, <3>3, <3>4 DEF Sound
  <2>. QED  BY <2>1, <2>2
<1>. QED  BY <1>9, <1>10, <1>11, <1>12, <1>13, <1>14 DEF IInv

LEMMA CancelStep == ASSUME IInv, NEW i \in 1..MaxRows, Cancel(i) PROVE IInv'
<1>. DEFINE row == [number |-> ledger[i].number, event |-> ledger[i].event,
                    status |-> "CANCELLED", total |-> ledger[i].total,
                    items |-> ledger[i].items]
<1>1. i \in DOMAIN ledger /\ ledger' = [ledger EXCEPT ![i] = row] /\ UNCHANGED writer
  BY DEF Cancel
<1>2. ledger \in Seq(Invoice) /\ row \in Invoice
  <2>1. ledger \in Seq(Invoice)
    BY DEF IInv, LedgerTypeOK
  <2>2. ledger[i] \in Invoice
    BY <1>1, <2>1
  <2>. QED  BY <2>1, <2>2 DEF Invoice
<1>3. /\ row.number = ledger[i].number /\ row.event = ledger[i].event
      /\ row.status = "CANCELLED" /\ row.total = ledger[i].total /\ row.items = ledger[i].items
  OBVIOUS
<1>. HIDE DEF row
<1>4. /\ ledger' \in Seq(Invoice) /\ Len(ledger') = Len(ledger)
      /\ DOMAIN ledger' = DOMAIN ledger /\ ledger'[i] = row
      /\ \A j \in DOMAIN ledger \ {i} : ledger'[j] = ledger[j]
  BY <1>1, <1>2
<1>5. \A j \in DOMAIN ledger :
        /\ ledger'[j].number = ledger[j].number /\ ledger'[j].event = ledger[j].event
        /\ ledger'[j].total = ledger[j].total /\ ledger'[j].items = ledger[j].items
        /\ ledger'[j].status # "CANCELLED" => ledger'[j].status = ledger[j].status
  BY <1>3, <1>4
<1>6. \A e : Billed(e)' => Billed(e)
  BY <1>4, <1>5 DEF Billed
<1>7. LedgerTypeOK'
  BY <1>1, <1>4 DEF IInv, LedgerTypeOK
<1>8. OneInvoicePerEvent'
  BY <1>4, <1>5 DEF IInv, OneInvoicePerEvent
<1>9. NumbersLag' /\ HeadersAgree'
  BY <1>4, <1>5 DEF IInv, NumbersLag, HeadersAgree, StandardRates
<1>10. OneHolder'
  BY <1>1 DEF IInv, OneHolder, HoldsLock
<1>11. \A w \in Writers : Sound(w)'
  BY <1>1, <1>4, <1>6 DEF IInv, Sound, NotYetBilled, NumberFollowsCount, AmountsAgree, StandardRates
<1>. QED  BY <1>7, <1>8, <1>9, <1>10, <1>11 DEF IInv

LEMMA Step == IInv /\ [LedgerNext]_ledgerVars => IInv'
<1>. SUFFICES ASSUME IInv, [LedgerNext]_ledgerVars PROVE IInv'
  OBVIOUS
<1>1. CASE UNCHANGED ledgerVars
  <2>1. ledger' = ledger /\ writer' = writer
    BY <1>1 DEF ledgerVars
  <2>. QED
    BY <2>1 DEF IInv, LedgerTypeOK, OneInvoicePerEvent, OneHolder, HoldsLock, NumbersLag,
       HeadersAgree, Sound, NotYetBilled, NumberFollowsCount, AmountsAgree, Billed, StandardRates
<1>2. ASSUME NEW w \in Writers,
             \/ Open(w) \/ Create(w) \/ Lock(w) \/ FindExisting(w) \/ Count(w)
             \/ AvoidCollision(w) \/ AddSuffix(w) \/ Insert(w) \/ Commit(w) \/ Rollback(w)
      PROVE  IInv'
  <2>1. CASE Open(w)            BY <2>1, OpenStep
  <2>2. CASE Create(w)          BY <2>2, CreateStep
  <2>3. CASE Lock(w)            BY <2>3, LockStep
  <2>4. CASE FindExisting(w)    BY <2>4, FindExistingStep
  <2>5. CASE Count(w)           BY <2>5, CountStep
  <2>6. CASE AvoidCollision(w)  BY <2>6, AvoidCollisionStep
  <2>7. CASE AddSuffix(w)       BY <2>7, AddSuffixStep
  <2>8. CASE Insert(w)          BY <2>8, InsertStep
  <2>9. CASE Commit(w)          BY <2>9, CommitStep
  <2>10. CASE Rollback(w)       BY <2>10, EndsStep DEF Rollback
  <2>. QED  BY <1>2, <2>1, <2>2, <2>3, <2>4, <2>5, <2>6, <2>7, <2>8, <2>9, <2>10
<1>3. ASSUME NEW i \in 1..MaxRows, Cancel(i) PROVE IInv'
  BY <1>3, CancelStep
<1>. QED  BY <1>1, <1>2, <1>3 DEF LedgerNext
-----------------------------------------------------------------------------
(* Theorems *)

\* The invariant holds in every state.
THEOREM Invariance == LedgerSpec => []IInv
<1>. QED  BY Initially, Step, PTL DEF LedgerSpec

\* Invoices and transactions have the types of their columns, among them amounts
\* that are whole paise.
THEOREM TypeCorrect == LedgerSpec => []LedgerTypeOK
<1>1. IInv => LedgerTypeOK
  BY DEF IInv
<1>. QED  BY <1>1, Invariance, PTL

\* createSubscriptionInvoice bills an event once, for any number of transactions
\* at a time: the lock makes the lookup and the insertion one step.
THEOREM EventsBilledOnce == LedgerSpec => []OneInvoicePerEvent
<1>1. IInv => OneInvoicePerEvent
  BY DEF IInv
<1>. QED  BY <1>1, Invariance, PTL

\* The unique index refuses a number only if an invoice was committed since the
\* ledger was counted: numbers lag behind their places.
THEOREM RefusedBesideAnother == LedgerSpec => []RefusedOnlyBesideAnother
<1>1. IInv => RefusedOnlyBesideAnother
  <2>. SUFFICES ASSUME IInv, NEW w \in Writers, writer[w].pc = "refused"
                PROVE  Len(ledger) > writer[w].since
    BY DEF RefusedOnlyBesideAnother
  <2>1. writer[w].since < Len(ledger)
    BY DEF IInv, Sound, NumberFollowsCount
  <2>2. writer[w].since \in Nat /\ Len(ledger) \in Nat
    BY DEF IInv, LedgerTypeOK, NoTransaction, Transaction
  <2>. QED  BY <2>1, <2>2
<1>. QED  BY <1>1, Invariance, PTL

\* If every plan has the standard rate, the header of a subscription invoice is
\* within a paisa of its line, whatever the price.
THEOREM HeadersMatch ==
  ASSUME \A p \in Plans : Rate[p] = StandardRate
  PROVE  LedgerSpec => []HeaderMatchesItems
<1>1. StandardRates
  BY DEF StandardRates
<1>2. IInv => HeaderMatchesItems
  BY <1>1 DEF IInv, HeadersAgree, HeaderMatchesItems, Agrees
<1>. QED  BY <1>2, Invariance, PTL
=============================================================================
