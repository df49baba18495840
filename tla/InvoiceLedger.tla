--------------------------- MODULE InvoiceLedger ---------------------------
(***************************************************************************)
(* How invoices are written (InvoicesService): by hand, or by a change of  *)
(* a subscription inside the transaction that changes it.  A subscription  *)
(* invoice takes an advisory lock named after its event and looks for the  *)
(* invoice of that event first.  The number is the count of the invoices   *)
(* plus one, read without a lock; only the unique index on the number      *)
(* stops a second use.  Every statement sees what was committed before it  *)
(* (READ COMMITTED).                                                       *)
(***************************************************************************)
EXTENDS BillingMath

CONSTANTS
  Writers,      \* transactions that run at the same time
  Plans, Price, Rate,  \* plans, with their price and their gstRatePercent
  Periods,      \* service periods of a subscription
  Events,       \* lifecycle events that occur
  ManualItems,  \* line items an operator may enter
  Discounts,    \* invoice discounts an operator may enter
  Stamps,       \* last four digits of Date.now()
  MaxRows       \* bound: invoices

ASSUME LedgerAssumption ==
  /\ Price \in [Plans -> Nat] /\ Rate \in [Plans -> Nat]
  /\ \A i \in ManualItems :
       i \in [unitPrice : Nat, quantity : Nat \ {0}, discount : Nat, rate : Nat]
  /\ Events \subseteq
       [source : {"SUBSCRIPTION_ASSIGNMENT", "SUBSCRIPTION_RENEWAL", "PLAN_CHANGE"},
        period : Periods, plan : Plans]
  /\ Discounts \subseteq Nat /\ Stamps \subseteq Nat \ {0} /\ MaxRows \in Nat

VARIABLES
  ledger,  \* the committed invoices, in the order of their commits
  writer   \* what each transaction has read and written

ledgerVars == <<ledger, writer>>
-----------------------------------------------------------------------------
(* Types *)

Manual == [source |-> "MANUAL"]

\* An invoice number: its sequence number, and its suffix, 0 if it has none.
Number == [seq : 1..(MaxRows + 1), stamp : Stamps \cup {0}]

Invoice ==
  [number : Number, event : Events \cup {Manual},
   status : {"ISSUED", "CANCELLED"},
   total : Nat,   \* of the header
   items : Nat]   \* sum of the line totals

Transaction ==
  [pc : {"open", "locked", "counting", "counted", "numbered", "inserted", "refused"},
   event : Events \cup {Manual},
   number : Number,
   since : 0..MaxRows,   \* history: committed invoices when it counted them
   total : Nat, items : Nat]

NoTransaction == [pc |-> "idle"]

LedgerTypeOK ==
  /\ ledger \in Seq(Invoice) /\ Len(ledger) <= MaxRows
  /\ writer \in [Writers -> Transaction \cup {NoTransaction}]

LedgerInit ==
  /\ ledger = <<>>
  /\ writer = [w \in Writers |-> NoTransaction]
-----------------------------------------------------------------------------
(* Creation *)

Becomes(w, pc, number, since) ==
  /\ writer' = [writer EXCEPT ![w] =
       [pc |-> pc, event |-> writer[w].event, number |-> number, since |-> since,
        total |-> writer[w].total, items |-> writer[w].items]]
  /\ UNCHANGED ledger

Goes(w, pc) == Becomes(w, pc, writer[w].number, writer[w].since)

Ends(w) == writer' = [writer EXCEPT ![w] = NoTransaction]

\* A transaction begins; the amounts of its invoice are already computed.
Begin(w, pc, event, sums) ==
  /\ writer[w] = NoTransaction
  /\ writer' = [writer EXCEPT ![w] =
       [pc |-> pc, event |-> event, number |-> [seq |-> 1, stamp |-> 0],
        since |-> 0, total |-> sums.total, items |-> sums.items]]
  /\ UNCHANGED ledger

PlanItem(p) == [unitPrice |-> Price[p], quantity |-> 1, discount |-> 0, rate |-> Rate[p]]

\* The plan's rate goes to the line; defaultTaxRatePercent is left at 18.
Open(w) ==
  \E e \in Events, intraState \in BOOLEAN :
    Begin(w, "open", e,
          CalculateInvoiceTotals(<<PlanItem(e.plan)>>, 0, intraState, StandardRate))

\* create: neither a lock nor a look at what exists.
Create(w) ==
  \E item \in ManualItems, discount \in Discounts, intraState \in BOOLEAN :
    Begin(w, "counting", Manual,
          CalculateInvoiceTotals(<<item>>, discount, intraState, StandardRate))

\* What the lock is named after, and what the invoice is looked up by.  A plan
\* change is an event of its plan; the plan of a renewal does not matter.
EventKey(e) ==
  IF e.source = "PLAN_CHANGE" THEN <<e.source, e.period, e.plan>> ELSE <<e.source, e.period>>

HoldsLock(w) == writer[w].pc \notin {"idle", "open", "refused"} /\ writer[w].event # Manual

\* Variant with a fault: the transaction does not wait for the lock.
LockAtOnce(w) == writer[w].pc = "open" /\ Goes(w, "locked")

\* pg_advisory_xact_lock
Lock(w) ==
  /\ writer[w].pc = "open"
  /\ \A v \in Writers :
       HoldsLock(v) => EventKey(writer[v].event) # EventKey(writer[w].event)
  /\ Goes(w, "locked")

Billed(e) ==
  \E i \in DOMAIN ledger :
    /\ ledger[i].event # Manual /\ ledger[i].status # "CANCELLED"
    /\ EventKey(ledger[i].event) = EventKey(e)

\* An invoice of this event that is not cancelled is returned as it is, and the
\* transaction that asked for it commits.
FindExisting(w) ==
  /\ writer[w].pc = "locked"
  /\ \/ Billed(writer[w].event) /\ Ends(w) /\ UNCHANGED ledger
     \/ ~Billed(writer[w].event) /\ Goes(w, "counting")

\* Variant with a fault: cancelled invoices are not counted.
CountStanding == Len(SelectSeq(ledger, LAMBDA row : row.status # "CANCELLED"))

\* Variant with a fault: the number is the count itself.
CountAlone == Len(ledger) - 1

InvoiceCount == Len(ledger)

Count(w) ==
  /\ writer[w].pc = "counting"
  /\ Becomes(w, "counted", [seq |-> InvoiceCount + 1, stamp |-> 0], Len(ledger))

Taken(number) == \E i \in DOMAIN ledger : ledger[i].number = number

\* A number that was given meanwhile gets a suffix.
AvoidCollision(w) ==
  /\ writer[w].pc = "counted" /\ ~Taken(writer[w].number) /\ Goes(w, "numbered")

AddSuffix(w) ==
  /\ writer[w].pc = "counted" /\ Taken(writer[w].number)
  /\ \E t \in Stamps :
       Becomes(w, "numbered", [seq |-> writer[w].number.seq, stamp |-> t], writer[w].since)

\* The unique index: a number in the ledger is refused, and with it the whole
\* transaction; a number another transaction has inserted is waited for.
Insert(w) ==
  /\ writer[w].pc = "numbered"
  /\ \A v \in Writers : writer[v].pc = "inserted" => writer[v].number # writer[w].number
  /\ Goes(w, IF Taken(writer[w].number) THEN "refused" ELSE "inserted")

Commit(w) ==
  /\ writer[w].pc = "inserted" /\ Len(ledger) < MaxRows
  /\ ledger' = Append(ledger,
       [number |-> writer[w].number, event |-> writer[w].event, status |-> "ISSUED",
        total |-> writer[w].total, items |-> writer[w].items])
  /\ Ends(w)

\* The transaction fails, dies or times out; or the user tries again after a refusal.
Rollback(w) ==
  /\ writer[w].pc # "idle" /\ Ends(w) /\ UNCHANGED ledger

Cancel(i) ==
  /\ i \in DOMAIN ledger
  /\ ledger' = [ledger EXCEPT ![i] =
       [number |-> @.number, event |-> @.event, status |-> "CANCELLED",
        total |-> @.total, items |-> @.items]]
  /\ UNCHANGED writer
-----------------------------------------------------------------------------
LedgerNext ==
  \/ \E w \in Writers :
       \/ Open(w) \/ Create(w) \/ Lock(w) \/ FindExisting(w) \/ Count(w)
       \/ AvoidCollision(w) \/ AddSuffix(w) \/ Insert(w) \/ Commit(w) \/ Rollback(w)
  \/ \E i \in 1..MaxRows : Cancel(i)

LedgerSpec == LedgerInit /\ [][LedgerNext]_ledgerVars
-----------------------------------------------------------------------------
(* Properties *)

\* createSubscriptionInvoice is idempotent: requests that are repeated or run at
\* the same time leave one invoice of an event that is not cancelled.
OneInvoicePerEvent ==
  \A i, j \in DOMAIN ledger :
    /\ ledger[i].event # Manual /\ ledger[i].status = "ISSUED"
    /\ ledger[j].event # Manual /\ ledger[j].status = "ISSUED"
    /\ EventKey(ledger[i].event) = EventKey(ledger[j].event)
    => i = j

\* The unique index refuses an invoice, and the renewal that wanted it, only if
\* another was committed since this one counted: the numbers of a single writer
\* never collide, whatever was cancelled and whatever got a suffix before.
RefusedOnlyBesideAnother ==
  \A w \in Writers : writer[w].pc = "refused" => Len(ledger) > writer[w].since

\* What the header asks for is what the lines of the subscription come to, but
\* for a paisa of rounding: the two taxes are computed apart.
HeaderMatchesItems ==
  \A i \in DOMAIN ledger :
    ledger[i].event # Manual =>
      ledger[i].total <= ledger[i].items + 1 /\ ledger[i].items <= ledger[i].total + 1
=============================================================================
