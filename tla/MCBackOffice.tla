---------------------------- MODULE MCBackOffice ----------------------------
(***************************************************************************)
(* Invoices, customer accounts, routers and the calendar of renewals,      *)
(* checked in one run.  They share no state, so a behaviour keeps to one   *)
(* of them (focus) and the others stay where they began.  Customer         *)
(* accounts are met twice: one handler at a time on two customers who take *)
(* each other's names and devices, and two handlers at a time on one       *)
(* customer.                                                               *)
(***************************************************************************)
EXTENDS InvoiceLedger, CustomerAccounts, RouterFleet, BillingCalendar, TLC

(* Values of the constants *)

PlanPrice == "p1" :> 59900 @@ "p2" :> 79950
PlanRate == [p \in Plans |-> StandardRate]
Billable ==
  {[source |-> "SUBSCRIPTION_RENEWAL", period |-> 1, plan |-> "p1"],
   [source |-> "PLAN_CHANGE", period |-> 1, plan |-> "p2"]}
Fees == {[unitPrice |-> 10000, quantity |-> 3, discount |-> 500, rate |-> StandardRate]}

BothForms == "ann" :> {"ann", "ann@isp"} @@ "bob" :> {"bob", "bob@isp"}
Body(fields) == fields @@ NoChange
Opening ==
  [status : {"ACTIVE"}, name : LoginNames, password : {"p1"}, mac : Macs]
Edits ==
  {Body(f) : f \in [mac : {NoMac}] \cup
                   [name : LoginNames, status : {Keep, "ACTIVE", "SUSPENDED"}]}
OneByOne == Opening \cup Edits
AtOnce ==
  {[status |-> "ACTIVE", name |-> "ann", password |-> "p1", mac |-> NoMac]} \cup
  {Body(f) : f \in [status : {"ACTIVE", "SUSPENDED"}] \cup [password : {"p2"}]}

Together == INSTANCE CustomerAccounts WITH Changes <- AtOnce

OneHandler == Cardinality({w \in Workers : request[w] # NoRequest}) <= 1
OneCustomer == Cardinality(Existing) <= 1

Symmetry == Permutations(Workers) \cup Permutations(Customers)
-----------------------------------------------------------------------------
VARIABLE focus

boVars == <<focus, ledgerVars, accountVars, fleetVars, calendarVars>>

MCInit ==
  /\ LedgerInit /\ AccountsInit /\ FleetInit /\ CalendarInit
  /\ \/ focus = "calendar"
     \/ focus \in {"ledger", "alone", "together", "fleet"} /\ start.month = 1 /\ start.day = 1

MCNext ==
  \/ /\ focus = "ledger" /\ LedgerNext
     /\ UNCHANGED <<focus, accountVars, fleetVars, calendarVars>>
  \/ /\ \/ focus = "alone" /\ AccountsNext /\ OneHandler'
        \/ focus = "together" /\ Together!AccountsNext /\ OneCustomer'
     /\ UNCHANGED <<focus, ledgerVars, fleetVars, calendarVars>>
  \/ /\ focus = "fleet" /\ FleetNext
     /\ UNCHANGED <<focus, ledgerVars, accountVars, calendarVars>>
  \/ /\ focus = "calendar" /\ CalendarNext
     /\ UNCHANGED <<focus, ledgerVars, accountVars, fleetVars>>

MCSpec == MCInit /\ [][MCNext]_boVars
=============================================================================
