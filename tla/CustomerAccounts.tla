-------------------------- MODULE CustomerAccounts --------------------------
(***************************************************************************)
(* The customer's own operations (CustomersService) and what they leave in *)
(* FreeRADIUS: a password row and, for a bound device, a MAC row under     *)
(* each of the names the customer may log in with, and a rate.             *)
(*                                                                         *)
(* A handler reads the customer, checks, and writes in a transaction what  *)
(* it makes of that reading; between the two another handler may commit.   *)
(* EXPIRED and LEAD are, for these operations, like PENDING.               *)
(***************************************************************************)
EXTENDS SubscriptionFsm

CONSTANTS
  Customers,
  Workers,     \* requests handled at the same time
  LoginNames,  \* values of Customer.username
  Candidates,  \* getRadiusUsernameCandidates of each
  Passwords, Macs,
  Changes      \* PATCH bodies that occur

Keep == "keep"   \* field that the body does not have
NoMac == "none"

AccountStatus == {"PENDING", "ACTIVE", "SUSPENDED", "TERMINATED"}

ASSUME AccountAssumption ==
  /\ Keep \notin LoginNames \cup Passwords \cup Macs \cup {NoMac}
  /\ NoMac \notin Macs
  /\ "locked" \notin Passwords
  /\ DOMAIN Candidates = LoginNames
  /\ Changes \subseteq
       [status : AccountStatus \cup {Keep}, name : LoginNames \cup {Keep},
        password : Passwords \cup {Keep}, mac : Macs \cup {NoMac, Keep}]

VARIABLES
  account,    \* the customers
  passwords,  \* radcheck Cleartext-Password: <<name, <<customer, password>>>>
  macRows,    \* radcheck Calling-Station-Id: <<name, MAC>>
  rates,      \* radreply Mikrotik-Rate-Limit: <<name, rate>>
  request     \* what each handler has read

accountVars == <<account, passwords, macRows, rates, request>>
-----------------------------------------------------------------------------
(* Types *)

RadiusNames == UNION {Candidates[n] : n \in LoginNames}

Account ==
  [status : AccountStatus, name : LoginNames, password : Passwords,
   mac : Macs \cup {NoMac},
   sub : {"NONE"} \cup Status]   \* of the latest subscription

NoAccount == [status |-> "NONE"]

\* A value no device sends: SUSPENDED_ or TERMINATED_ and the time.
Locked == <<"locked", "locked">>

Request ==
  [op : {"create", "update", "status", "resetMac", "speed"},
   customer : Customers, seen : Account \cup {NoAccount},
   change : [status : AccountStatus \cup {Keep}, name : LoginNames \cup {Keep},
             password : Passwords \cup {Keep}, mac : Macs \cup {NoMac, Keep}],
   sub : Status \cup {"NONE", Keep}]   \* status the subscription is to get

NoRequest == [op |-> "none"]

AccountsTypeOK ==
  /\ account \in [Customers -> Account \cup {NoAccount}]
  /\ passwords \subseteq RadiusNames \X ((Customers \X Passwords) \cup {Locked})
  /\ macRows \subseteq RadiusNames \X Macs
  /\ rates \subseteq RadiusNames \X {"64k", "full"}
  /\ request \in [Workers -> Request \cup {NoRequest}]

AccountsInit ==
  /\ account = [c \in Customers |-> NoAccount]
  /\ passwords = {} /\ macRows = {} /\ rates = {}
  /\ request = [w \in Workers |-> NoRequest]
-----------------------------------------------------------------------------
(* Readings and checks *)

NoChange == [status |-> Keep, name |-> Keep, password |-> Keep, mac |-> Keep]

Existing == {c \in Customers : account[c] # NoAccount}

Named(n) == {c \in Existing : account[c].name = n}

Receive(w, op, c, change, sub) ==
  /\ request[w] = NoRequest
  /\ request' = [request EXCEPT ![w] =
       [op |-> op, customer |-> c, seen |-> account[c], change |-> change, sub |-> sub]]
  /\ UNCHANGED <<account, passwords, macRows, rates>>

\* create: the name is free; whose device it is nobody asks.
CreateRead(w, c) ==
  /\ account[c] = NoAccount
  /\ \E change \in Changes, sub \in {"NONE", "PENDING", "ACTIVE"} :
       /\ Keep \notin {change.status, change.name, change.password, change.mac}
       /\ sub = "NONE" \/ sub = IF change.status = "ACTIVE" THEN "ACTIVE" ELSE "PENDING"
       /\ Named(change.name) = {}
       /\ Receive(w, "create", c, change, sub)

\* update: a new name is free, a new device is not bound to another customer.
UpdateRead(w, c) ==
  /\ c \in Existing
  /\ \E change \in Changes :
       /\ change.name = account[c].name \/ Named(change.name) = {}
       /\ change.mac \in Macs /\ change.mac # account[c].mac =>
            \A d \in Existing : account[d].mac # change.mac
       /\ Receive(w, "update", c, change, Keep)

\* What the latest subscription becomes when its customer is made ACTIVE: the
\* transition is one of the state machine, and a suspended one has not run out.
Revived(sub) ==
  IF sub = "PENDING" THEN {"ACTIVE"}
  ELSE IF sub = "SUSPENDED" THEN {"ACTIVE", "GRACE"}
  ELSE IF sub \in {"NONE", "ACTIVE", "GRACE"} THEN {Keep} ELSE {}

\* updateStatus, suspend, reactivate, terminate
UpdateStatusRead(w, c) ==
  /\ c \in Existing
  /\ \E status \in AccountStatus :
       \E sub \in (IF status = "ACTIVE" THEN Revived(account[c].sub) ELSE {Keep}) :
         Receive(w, "status", c, [NoChange EXCEPT !.status = status], sub)

ResetMacRead(w, c) == c \in Existing /\ Receive(w, "resetMac", c, NoChange, Keep)

OverrideSpeedRead(w, c) == c \in Existing /\ Receive(w, "speed", c, NoChange, Keep)
-----------------------------------------------------------------------------
(* Transactions *)

\* deleteMany of the names, then one row for each.
Put(rows, names, values) == {row \in rows : row[1] \notin names} \cup (names \X values)

Without(rows, names) == Put(rows, names, {})

Secret(c, a) == IF a.status = "ACTIVE" THEN <<c, a.password>> ELSE Locked

\* Variant with a fault: a row is written for no MAC at all.
BoundToAny(mac) == {mac}

Bound(mac) == {mac} \ {NoMac}

Done(w) == request' = [request EXCEPT ![w] = NoRequest]

\* Rows are added to what stands under the names.
CreateCommit(w) ==
  LET r == request[w]
      new == [status |-> r.change.status, name |-> r.change.name,
              password |-> r.change.password, mac |-> r.change.mac, sub |-> r.sub]
      names == Candidates[new.name]
  IN /\ r.op = "create"
     /\ account[r.customer] = NoAccount /\ Named(new.name) = {}
     /\ account' = [account EXCEPT ![r.customer] = new]
     /\ passwords' = passwords \cup (names \X {Secret(r.customer, new)})
     /\ macRows' = macRows \cup (names \X Bound(new.mac))
     /\ rates' = rates \cup (names \X {IF new.status = "ACTIVE" THEN "full" ELSE "64k"})
     /\ Done(w)

Given(new, old) == IF new = Keep THEN old ELSE new

\* Variant with a fault: the password is locked by what was read of the status.
SecretFrom(r, new) == Secret(r.customer, [new EXCEPT !.status = Given(r.change.status, r.seen.status)])

\* By the status that is now in the row.
NewSecret(r, new) == Secret(r.customer, new)

\* Variant with a fault: only the name itself is given up.
OldNameOnly(r) == {r.seen.name}

OldNames(r) == Candidates[r.seen.name]

\* Variant with a fault: the MAC does not follow to the new name.
MacForgotten(r, renamed, statusChanged) == r.change.mac # Keep \/ statusChanged

MacConcerned(r, renamed, statusChanged) == renamed \/ r.change.mac # Keep \/ statusChanged

UpdateCommit(w) ==
  LET r == request[w]
      statusChanged == r.change.status \notin {Keep, r.seen.status}
      renamed == r.change.name \notin {Keep, r.seen.name}
      now == account[r.customer]
      new == [now EXCEPT
                !.status = IF statusChanged THEN r.change.status ELSE @,
                !.name = IF renamed THEN r.change.name ELSE @,
                !.password = Given(r.change.password, @),
                !.mac = Given(r.change.mac, @)]
      names == Candidates[new.name]
      gone == IF renamed THEN OldNames(r) ELSE {}
      mac == Given(r.change.mac, r.seen.mac)
  IN /\ r.op = "update"
     /\ Named(new.name) \subseteq {r.customer}
     /\ account' = [account EXCEPT ![r.customer] = new]
     /\ passwords' =
          IF renamed \/ r.change.password # Keep \/ statusChanged
          THEN Put(Without(passwords, gone), names, {NewSecret(r, new)}) ELSE passwords
     /\ macRows' =
          IF MacConcerned(r, renamed, statusChanged)
          THEN Put(Without(macRows, gone), names,
                   IF new.status = "ACTIVE" THEN Bound(mac) ELSE {})
          ELSE Without(macRows, gone)
     /\ \/ /\ renamed   \* the replies move, one value of each attribute
           /\ LET moved == {row[2] : row \in {q \in rates : q[1] \in gone}}
              IN \E rate \in (IF moved = {} THEN {"full"} ELSE moved) :
                   rates' = Without(rates, gone) \cup (names \X {rate})
        \/ /\ ~renamed
           /\ rates' = IF ~statusChanged THEN rates
                       ELSE IF new.status = "SUSPENDED" THEN Put(rates, names, {"64k"})
                       ELSE IF new.status = "ACTIVE" THEN Put(rates, names, {"full"})
                       ELSE rates
     /\ Done(w)

\* What becomes of the subscriptions of a customer whose status is set.
SubAfter(r, sub) ==
  IF r.change.status = "ACTIVE" THEN Given(r.sub, sub)
  ELSE IF r.change.status = "SUSPENDED" /\ sub = "ACTIVE" THEN "SUSPENDED"
  ELSE IF r.change.status = "TERMINATED" /\ sub # "NONE" THEN "CANCELLED"
  ELSE sub

\* Under the names that were read, with the password and the MAC that were read.
UpdateStatusCommit(w) ==
  LET r == request[w]
      names == Candidates[r.seen.name]
      status == r.change.status
  IN /\ r.op = "status"
     /\ account' = [account EXCEPT ![r.customer] =
          [@ EXCEPT !.status = status, !.sub = SubAfter(r, account[r.customer].sub)]]
     /\ passwords' =
          IF status = "ACTIVE" THEN Put(passwords, names, {<<r.customer, r.seen.password>>})
          ELSE IF status \in {"SUSPENDED", "TERMINATED"} THEN Put(passwords, names, {Locked})
          ELSE passwords
     /\ macRows' =
          IF status = "ACTIVE" THEN Put(macRows, names, Bound(r.seen.mac))
          ELSE IF status = "TERMINATED" THEN Without(macRows, names)
          ELSE macRows
     /\ rates' =
          IF status = "ACTIVE" THEN Put(rates, names, {"full"})
          ELSE IF status = "SUSPENDED" THEN Put(rates, names, {"64k"})
          ELSE IF status = "TERMINATED" THEN Without(rates, names)
          ELSE rates
     /\ Done(w)

ResetMacCommit(w) ==
  LET r == request[w] IN
  /\ r.op = "resetMac"
  /\ account' = [account EXCEPT ![r.customer].mac = NoMac]
  /\ macRows' = Without(macRows, Candidates[r.seen.name])
  /\ UNCHANGED <<passwords, rates>>
  /\ Done(w)

OverrideSpeedCommit(w) ==
  LET r == request[w] IN
  /\ r.op = "speed"
  /\ rates' = Put(rates, Candidates[r.seen.name], {"full"})
  /\ UNCHANGED <<account, passwords, macRows>>
  /\ Done(w)

\* The transaction fails, or a unique index refuses the name.
Refuse(w) ==
  /\ request[w] # NoRequest
  /\ Done(w)
  /\ UNCHANGED <<account, passwords, macRows, rates>>
-----------------------------------------------------------------------------
AccountsNext ==
  \E w \in Workers :
    \/ \E c \in Customers :
         \/ CreateRead(w, c) \/ UpdateRead(w, c) \/ UpdateStatusRead(w, c)
         \/ ResetMacRead(w, c) \/ OverrideSpeedRead(w, c)
    \/ CreateCommit(w) \/ UpdateCommit(w) \/ UpdateStatusCommit(w)
    \/ ResetMacCommit(w) \/ OverrideSpeedCommit(w) \/ Refuse(w)

AccountsSpec == AccountsInit /\ [][AccountsNext]_accountVars
-----------------------------------------------------------------------------
(* Properties *)

\* A customer who is suspended or terminated cannot log in: none of its passwords
\* stands under its names, whichever of two handlers that read before each other
\* wrote last (a rename beside a suspension excepted: the suspension locks the name
\* it read).
LockedOutWhenSuspended ==
  \A c \in Existing :
    account[c].status \in {"SUSPENDED", "TERMINATED"} =>
      \A n \in Candidates[account[c].name], p \in Passwords : <<n, <<c, p>>>> \notin passwords

\* Names that nobody has any more do not log in and carry no rate.
OldNameIsDead ==
  LET owned == UNION {Candidates[account[c].name] : c \in Existing}
  IN \A n \in RadiusNames \ owned : Without(passwords, {n}) = passwords
                                   /\ Without(macRows, {n}) = macRows
                                   /\ Without(rates, {n}) = rates

\* An ACTIVE customer logs in under each of its names, with its password and with
\* no other, and from the device it is bound to only.
ActiveMayLogIn ==
  \A c \in Existing :
    account[c].status = "ACTIVE" =>
      \A n \in Candidates[account[c].name] :
        /\ {row \in passwords : row[1] = n} = {<<n, <<c, account[c].password>>>>}
        /\ {row \in macRows : row[1] = n} = {n} \X Bound(account[c].mac)

\* The customer is no longer what the handler has read of it.
Stale(w) == request[w] # NoRequest /\ request[w].seen # account[request[w].customer]

\* An ACTIVE customer loses a login, a password or its device only to a handler that
\* writes by what it read before another one changed that customer: no operation
\* breaks a login by itself, nor does one of another customer that overlaps (if no
\* two customers have a name in common; rows left under a name that nobody has
\* are there to trip whoever takes the name).
OnlyStaleHandlersBreakLogins ==
  [][OldNameIsDead /\ ActiveMayLogIn /\ ~ActiveMayLogIn' =>
       \E w \in Workers : request'[w] # request[w] /\ Stale(w)]_accountVars
=============================================================================
