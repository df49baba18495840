----------------------- MODULE CustomerAccountsProofs -----------------------
(***************************************************************************)
(* Proofs about CustomerAccounts, for any number of customers, handlers,   *)
(* names and bodies: the rows keep their types; and where no two customers *)
(* have a name in common, what FreeRADIUS has follows the accounts as long *)
(* as certain handlers of one customer do not overlap, and an ACTIVE       *)
(* customer loses a login only to a handler that acts on what it read      *)
(* before another one changed that customer.                               *)
(***************************************************************************)
EXTENDS CustomerAccounts, TLAPS

Change ==
  [status : AccountStatus \cup {Keep}, name : LoginNames \cup {Keep},
   password : Passwords \cup {Keep}, mac : Macs \cup {NoMac, Keep}]

Busy(w) == request[w] # NoRequest

\* What a request has from its reading.
Sound(r) ==
  /\ r.op = "create" =>
       Keep \notin {r.change.status, r.change.name, r.change.password, r.change.mac, r.sub}
  /\ r.op # "create" => r.seen # NoAccount /\ account[r.customer] # NoAccount
  /\ r.op = "status" => r.change.status # Keep

TypeInv ==
  /\ AccountsTypeOK
  /\ \A w \in Workers : Busy(w) => Sound(request[w])
-----------------------------------------------------------------------------
(* Rows *)

LEMMA NothingYet == NoAccount \notin Account /\ NoRequest \notin Request
  BY DEF NoAccount, Account, AccountStatus, NoRequest, Request

LEMMA PutRows ==
  ASSUME NEW rows, NEW names, NEW values, NEW row
  PROVE  row \in Put(rows, names, values)
           <=> (row \in rows /\ row[1] \notin names) \/ row \in names \X values
  BY DEF Put

LEMMA WithoutRows ==
  ASSUME NEW rows, NEW names, NEW row
  PROVE  row \in Without(rows, names) <=> row \in rows /\ row[1] \notin names
  BY PutRows DEF Without

LEMMA PutTypes ==
  ASSUME NEW N, NEW V, NEW rows \in SUBSET (N \X V),
         NEW names \in SUBSET N, NEW values \in SUBSET V
  PROVE  Put(rows, names, values) \subseteq N \X V
  BY DEF Put

LEMMA WithoutTypes ==
  ASSUME NEW N, NEW V, NEW rows \in SUBSET (N \X V), NEW names
  PROVE  Without(rows, names) \subseteq N \X V
  BY DEF Without, Put

LEMMA NamesTypes ==
  ASSUME NEW n \in LoginNames
  PROVE  Candidates[n] \subseteq RadiusNames
  BY DEF RadiusNames

LEMMA SecretTypes ==
  ASSUME NEW c \in Customers, NEW a \in Account
  PROVE  Secret(c, a) \in (Customers \X Passwords) \cup {Locked}
  BY DEF Secret, Account

LEMMA BoundTypes ==
  ASSUME NEW mac \in Macs \cup {NoMac}
  PROVE  Bound(mac) \in SUBSET Macs
  BY DEF Bound
-----------------------------------------------------------------------------
(* Types *)

LEMMA ReceiveTypes ==
  ASSUME TypeInv, NEW w \in Workers, NEW c \in Customers,
         NEW op \in {"create", "update", "status", "resetMac", "speed"},
         NEW change \in Change,
         NEW s \in Status \cup {"NONE", Keep},
         Receive(w, op, c, change, s),
         op = "create" =>
           Keep \notin {change.status, change.name, change.password, change.mac, s},
         op # "create" => account[c] # NoAccount,
         op = "status" => change.status # Keep
  PROVE  TypeInv'
  <1>. DEFINE r == [op |-> op, customer |-> c, seen |-> account[c], change |-> change, sub |-> s]
  <1>1. r \in Request
    BY DEF TypeInv, AccountsTypeOK, Request, Change
  <1>2. request' = [request EXCEPT ![w] = r] /\ UNCHANGED <<account, passwords, macRows, rates>>
    BY DEF Receive
  <1>3. AccountsTypeOK'
    BY <1>1, <1>2 DEF TypeInv, AccountsTypeOK
  <1>4. ASSUME NEW v \in Workers, Busy(v)'
        PROVE  Sound(request[v])'
    <2>1. CASE v = w
      <3>1. request'[v] = r
        BY <1>2, <2>1 DEF TypeInv, AccountsTypeOK
      <3>. QED BY <1>2, <3>1 DEF Sound
    <2>2. CASE v # w
      BY <1>2, <1>4, <2>2 DEF TypeInv, AccountsTypeOK, Busy, Sound
    <2>. QED BY <2>1, <2>2
  <1>. QED BY <1>3, <1>4 DEF TypeInv

LEMMA NoChangeTypes ==
  /\ NoChange \in Change
  /\ \A s \in AccountStatus :
       /\ [NoChange EXCEPT !.status = s] \in Change
       /\ [NoChange EXCEPT !.status = s].status = s
  BY DEF NoChange, Change

LEMMA ReadTypes ==
  ASSUME TypeInv, NEW w \in Workers, NEW c \in Customers,
         \/ CreateRead(w, c) \/ UpdateRead(w, c) \/ UpdateStatusRead(w, c)
         \/ ResetMacRead(w, c) \/ OverrideSpeedRead(w, c)
  PROVE  TypeInv'
  <1>1. CASE CreateRead(w, c)
    BY <1>1, AccountAssumption, ReceiveTypes DEF CreateRead, Status, Change, Keep
  <1>2. CASE UpdateRead(w, c)
    BY <1>2, AccountAssumption, ReceiveTypes DEF UpdateRead, Existing, Change
  <1>3. CASE UpdateStatusRead(w, c)
    <2>1. PICK status \in AccountStatus :
            \E s \in (IF status = "ACTIVE" THEN Revived(account[c].sub) ELSE {Keep}) :
              Receive(w, "status", c, [NoChange EXCEPT !.status = status], s)
      BY <1>3 DEF UpdateStatusRead
    <2>. PICK s \in (IF status = "ACTIVE" THEN Revived(account[c].sub) ELSE {Keep}) :
           Receive(w, "status", c, [NoChange EXCEPT !.status = status], s)
      BY <2>1
    <2>2. s \in Status \cup {"NONE", Keep}
      BY <2>1 DEF Revived, Status
    <2>3. account[c] # NoAccount /\ status # Keep
      BY <1>3 DEF UpdateStatusRead, Existing, AccountStatus, Keep
    <2>. QED BY <2>1, <2>2, <2>3, NoChangeTypes, ReceiveTypes
  <1>4. CASE ResetMacRead(w, c)
    BY <1>4, NoChangeTypes, ReceiveTypes DEF ResetMacRead, Existing
  <1>5. CASE OverrideSpeedRead(w, c)
    BY <1>5, NoChangeTypes, ReceiveTypes DEF OverrideSpeedRead, Existing
  <1>. QED BY <1>1, <1>2, <1>3, <1>4, <1>5

\* A request ends, with at most one account rewritten and rows of the right types.
LEMMA DoneTypes ==
  ASSUME TypeInv, NEW w \in Workers, Done(w),
         \A d \in Customers : account'[d] = account[d] \/ account'[d] \in Account,
         account' \in [Customers -> Account \cup {NoAccount}],
         passwords' \subseteq RadiusNames \X ((Customers \X Passwords) \cup {Locked}),
         macRows' \subseteq RadiusNames \X Macs,
         rates' \subseteq RadiusNames \X {"64k", "full"}
  PROVE  TypeInv'
  <1>1. AccountsTypeOK'
    BY DEF TypeInv, AccountsTypeOK, Done
  <1>2. ASSUME NEW v \in Workers, Busy(v)'
        PROVE  Sound(request[v])'
    <2>1. v # w /\ request'[v] = request[v]
      BY <1>2 DEF TypeInv, AccountsTypeOK, Done, Busy
    <2>2. request[v] \in Request /\ Sound(request[v])
      BY <1>2, <2>1 DEF TypeInv, AccountsTypeOK, Busy
    <2>3. request[v].customer \in Customers
      BY <2>2 DEF Request
    <2>. QED BY <2>1, <2>2, <2>3, NothingYet DEF Sound
  <1>. QED BY <1>1, <1>2 DEF TypeInv

\* What the handler of a commit has in hand.
LEMMA InHand ==
  ASSUME TypeInv, NEW w \in Workers,
         request[w].op \in {"create", "update", "status", "resetMac", "speed"}
  PROVE  /\ request[w] \in Request
         /\ request[w].customer \in Customers
         /\ request[w].change \in Change
         /\ request[w].sub \in Status \cup {"NONE", Keep}
         /\ Sound(request[w])
         /\ request[w].op # "create" =>
              request[w].seen \in Account /\ account[request[w].customer] \in Account
  <1>1. request[w] # NoRequest
    BY DEF NoRequest
  <1>2. request[w] \in Request /\ Sound(request[w])
    BY <1>1 DEF TypeInv, AccountsTypeOK, Busy
  <1>. QED BY <1>2 DEF Request, Change, Sound, TypeInv, AccountsTypeOK

\* What CreateCommit does, a being the row it makes.
Created(w, a) ==
  LET c == request[w].customer
      names == Candidates[a.name]
  IN /\ c \in Customers /\ account[c] = NoAccount
     /\ Named(a.name) = {}
     /\ account' = [account EXCEPT ![c] = a]
     /\ passwords' = passwords \cup (names \X {Secret(c, a)})
     /\ macRows' = macRows \cup (names \X Bound(a.mac))
     /\ \E rate \in {"64k", "full"} : rates' = rates \cup (names \X {rate})
     /\ Done(w)

LEMMA CreateEffect ==
  ASSUME TypeInv, NEW w \in Workers, CreateCommit(w)
  PROVE  \E a \in Account : Created(w, a)
  <1>. DEFINE r == request[w]
              a == [status |-> r.change.status, name |-> r.change.name,
                    password |-> r.change.password, mac |-> r.change.mac, sub |-> r.sub]
  <1>1. /\ r.op = "create"
        /\ r.customer \in Customers /\ r.change \in Change
        /\ r.sub \in Status \cup {"NONE", Keep}
        /\ Sound(r)
    BY InHand DEF CreateCommit
  <1>2. r.sub # Keep
    BY <1>1 DEF Sound
  <1>3. a \in Account
    BY <1>1, <1>2 DEF Sound, Change, Account
  <1>. QED BY <1>1, <1>3, Zenon DEF CreateCommit, Created

StatusSet(r) == r.change.status \notin {Keep, r.seen.status}

Moved(r) == r.change.name \notin {Keep, r.seen.name}

GivenUp(r) == IF Moved(r) THEN OldNames(r) ELSE {}

\* What UpdateCommit does, a being what it makes of the row that is there now.
Updated(w, a) ==
  LET r == request[w]
      c == r.customer
      names == Candidates[a.name]
  IN /\ c \in Customers /\ account[c] \in Account /\ r.seen \in Account
     /\ r.op = "update"
     /\ a.status = IF StatusSet(r) THEN r.change.status ELSE account[c].status
     /\ a.name = IF Moved(r) THEN r.change.name ELSE account[c].name
     /\ a.password = Given(r.change.password, account[c].password)
     /\ a.mac = Given(r.change.mac, account[c].mac)
     /\ Named(a.name) \subseteq {c}
     /\ account' = [account EXCEPT ![c] = a]
     /\ passwords' =
          IF Moved(r) \/ r.change.password # Keep \/ StatusSet(r)
          THEN Put(Without(passwords, GivenUp(r)), names, {Secret(c, a)}) ELSE passwords
     /\ macRows' =
          IF Moved(r) \/ r.change.mac # Keep \/ StatusSet(r)
          THEN Put(Without(macRows, GivenUp(r)), names,
                   IF a.status = "ACTIVE" THEN Bound(Given(r.change.mac, r.seen.mac)) ELSE {})
          ELSE Without(macRows, GivenUp(r))
     /\ \/ rates' = rates /\ ~Moved(r)
        \/ \E rate \in {"64k", "full"} : rates' = Put(Without(rates, GivenUp(r)), names, {rate})
        \/ Moved(r) /\ \E rate \in {"64k", "full"} :
             rates' = Without(rates, GivenUp(r)) \cup (names \X {rate})
     /\ Done(w)

LEMMA UpdateEffect ==
  ASSUME TypeInv, NEW w \in Workers, UpdateCommit(w)
  PROVE  \E a \in Account : Updated(w, a)
  <1>. DEFINE r == request[w]
              c == r.customer
              statusChanged == r.change.status \notin {Keep, r.seen.status}
              renamed == r.change.name \notin {Keep, r.seen.name}
              gone == IF renamed THEN OldNames(r) ELSE {}
              now == account[c]
              status == IF statusChanged THEN r.change.status ELSE now.status
              name == IF renamed THEN r.change.name ELSE now.name
              password == Given(r.change.password, now.password)
              mac == Given(r.change.mac, now.mac)
              a == [now EXCEPT
                      !.status = IF statusChanged THEN r.change.status ELSE @,
                      !.name = IF renamed THEN r.change.name ELSE @,
                      !.password = Given(r.change.password, @),
                      !.mac = Given(r.change.mac, @)]
  <1>1. /\ r.op = "update"
        /\ c \in Customers /\ r.change \in Change /\ now \in Account /\ r.seen \in Account
    BY InHand DEF UpdateCommit
  <1>2. /\ status \in AccountStatus /\ name \in LoginNames
        /\ password \in Passwords /\ mac \in Macs \cup {NoMac}
    BY <1>1 DEF Change, Account, Given
  <1>3. a = [status |-> status, name |-> name, password |-> password, mac |-> mac,
             sub |-> now.sub]
    <2>1. a = [now EXCEPT !.status = status, !.name = name, !.password = password, !.mac = mac]
      BY Zenon
    <2>. HIDE DEF a, now, status, name, password, mac
    <2>. QED BY <1>1, <2>1 DEF Account
  <1>4. /\ a \in Account
        /\ a.status = status /\ a.name = name /\ a.password = password /\ a.mac = mac
    BY <1>1, <1>2, <1>3 DEF Account
  <1>5. /\ Named(a.name) \subseteq {c}
        /\ account' = [account EXCEPT ![c] = a]
        /\ passwords' =
             IF renamed \/ r.change.password # Keep \/ statusChanged
             THEN Put(Without(passwords, gone), Candidates[a.name], {NewSecret(r, a)})
             ELSE passwords
        /\ macRows' =
             IF MacConcerned(r, renamed, statusChanged)
             THEN Put(Without(macRows, gone), Candidates[a.name],
                      IF a.status = "ACTIVE" THEN Bound(Given(r.change.mac, r.seen.mac)) ELSE {})
             ELSE Without(macRows, gone)
        /\ Done(w)
    BY Zenon DEF UpdateCommit
  <1>6. \/ rates' = rates /\ ~renamed
        \/ \E rate \in {"64k", "full"} :
             rates' = Put(Without(rates, gone), Candidates[a.name], {rate})
        \/ renamed /\ \E rate \in {"64k", "full"} :
             rates' = Without(rates, gone) \cup (Candidates[a.name] \X {rate})
    <2>. DEFINE moved == {row[2] : row \in {q \in rates : q[1] \in gone}}
    <2>1. \/ /\ renamed
             /\ \E rate \in (IF moved = {} THEN {"full"} ELSE moved) :
                  rates' = Without(rates, gone) \cup (Candidates[a.name] \X {rate})
          \/ /\ ~renamed
             /\ rates' = IF ~statusChanged THEN rates
                         ELSE IF a.status = "SUSPENDED" THEN Put(rates, Candidates[a.name], {"64k"})
                         ELSE IF a.status = "ACTIVE" THEN Put(rates, Candidates[a.name], {"full"})
                         ELSE rates
      BY Zenon DEF UpdateCommit
    <2>2. moved \subseteq {"64k", "full"}
      BY DEF TypeInv, AccountsTypeOK
    <2>3. ~renamed => Without(rates, gone) = rates
      BY DEF Without, Put, TypeInv, AccountsTypeOK
    <2>. HIDE DEF a, gone, renamed, statusChanged, moved
    <2>. QED BY <2>1, <2>2, <2>3
  <1>. HIDE DEF a
  <1>. QED BY <1>1, <1>4, <1>5, <1>6
           DEF NewSecret, MacConcerned, Updated, StatusSet, Moved, GivenUp

LEMMA StatusEffect ==
  ASSUME TypeInv, NEW w \in Workers, UpdateStatusCommit(w)
  PROVE  LET r == request[w]
             c == r.customer
         IN \E a \in Account :
           /\ c \in Customers /\ account[c] \in Account /\ r.seen \in Account
           /\ a.status = r.change.status /\ a.name = account[c].name
           /\ a.password = account[c].password /\ a.mac = account[c].mac
           /\ account' = [account EXCEPT ![c] = a]
  <1>. DEFINE r == request[w]
              c == r.customer
              now == account[c]
              status == r.change.status
              s == SubAfter(r, now.sub)
              a == [now EXCEPT !.status = status, !.sub = s]
  <1>1. /\ r.op = "status" /\ Sound(r)
        /\ c \in Customers /\ r.change \in Change /\ now \in Account /\ r.seen \in Account
        /\ r.sub \in Status \cup {"NONE", Keep}
    BY InHand DEF UpdateStatusCommit
  <1>2. status \in AccountStatus
    BY <1>1 DEF Change, Sound
  <1>3. s \in {"NONE"} \cup Status
    <2>1. now.sub \in {"NONE"} \cup Status
      BY <1>1 DEF Account
    <2>. QED BY <1>1, <2>1 DEF SubAfter, Given, Status
  <1>4. a = [now EXCEPT !.status = status, !.sub = s]
    BY Zenon
  <1>5. account' = [account EXCEPT ![c] = a]
    BY Zenon DEF UpdateStatusCommit
  <1>. HIDE DEF a, s, status
  <1>6. /\ a \in Account /\ a.status = status
        /\ a.name = now.name /\ a.password = now.password /\ a.mac = now.mac
    BY <1>1, <1>2, <1>3, <1>4 DEF Account
  <1>. QED BY <1>1, <1>5, <1>6 DEF status

LEMMA ResetMacEffect ==
  ASSUME TypeInv, NEW w \in Workers, ResetMacCommit(w)
  PROVE  LET r == request[w]
             c == r.customer
         IN \E a \in Account :
           /\ c \in Customers /\ account[c] \in Account /\ r.seen \in Account
           /\ a.status = account[c].status /\ a.name = account[c].name
           /\ a.password = account[c].password /\ a.mac = NoMac
           /\ account' = [account EXCEPT ![c] = a]
  <1>. DEFINE r == request[w]
              c == r.customer
              now == account[c]
              a == [now EXCEPT !.mac = NoMac]
  <1>1. c \in Customers /\ now \in Account /\ r.seen \in Account
    BY InHand DEF ResetMacCommit
  <1>2. account' = [account EXCEPT ![c] = a]
    BY <1>1 DEF ResetMacCommit, TypeInv, AccountsTypeOK
  <1>. HIDE DEF now
  <1>3. /\ a \in Account /\ a.status = now.status
        /\ a.name = now.name /\ a.password = now.password /\ a.mac = NoMac
    BY <1>1 DEF Account
  <1>. QED BY <1>1, <1>2, <1>3 DEF now

LEMMA Written ==
  ASSUME TypeInv, NEW c \in Customers, NEW a \in Account,
         account' = [account EXCEPT ![c] = a]
  PROVE  /\ account' \in [Customers -> Account \cup {NoAccount}]
         /\ account'[c] = a
         /\ \A d \in Customers \ {c} : account'[d] = account[d]
  BY DEF TypeInv, AccountsTypeOK

LEMMA CreateTypes ==
  ASSUME TypeInv, NEW w \in Workers, CreateCommit(w)
  PROVE  TypeInv'
  <1>. DEFINE c == request[w].customer
  <1>1. PICK a \in Account : Created(w, a)
    BY CreateEffect
  <1>2. /\ Candidates[a.name] \subseteq RadiusNames
        /\ Secret(c, a) \in (Customers \X Passwords) \cup {Locked}
        /\ Bound(a.mac) \in SUBSET Macs
    BY <1>1, NamesTypes, SecretTypes, BoundTypes DEF Created, Account
  <1>3. /\ passwords' \subseteq RadiusNames \X ((Customers \X Passwords) \cup {Locked})
        /\ macRows' \subseteq RadiusNames \X Macs
        /\ rates' \subseteq RadiusNames \X {"64k", "full"}
    BY <1>1, <1>2 DEF Created, TypeInv, AccountsTypeOK
  <1>. QED BY <1>1, <1>3, Written, DoneTypes DEF Created

LEMMA UpdateTypes ==
  ASSUME TypeInv, NEW w \in Workers, UpdateCommit(w)
  PROVE  TypeInv'
  <1>. DEFINE r == request[w]
              c == r.customer
  <1>1. PICK a \in Account : Updated(w, a)
    BY UpdateEffect
  <1>2. r.change \in Change
    BY <1>1, InHand DEF Updated
  <1>. HIDE DEF r
  <1>3. /\ Candidates[a.name] \in SUBSET RadiusNames
        /\ {Secret(c, a)} \in SUBSET ((Customers \X Passwords) \cup {Locked})
        /\ (IF a.status = "ACTIVE" THEN Bound(Given(r.change.mac, r.seen.mac)) ELSE {})
             \in SUBSET Macs
    <2>1. Given(r.change.mac, r.seen.mac) \in Macs \cup {NoMac}
      BY <1>1, <1>2 DEF Updated, Given, Change, Account, r
    <2>. QED BY <1>1, <2>1, NamesTypes, SecretTypes, BoundTypes DEF Updated, Account, r
  <1>4. passwords' \subseteq RadiusNames \X ((Customers \X Passwords) \cup {Locked})
    BY <1>1, <1>3, PutTypes, WithoutTypes DEF Updated, TypeInv, AccountsTypeOK, r
  <1>5. macRows' \subseteq RadiusNames \X Macs
    BY <1>1, <1>3, PutTypes, WithoutTypes DEF Updated, TypeInv, AccountsTypeOK, r
  <1>6. rates' \subseteq RadiusNames \X {"64k", "full"}
    <2>1. Without(rates, GivenUp(r)) \in SUBSET (RadiusNames \X {"64k", "full"})
      BY WithoutTypes DEF Updated, TypeInv, AccountsTypeOK, r
    <2>2. \A rate \in {"64k", "full"} :
            Put(Without(rates, GivenUp(r)), Candidates[a.name], {rate})
              \subseteq RadiusNames \X {"64k", "full"}
      BY <1>3, <2>1, PutTypes
    <2>. QED BY <1>1, <1>3, <2>1, <2>2 DEF Updated, TypeInv, AccountsTypeOK, r
  <1>. QED BY <1>1, <1>4, <1>5, <1>6, Written, DoneTypes DEF Updated, r

LEMMA CommitTypes ==
  ASSUME TypeInv, NEW w \in Workers,
         \/ UpdateStatusCommit(w) \/ ResetMacCommit(w) \/ OverrideSpeedCommit(w) \/ Refuse(w)
  PROVE  TypeInv'
  <1>. DEFINE r == request[w]
              c == r.customer
              names == Candidates[r.seen.name]
  <1>1. CASE UpdateStatusCommit(w)
    <2>1. PICK a \in Account :
            c \in Customers /\ r.seen \in Account /\ account' = [account EXCEPT ![c] = a]
      BY <1>1, StatusEffect
    <2>2. /\ names \in SUBSET RadiusNames
          /\ {<<c, r.seen.password>>} \in SUBSET ((Customers \X Passwords) \cup {Locked})
          /\ {Locked} \in SUBSET ((Customers \X Passwords) \cup {Locked})
          /\ Bound(r.seen.mac) \in SUBSET Macs
      BY <2>1, NamesTypes, BoundTypes DEF Account
    <2>3. passwords' \subseteq RadiusNames \X ((Customers \X Passwords) \cup {Locked})
      BY <1>1, <2>2, PutTypes DEF UpdateStatusCommit, TypeInv, AccountsTypeOK
    <2>4. macRows' \subseteq RadiusNames \X Macs
      BY <1>1, <2>2, PutTypes, WithoutTypes DEF UpdateStatusCommit, TypeInv, AccountsTypeOK
    <2>5. rates' \subseteq RadiusNames \X {"64k", "full"}
      BY <1>1, <2>2, PutTypes, WithoutTypes DEF UpdateStatusCommit, TypeInv, AccountsTypeOK
    <2>6. Done(w)
      BY <1>1 DEF UpdateStatusCommit
    <2>. QED BY <2>1, <2>3, <2>4, <2>5, <2>6, Written, DoneTypes
  <1>2. CASE ResetMacCommit(w)
    <2>1. PICK a \in Account :
            c \in Customers /\ account' = [account EXCEPT ![c] = a]
      BY <1>2, ResetMacEffect
    <2>2. macRows' \subseteq RadiusNames \X Macs
      BY <1>2, WithoutTypes DEF ResetMacCommit, TypeInv, AccountsTypeOK
    <2>. QED BY <1>2, <2>1, <2>2, Written, DoneTypes DEF ResetMacCommit, TypeInv, AccountsTypeOK
  <1>3. CASE OverrideSpeedCommit(w)
    <2>1. r.seen \in Account
      BY <1>3, InHand DEF OverrideSpeedCommit
    <2>2. names \in SUBSET RadiusNames
      BY <2>1, NamesTypes DEF Account
    <2>3. rates' \subseteq RadiusNames \X {"64k", "full"}
      BY <1>3, <2>2, PutTypes DEF OverrideSpeedCommit, TypeInv, AccountsTypeOK
    <2>. QED BY <1>3, <2>3, DoneTypes DEF OverrideSpeedCommit, TypeInv, AccountsTypeOK
  <1>4. CASE Refuse(w)
    BY <1>4, DoneTypes DEF Refuse, TypeInv, AccountsTypeOK
  <1>. QED BY <1>1, <1>2, <1>3, <1>4

LEMMA TypeInit == AccountsInit => TypeInv
  BY DEF AccountsInit, TypeInv, AccountsTypeOK, Busy

LEMMA TypeNext == TypeInv /\ [AccountsNext]_accountVars => TypeInv'
  <1>. SUFFICES ASSUME TypeInv, [AccountsNext]_accountVars PROVE TypeInv'
    OBVIOUS
  <1>1. CASE UNCHANGED accountVars
    BY <1>1 DEF accountVars, TypeInv, AccountsTypeOK, Busy, Sound
  <1>2. CASE AccountsNext
    BY <1>2, ReadTypes, CreateTypes, UpdateTypes, CommitTypes DEF AccountsNext
  <1>. QED BY <1>1, <1>2

LEMMA TypesHold == AccountsSpec => []TypeInv
  BY TypeInit, TypeNext, PTL DEF AccountsSpec

\* Accounts, FreeRADIUS rows and requests keep their types, however handlers
\* overlap: an account is never overwritten by less than an account, and no
\* commit writes rows under what is no customer's name.
THEOREM TypeCorrect == AccountsSpec => []AccountsTypeOK
  <1>1. TypeInv => AccountsTypeOK
    BY DEF TypeInv
  <1>. QED BY <1>1, TypesHold, PTL
-----------------------------------------------------------------------------
(* Whose rows they are, where renames do not overlap *)

\* No two user names have a login name in common.
NamesApart ==
  \A m, n \in LoginNames : m # n => Candidates[m] \cap Candidates[n] = {}

\* Two handlers of one customer at the same time.
Beside(v, w) ==
  v # w /\ Busy(v) /\ Busy(w) /\ request[v].customer = request[w].customer

Renames(r) == r.op = "update" /\ r.change.name \notin {Keep, r.seen.name}

RenamesAlone == \A v, w \in Workers : Beside(v, w) => ~Renames(request[v])

Names(c) == Candidates[account[c].name]

UniqueNames == \A c, d \in Existing : account[c].name = account[d].name => c = d

\* The name a handler has read is still that of its customer.
NameRead ==
  \A w \in Workers :
    Busy(w) /\ request[w].op # "create" =>
      request[w].seen.name = account[request[w].customer].name

RowsOwned ==
  \A row \in passwords \cup macRows \cup rates : \E c \in Existing : row[1] \in Names(c)

\* A password under a customer's names is its own, or locked.
OwnPassword(c, a, row) ==
  /\ row[2] \in {Locked} \cup ({c} \X Passwords)
  /\ a.status \in {"SUSPENDED", "TERMINATED"} => row[2] = Locked

OwnPasswords ==
  \A c \in Existing : \A row \in passwords :
    row[1] \in Names(c) => OwnPassword(c, account[c], row)

RowInv == UniqueNames /\ NameRead /\ RowsOwned /\ OwnPasswords

\* A commit that makes a the row of c touches rows under the names that c had or
\* has, and leaves none under those it gives up.
Confined(rows, rows2, c, a) ==
  /\ \A row \in rows2 \ rows : row[1] \in Candidates[a.name]
  /\ \A row \in rows \ rows2 :
       \/ row[1] \in Candidates[a.name]
       \/ account[c] # NoAccount /\ row[1] \in Names(c)
  /\ account[c] # NoAccount /\ a.name # account[c].name =>
       \A row \in rows2 : row[1] \notin Names(c)

LEMMA Untouched ==
  ASSUME NEW c \in Customers, NEW a, NEW rows, account[c] # NoAccount => a.name = account[c].name
  PROVE  Confined(rows, rows, c, a)
  BY DEF Confined

\* names are those c has now, gone those it had before.
LEMMA WritesConfined ==
  ASSUME NEW c \in Customers, NEW a \in Account, NEW rows, NEW values, NEW gone,
         NamesApart, account[c] \in Account \cup {NoAccount},
         \/ gone = {} /\ (account[c] # NoAccount => a.name = account[c].name)
         \/ account[c] # NoAccount /\ a.name # account[c].name /\ gone = Names(c)
  PROVE  /\ Confined(rows, Put(Without(rows, gone), Candidates[a.name], values), c, a)
         /\ Confined(rows, Without(rows, gone) \cup (Candidates[a.name] \X values), c, a)
         /\ Confined(rows, Without(rows, gone), c, a)
  <1>. DEFINE names == Candidates[a.name]
  <1>1. account[c] # NoAccount /\ a.name # account[c].name => names \cap Names(c) = {}
    BY DEF NamesApart, Names, Account
  <1>2. \A row : row \in Without(rows, gone) <=> row \in rows /\ row[1] \notin gone
    BY WithoutRows
  <1>3. \A row : row \in Put(Without(rows, gone), names, values)
                   <=> \/ row \in Without(rows, gone) /\ row[1] \notin names
                       \/ row \in names \X values
    BY PutRows
  <1>4. \A row \in names \X values : row[1] \in names
    OBVIOUS
  <1>. HIDE DEF names
  <1>. QED BY <1>1, <1>2, <1>3, <1>4 DEF Confined, names

\* Handler w makes a the row of its customer, and writes under its names only.
Wrote(w, c, a) ==
  /\ Busy(w) /\ c = request[w].customer /\ c \in Customers
  /\ account' = [account EXCEPT ![c] = a] /\ Done(w)
  /\ Named(a.name) \subseteq {c}
  /\ Confined(passwords, passwords', c, a)
  /\ Confined(macRows, macRows', c, a)
  /\ Confined(rates, rates', c, a)

LEMMA UniqueStep ==
  ASSUME TypeInv, UniqueNames, NEW c \in Customers, NEW a \in Account,
         account' = [account EXCEPT ![c] = a], Named(a.name) \subseteq {c}
  PROVE  UniqueNames'
  <1>1. /\ account'[c] = a
        /\ \A d \in Customers \ {c} : account'[d] = account[d]
    BY Written
  <1>2. Existing' = Existing \cup {c}
    BY <1>1, NothingYet DEF Existing
  <1>3. \A d \in Existing \ {c} : account[d].name # a.name
    BY DEF Named, Existing
  <1>. QED BY <1>1, <1>2, <1>3 DEF UniqueNames, Existing

LEMMA RowStep ==
  ASSUME TypeInv, RowInv, NamesApart,
         NEW w \in Workers, NEW c \in Customers, NEW a \in Account, Wrote(w, c, a),
         account[c] # NoAccount /\ a.name # account[c].name =>
           \A v \in Workers \ {w} : Busy(v) => request[v].customer # c,
         \A row \in passwords' : row[1] \in Candidates[a.name] => OwnPassword(c, a, row)
  PROVE  RowInv'
  <1>. USE DEF Wrote
  <1>1. /\ account'[c] = a
        /\ \A d \in Customers \ {c} : account'[d] = account[d]
        /\ a # NoAccount
    BY Written, NothingYet
  <1>2. Existing' = Existing \cup {c}
    BY <1>1 DEF Existing
  <1>3. \A d \in Existing \ {c} : account[d].name # a.name /\ account[d] \in Account
    BY DEF Named, Existing, TypeInv, AccountsTypeOK
  <1>4. \A d \in Existing \ {c} : Names(d) \cap Candidates[a.name] = {}
    BY <1>3 DEF NamesApart, Names, Account
  <1>5. Names(c)' = Candidates[a.name] /\ \A d \in Existing \ {c} : Names(d)' = Names(d)
    BY <1>1 DEF Names, Existing
  <1>6. UniqueNames'
    BY UniqueStep DEF RowInv
  <1>7. NameRead'
    <2>. SUFFICES ASSUME NEW v \in Workers, Busy(v)', request'[v].op # "create"
                  PROVE  request'[v].seen.name = account'[request'[v].customer].name
      BY DEF NameRead
    <2>1. v # w /\ request'[v] = request[v] /\ Busy(v)
      BY DEF Done, Busy, TypeInv, AccountsTypeOK
    <2>2. request[v].customer \in Customers /\ account[request[v].customer] # NoAccount
      BY <2>1 DEF TypeInv, AccountsTypeOK, Sound, Busy, Request
    <2>3. request[v].seen.name = account[request[v].customer].name
      BY <2>1 DEF RowInv, NameRead
    <2>. QED BY <1>1, <2>1, <2>2, <2>3
  <1>8. RowsOwned'
    <2>1. ASSUME NEW rows, NEW rows2, Confined(rows, rows2, c, a),
                 \A row \in rows : \E d \in Existing : row[1] \in Names(d),
                 NEW row \in rows2
          PROVE  \E d \in Existing' : row[1] \in Names(d)'
      <3>1. CASE row \in rows
        <4>1. PICK d \in Existing : row[1] \in Names(d)
          BY <2>1, <3>1
        <4>2. CASE d = c /\ a.name # account[c].name
          BY <2>1, <4>1, <4>2 DEF Confined, Existing
        <4>3. CASE d = c /\ a.name = account[c].name
          BY <1>2, <1>5, <4>1, <4>3 DEF Names
        <4>4. CASE d # c
          BY <1>2, <1>5, <4>1, <4>4
        <4>. QED BY <4>2, <4>3, <4>4
      <3>2. CASE row \notin rows
        BY <1>2, <1>5, <2>1, <3>2 DEF Confined
      <3>. QED BY <3>1, <3>2
    <2>. QED BY <2>1 DEF RowInv, RowsOwned
  <1>9. OwnPasswords'
    <2>. SUFFICES ASSUME NEW d \in Existing', NEW row \in passwords', row[1] \in Names(d)'
                  PROVE  OwnPassword(d, account'[d], row)
      BY DEF OwnPasswords, OwnPassword
    <2>1. CASE d = c
      BY <1>1, <1>5, <2>1
    <2>2. CASE d # c
      <3>1. d \in Existing /\ account'[d] = account[d] /\ row[1] \in Names(d)
        BY <1>1, <1>2, <1>5, <2>2 DEF Existing
      <3>2. row \in passwords
        BY <1>4, <2>2, <3>1 DEF Confined
      <3>. QED BY <3>1, <3>2 DEF RowInv, OwnPasswords
    <2>. QED BY <2>1, <2>2
  <1>. QED BY <1>6, <1>7, <1>8, <1>9 DEF RowInv

LEMMA ReadRows ==
  ASSUME TypeInv, RowInv, NEW w \in Workers, NEW c \in Customers,
         \/ CreateRead(w, c) \/ UpdateRead(w, c) \/ UpdateStatusRead(w, c)
         \/ ResetMacRead(w, c) \/ OverrideSpeedRead(w, c)
  PROVE  RowInv'
  <1>1. \E op, change, s : Receive(w, op, c, change, s)
    BY DEF CreateRead, UpdateRead, UpdateStatusRead, ResetMacRead, OverrideSpeedRead
  <1>. PICK op, change, s : Receive(w, op, c, change, s)
    BY <1>1
  <1>2. /\ UNCHANGED <<account, passwords, macRows, rates>>
        /\ request'[w].seen = account[c] /\ request'[w].customer = c
        /\ \A v \in Workers \ {w} : request'[v] = request[v]
    BY DEF Receive, TypeInv, AccountsTypeOK
  <1>3. NameRead'
    BY <1>2 DEF RowInv, NameRead, Busy
  <1>4. UniqueNames' /\ RowsOwned' /\ OwnPasswords'
    BY <1>2 DEF RowInv, UniqueNames, RowsOwned, OwnPasswords, OwnPassword, Existing, Names
  <1>. QED BY <1>3, <1>4 DEF RowInv

LEMMA CreateWrites ==
  ASSUME NEW w \in Workers, CreateCommit(w), NEW a \in Account, Created(w, a)
  PROVE  Wrote(w, request[w].customer, a)
  <1>. DEFINE c == request[w].customer
  <1>1. /\ c \in Customers /\ account[c] = NoAccount /\ Named(a.name) \subseteq {c}
        /\ account' = [account EXCEPT ![c] = a] /\ Done(w)
    BY DEF Created
  <1>2. \A rows, values :
          Confined(rows, rows \cup (Candidates[a.name] \X values), c, a)
    BY <1>1 DEF Confined
  <1>3. Confined(rates, rates', c, a)
    <2>1. \A rate \in {"64k", "full"} :
            Confined(rates, rates \cup (Candidates[a.name] \X {rate}), c, a)
      BY <1>2
    <2>. QED BY <2>1 DEF Created
  <1>4. Confined(passwords, passwords', c, a) /\ Confined(macRows, macRows', c, a)
    BY <1>2 DEF Created
  <1>5. Busy(w)
    BY DEF CreateCommit, Busy, NoRequest
  <1>. QED BY <1>1, <1>3, <1>4, <1>5 DEF Wrote

\* No row stands yet under the names of a customer to be.
LEMMA FreeNames ==
  ASSUME TypeInv, RowsOwned, NamesApart, NEW a \in Account, Named(a.name) = {}
  PROVE  \A row \in passwords \cup macRows : row[1] \notin Candidates[a.name]
  <1>1. \A d \in Existing : account[d] \in Account /\ account[d].name # a.name
    BY DEF Named, Existing, TypeInv, AccountsTypeOK
  <1>2. \A d \in Existing : Names(d) \cap Candidates[a.name] = {}
    BY <1>1 DEF NamesApart, Names, Account
  <1>. QED BY <1>2 DEF RowsOwned

LEMMA CreateRows ==
  ASSUME TypeInv, RowInv, NamesApart, NEW w \in Workers, CreateCommit(w)
  PROVE  RowInv'
  <1>. DEFINE c == request[w].customer
  <1>. PICK a \in Account : Created(w, a)
    BY CreateEffect
  <1>1. /\ c \in Customers /\ account[c] = NoAccount /\ Named(a.name) = {}
        /\ passwords' = passwords \cup (Candidates[a.name] \X {Secret(c, a)})
    BY DEF Created
  <1>2. Wrote(w, c, a)
    BY CreateWrites
  <1>. HIDE DEF c
  <1>3. \A row \in passwords' : row[1] \in Candidates[a.name] => OwnPassword(c, a, row)
    <2>1. \A row \in passwords' : row[1] \in Candidates[a.name] => row[2] = Secret(c, a)
      BY <1>1, FreeNames DEF RowInv
    <2>. QED BY <2>1 DEF OwnPassword, Secret, Account
  <1>. QED BY <1>1, <1>2, <1>3, RowStep

\* A handler that knows the name of its customer writes under no other.
KnowsName(w) == request[w].seen.name = account[request[w].customer].name

LEMMA UpdateWrites ==
  ASSUME NamesApart, NEW w \in Workers, NEW a \in Account, Updated(w, a), KnowsName(w)
  PROVE  /\ Wrote(w, request[w].customer, a)
         /\ IF Moved(request[w])
            THEN a.name # account[request[w].customer].name
            ELSE a.name = account[request[w].customer].name /\ GivenUp(request[w]) = {}
  <1>. DEFINE r == request[w]
              c == r.customer
              gone == GivenUp(r)
              names == Candidates[a.name]
  <1>1. /\ c \in Customers /\ account[c] \in Account /\ r.op = "update"
        /\ a.name = IF Moved(r) THEN r.change.name ELSE account[c].name
        /\ Named(a.name) \subseteq {c}
        /\ account' = [account EXCEPT ![c] = a] /\ Done(w)
    BY DEF Updated
  <1>2. Busy(w) /\ account[c] # NoAccount
    BY <1>1, NothingYet DEF Busy, NoRequest
  <1>3. IF Moved(r) THEN a.name # account[c].name /\ gone = Names(c)
                    ELSE a.name = account[c].name /\ gone = {}
    BY <1>1 DEF GivenUp, OldNames, Names, KnowsName, Moved
  <1>4. /\ \/ passwords' = passwords /\ ~Moved(r)
           \/ passwords' = Put(Without(passwords, gone), names, {Secret(c, a)})
        /\ \/ macRows' = Without(macRows, gone)
           \/ \E values : macRows' = Put(Without(macRows, gone), names, values)
        /\ \/ rates' = rates /\ ~Moved(r)
           \/ \E values : rates' = Put(Without(rates, gone), names, values)
           \/ \E values : rates' = Without(rates, gone) \cup (names \X values)
    BY DEF Updated
  <1>. HIDE DEF gone, names, c, r
  <1>5. ASSUME NEW rows, NEW rows2,
               \/ rows2 = rows /\ ~Moved(r)
               \/ rows2 = Without(rows, gone)
               \/ \E values : rows2 = Put(Without(rows, gone), names, values)
               \/ \E values : rows2 = Without(rows, gone) \cup (names \X values)
        PROVE  Confined(rows, rows2, c, a)
    <2>1. \A values :
            /\ Confined(rows, Put(Without(rows, gone), names, values), c, a)
            /\ Confined(rows, Without(rows, gone) \cup (names \X values), c, a)
            /\ Confined(rows, Without(rows, gone), c, a)
      BY <1>1, <1>2, <1>3, WritesConfined DEF names
    <2>2. ~Moved(r) => Confined(rows, rows, c, a)
      BY <1>1, <1>3, Untouched
    <2>. QED BY <1>5, <2>1, <2>2
  <1>6. /\ Confined(passwords, passwords', c, a)
        /\ Confined(macRows, macRows', c, a)
        /\ Confined(rates, rates', c, a)
    BY <1>4, <1>5
  <1>. QED BY <1>1, <1>2, <1>3, <1>6 DEF Wrote, gone, c, r

LEMMA UpdateRows ==
  ASSUME TypeInv, RowInv, NamesApart, RenamesAlone, NEW w \in Workers, UpdateCommit(w)
  PROVE  RowInv'
  <1>. DEFINE r == request[w]
              c == r.customer
  <1>. PICK a \in Account : Updated(w, a)
    BY UpdateEffect
  <1>1. /\ c \in Customers /\ account[c] \in Account /\ r.op = "update"
        /\ a.status = IF StatusSet(r) THEN r.change.status ELSE account[c].status
        /\ passwords' =
             IF Moved(r) \/ r.change.password # Keep \/ StatusSet(r)
             THEN Put(Without(passwords, GivenUp(r)), Candidates[a.name], {Secret(c, a)})
             ELSE passwords
    BY DEF Updated
  <1>2. Busy(w) /\ account[c] # NoAccount
    BY <1>1, NothingYet DEF Busy, NoRequest
  <1>3. KnowsName(w)
    BY <1>1, <1>2 DEF RowInv, NameRead, KnowsName
  <1>4. Wrote(w, c, a) /\ (~Moved(r) => a.name = account[c].name)
    BY <1>3, UpdateWrites
  <1>5. Moved(r) => \A v \in Workers \ {w} : Busy(v) => request[v].customer # c
    BY <1>1, <1>2 DEF RenamesAlone, Beside, Renames, Moved
  <1>. HIDE DEF c, r
  <1>6. \A row \in passwords' : row[1] \in Candidates[a.name] => OwnPassword(c, a, row)
    <2>1. CASE Moved(r) \/ r.change.password # Keep \/ StatusSet(r)
      <3>1. \A row \in passwords' : row[1] \in Candidates[a.name] => row[2] = Secret(c, a)
        BY <1>1, <2>1, PutRows
      <3>. QED BY <3>1 DEF OwnPassword, Secret, Account
    <2>2. CASE ~(Moved(r) \/ r.change.password # Keep \/ StatusSet(r))
      <3>1. passwords' = passwords /\ a.status = account[c].status /\ c \in Existing
        BY <1>1, <1>2, <2>2 DEF Existing
      <3>. QED BY <1>4, <2>2, <3>1 DEF RowInv, OwnPasswords, OwnPassword, Names
    <2>. QED BY <2>1, <2>2
  <1>. QED BY <1>1, <1>4, <1>5, <1>6, RowStep

\* What the handlers that change no name have in hand.
LEMMA InExisting ==
  ASSUME TypeInv, NEW w \in Workers,
         request[w].op \in {"update", "status", "resetMac", "speed"}
  PROVE  /\ Busy(w)
         /\ account[request[w].customer] # NoAccount
         /\ request[w].customer \in Existing
         /\ RowInv => KnowsName(w)
  <1>1. Busy(w) /\ request[w].op # "create"
    BY DEF Busy, NoRequest
  <1>2. request[w].customer \in Customers /\ account[request[w].customer] \in Account
    BY InHand
  <1>. QED BY <1>1, <1>2, NothingYet DEF RowInv, NameRead, Existing, KnowsName

\* A row of the same name, and rows under its names only.
LEMMA SameNameWrites ==
  ASSUME UniqueNames, NEW w \in Workers, Busy(w), Done(w),
         NEW c \in Existing, c = request[w].customer, KnowsName(w),
         NEW a \in Account, a.name = account[c].name,
         account' = [account EXCEPT ![c] = a],
         NEW names, names = Candidates[request[w].seen.name],
         \A pair \in {<<passwords, passwords'>>, <<macRows, macRows'>>, <<rates, rates'>>} :
           \/ pair[2] = pair[1]
           \/ pair[2] = Without(pair[1], names)
           \/ \E values : pair[2] = Put(pair[1], names, values)
  PROVE  Wrote(w, c, a)
  <1>1. c \in Customers /\ names = Candidates[a.name] /\ names = Names(c)
    BY DEF KnowsName, Names, Existing
  <1>2. Named(a.name) \subseteq {c}
    BY DEF Named, UniqueNames
  <1>3. \A rows, values :
          /\ Confined(rows, Put(rows, names, values), c, a)
          /\ Confined(rows, Without(rows, names), c, a)
          /\ Confined(rows, rows, c, a)
    <2>1. \A rows, values : \A row :
            row \in Put(rows, names, values)
              <=> (row \in rows /\ row[1] \notin names) \/ row \in names \X values
      BY PutRows
    <2>2. \A rows : \A row : row \in Without(rows, names) <=> row \in rows /\ row[1] \notin names
      BY WithoutRows
    <2>3. \A values : \A row \in names \X values : row[1] \in names
      OBVIOUS
    <2>. QED BY <1>1, <2>1, <2>2, <2>3 DEF Confined
  <1>4. ASSUME NEW rows, NEW rows2,
               \/ rows2 = rows
               \/ rows2 = Without(rows, names)
               \/ \E values : rows2 = Put(rows, names, values)
        PROVE  Confined(rows, rows2, c, a)
    BY <1>3, <1>4
  <1>. QED BY <1>1, <1>2, <1>4 DEF Wrote

LEMMA StatusWrites ==
  ASSUME TypeInv, UniqueNames, NEW w \in Workers, UpdateStatusCommit(w), KnowsName(w),
         NEW a \in Account, a.name = account[request[w].customer].name,
         account' = [account EXCEPT ![request[w].customer] = a]
  PROVE  Wrote(w, request[w].customer, a)
  <1>. DEFINE names == Candidates[request[w].seen.name]
  <1>1. request[w].op = "status" /\ Done(w)
    BY DEF UpdateStatusCommit
  <1>2. Busy(w) /\ request[w].customer \in Existing
    BY <1>1, InExisting
  <1>3. /\ \/ passwords' = passwords
           \/ \E values : passwords' = Put(passwords, names, values)
        /\ \/ macRows' = macRows \/ macRows' = Without(macRows, names)
           \/ \E values : macRows' = Put(macRows, names, values)
        /\ \/ rates' = rates \/ rates' = Without(rates, names)
           \/ \E values : rates' = Put(rates, names, values)
    BY DEF UpdateStatusCommit
  <1>. HIDE DEF names
  <1>4. \A pair \in {<<passwords, passwords'>>, <<macRows, macRows'>>, <<rates, rates'>>} :
           \/ pair[2] = pair[1]
           \/ pair[2] = Without(pair[1], names)
           \/ \E values : pair[2] = Put(pair[1], names, values)
    BY <1>3
  <1>. QED BY <1>1, <1>2, <1>4, SameNameWrites DEF names

LEMMA StatusRows ==
  ASSUME TypeInv, RowInv, NamesApart, NEW w \in Workers, UpdateStatusCommit(w)
  PROVE  RowInv'
  <1>. DEFINE r == request[w]
              c == r.customer
              names == Candidates[r.seen.name]
  <1>1. PICK a \in Account :
          /\ c \in Customers /\ r.seen \in Account
          /\ a.status = r.change.status /\ a.name = account[c].name
          /\ a.password = account[c].password /\ a.mac = account[c].mac
          /\ account' = [account EXCEPT ![c] = a]
    BY StatusEffect
  <1>2. r.op = "status"
    BY DEF UpdateStatusCommit
  <1>3. c \in Existing /\ KnowsName(w)
    BY <1>2, InExisting
  <1>4. names = Candidates[a.name] /\ names = Names(c)
    BY <1>1, <1>3 DEF Names, KnowsName
  <1>5. Wrote(w, c, a)
    BY <1>1, <1>3, StatusWrites DEF RowInv
  <1>6. \A row \in passwords' : row[1] \in Candidates[a.name] => OwnPassword(c, a, row)
    <2>. SUFFICES ASSUME NEW row \in passwords', row[1] \in names
                  PROVE  OwnPassword(c, a, row)
      BY <1>4
    <2>1. CASE a.status = "ACTIVE"
      <3>1. row[2] = <<c, r.seen.password>>
        BY <1>1, <2>1, PutRows DEF UpdateStatusCommit
      <3>. QED BY <1>1, <2>1, <3>1 DEF OwnPassword, Account
    <2>2. CASE a.status \in {"SUSPENDED", "TERMINATED"}
      <3>1. row[2] = Locked
        BY <1>1, <2>2, PutRows DEF UpdateStatusCommit
      <3>. QED BY <3>1 DEF OwnPassword
    <2>3. CASE a.status \notin {"ACTIVE", "SUSPENDED", "TERMINATED"}
      <3>1. row \in passwords
        BY <1>1, <2>3 DEF UpdateStatusCommit
      <3>. QED BY <1>3, <1>4, <2>3, <3>1 DEF RowInv, OwnPasswords, OwnPassword
    <2>. QED BY <2>1, <2>2, <2>3
  <1>. QED BY <1>1, <1>5, <1>6, RowStep

\* resetMac and overrideSpeed: a's name, status and password are those of before.
Quiet(w, a) ==
  LET c == request[w].customer
      names == Candidates[request[w].seen.name]
  IN /\ a.name = account[c].name /\ a.status = account[c].status
     /\ a.password = account[c].password
     /\ account' = [account EXCEPT ![c] = a]
     /\ UNCHANGED passwords /\ Done(w)
     /\ \/ a.mac = NoMac /\ macRows' = Without(macRows, names) /\ UNCHANGED rates
        \/ a.mac = account[c].mac /\ UNCHANGED macRows /\ rates' = Put(rates, names, {"full"})

LEMMA QuietEffect ==
  ASSUME TypeInv, NEW w \in Workers, ResetMacCommit(w) \/ OverrideSpeedCommit(w)
  PROVE  \E a \in Account : Quiet(w, a)
  <1>. DEFINE c == request[w].customer
  <1>1. CASE ResetMacCommit(w)
    <2>1. PICK a \in Account :
            /\ a.status = account[c].status /\ a.name = account[c].name
            /\ a.password = account[c].password /\ a.mac = NoMac
            /\ account' = [account EXCEPT ![c] = a]
      BY <1>1, ResetMacEffect
    <2>. QED BY <1>1, <2>1 DEF ResetMacCommit, Quiet
  <1>2. CASE OverrideSpeedCommit(w)
    <2>1. account' = [account EXCEPT ![c] = account[c]] /\ account[c] \in Account
      BY <1>2, InHand DEF OverrideSpeedCommit, TypeInv, AccountsTypeOK
    <2>. QED BY <1>2, <2>1 DEF OverrideSpeedCommit, Quiet
  <1>. QED BY <1>1, <1>2

LEMMA QuietWrites ==
  ASSUME TypeInv, UniqueNames, NEW w \in Workers, NEW a \in Account, Quiet(w, a),
         request[w].op \in {"resetMac", "speed"}, KnowsName(w)
  PROVE  Wrote(w, request[w].customer, a)
  <1>. DEFINE names == Candidates[request[w].seen.name]
  <1>1. /\ a.name = account[request[w].customer].name /\ Done(w)
        /\ account' = [account EXCEPT ![request[w].customer] = a]
        /\ passwords' = passwords
        /\ macRows' = macRows \/ macRows' = Without(macRows, names)
        /\ rates' = rates \/ \E values : rates' = Put(rates, names, values)
    BY DEF Quiet
  <1>2. Busy(w) /\ request[w].customer \in Existing
    BY InExisting
  <1>. HIDE DEF names
  <1>3. \A pair \in {<<passwords, passwords'>>, <<macRows, macRows'>>, <<rates, rates'>>} :
           \/ pair[2] = pair[1]
           \/ pair[2] = Without(pair[1], names)
           \/ \E values : pair[2] = Put(pair[1], names, values)
    BY <1>1
  <1>. QED BY <1>1, <1>2, <1>3, SameNameWrites DEF names

LEMMA QuietRows ==
  ASSUME TypeInv, RowInv, NamesApart, NEW w \in Workers,
         ResetMacCommit(w) \/ OverrideSpeedCommit(w)
  PROVE  RowInv'
  <1>. DEFINE c == request[w].customer
  <1>. PICK a \in Account : Quiet(w, a)
    BY QuietEffect
  <1>1. request[w].op \in {"resetMac", "speed"}
    BY DEF ResetMacCommit, OverrideSpeedCommit
  <1>2. c \in Existing /\ KnowsName(w)
    BY <1>1, InExisting
  <1>3. Wrote(w, c, a)
    BY <1>1, <1>2, QuietWrites DEF RowInv
  <1>4. \A row \in passwords' : row[1] \in Candidates[a.name] => OwnPassword(c, a, row)
    BY <1>2 DEF Quiet, RowInv, OwnPasswords, OwnPassword, Names
  <1>5. c \in Customers /\ a.name = account[c].name
    BY <1>2 DEF Existing, Quiet
  <1>. QED BY <1>3, <1>4, <1>5, RowStep

LEMMA RefuseRows ==
  ASSUME TypeInv, RowInv, NEW w \in Workers, Refuse(w)
  PROVE  RowInv'
  <1>1. NameRead'
    BY DEF Refuse, Done, RowInv, NameRead, Busy, TypeInv, AccountsTypeOK
  <1>. QED BY <1>1 DEF Refuse, RowInv, UniqueNames, RowsOwned, OwnPasswords, OwnPassword, Existing, Names

LEMMA RowInit == AccountsInit => RowInv
  BY DEF AccountsInit, RowInv, UniqueNames, NameRead, RowsOwned, OwnPasswords, Existing, Busy

LEMMA RowNext ==
  ASSUME NamesApart, TypeInv, RowInv, RenamesAlone, [AccountsNext]_accountVars
  PROVE  RowInv'
  <1>1. CASE UNCHANGED accountVars
    BY <1>1 DEF accountVars, RowInv, UniqueNames, NameRead, RowsOwned, OwnPasswords,
                OwnPassword, Existing, Names, Busy
  <1>2. CASE AccountsNext
    BY <1>2, ReadRows, CreateRows, UpdateRows, StatusRows, QuietRows, RefuseRows
       DEF AccountsNext
  <1>. QED BY <1>1, <1>2

LEMMA RowsHold ==
  ASSUME NamesApart
  PROVE  AccountsSpec /\ []RenamesAlone => []RowInv
  <1>1. TypeInv /\ RowInv /\ RenamesAlone /\ [AccountsNext]_accountVars => RowInv'
    BY RowNext
  <1>. QED BY <1>1, RowInit, TypesHold, PTL DEF AccountsSpec

\* However handlers overlap, as long as none renames a customer beside another one
\* of that customer: who is suspended or terminated does not log in.  Two handlers
\* that have read before each other may write in any order.
THEOREM LockedOut ==
  ASSUME NamesApart
  PROVE  AccountsSpec /\ []RenamesAlone => []LockedOutWhenSuspended
  <1>1. ASSUME TypeInv, RowInv
        PROVE  LockedOutWhenSuspended
    <2>. SUFFICES ASSUME NEW c \in Existing, account[c].status \in {"SUSPENDED", "TERMINATED"},
                         NEW n \in Candidates[account[c].name], NEW p \in Passwords,
                         <<n, <<c, p>>>> \in passwords
                  PROVE  FALSE
      BY DEF LockedOutWhenSuspended
    <2>1. <<c, p>> = Locked
      BY <1>1 DEF RowInv, OwnPasswords, OwnPassword, Names
    <2>. QED BY <2>1, AccountAssumption DEF Locked
  <1>. QED BY <1>1, TypesHold, RowsHold, PTL

\* ... and a name that nobody has any more has no rows left.
THEOREM OldNamesDead ==
  ASSUME NamesApart
  PROVE  AccountsSpec /\ []RenamesAlone => []OldNameIsDead
  <1>1. ASSUME TypeInv, RowInv
        PROVE  OldNameIsDead
    <2>. DEFINE owned == UNION {Candidates[account[c].name] : c \in Existing}
    <2>. SUFFICES ASSUME NEW n \in RadiusNames \ owned,
                         NEW rows \in {passwords, macRows, rates}
                  PROVE  Without(rows, {n}) = rows
      BY DEF OldNameIsDead
    <2>1. \A row \in rows : row[1] # n
      BY <1>1 DEF RowInv, RowsOwned, Names
    <2>2. Without(rows, {n}) \subseteq rows /\ rows \subseteq Without(rows, {n})
      BY <2>1, WithoutRows
    <2>. QED BY <2>2
  <1>. QED BY <1>1, TypesHold, RowsHold, PTL
-----------------------------------------------------------------------------
(* Who is ACTIVE logs in, until a stale handler writes *)

OneAtATime == \A v, w \in Workers : ~Beside(v, w)

\* What stands under each of the names is values.
Hold(rows, names, values) ==
  /\ \A row \in rows : row[1] \in names => row[2] \in values
  /\ \A n \in names, v \in values : <<n, v>> \in rows

\* Under the names of a, c logs in with the password and the device of a.
LogsIn(c, a, logins, devices) ==
  /\ Hold(logins, Candidates[a.name], {<<c, a.password>>})
  /\ Hold(devices, Candidates[a.name], Bound(a.mac))

Logins == \A c \in Existing : account[c].status = "ACTIVE" => LogsIn(c, account[c], passwords, macRows)

LEMMA LoginsMeans == TypeInv => (Logins <=> ActiveMayLogIn)
  <1>1. ASSUME NEW rows, NEW names, NEW values, \A row \in rows : row = <<row[1], row[2]>>
        PROVE  Hold(rows, names, values)
                 <=> \A n \in names : {row \in rows : row[1] = n} = {n} \X values
    <2>1. ASSUME Hold(rows, names, values), NEW n \in names
          PROVE  {row \in rows : row[1] = n} = {n} \X values
      <3>1. {row \in rows : row[1] = n} \subseteq {n} \X values
        BY <1>1, <2>1 DEF Hold
      <3>2. {n} \X values \subseteq {row \in rows : row[1] = n}
        BY <2>1 DEF Hold
      <3>. QED BY <3>1, <3>2
    <2>2. ASSUME \A n \in names : {row \in rows : row[1] = n} = {n} \X values
          PROVE  Hold(rows, names, values)
      <3>1. ASSUME NEW row \in rows, row[1] \in names
            PROVE  row[2] \in values
        <4>1. row \in {row[1]} \X values
          BY <2>2, <3>1
        <4>. QED BY <4>1
      <3>2. ASSUME NEW n \in names, NEW v \in values
            PROVE  <<n, v>> \in rows
        <4>1. <<n, v>> \in {n} \X values
          OBVIOUS
        <4>. QED BY <2>2, <4>1
      <3>. QED BY <3>1, <3>2 DEF Hold
    <2>. QED BY <2>1, <2>2
  <1>2. ASSUME TypeInv, NEW c \in Existing
        PROVE  LogsIn(c, account[c], passwords, macRows)
                 <=> \A n \in Candidates[account[c].name] :
                       /\ {row \in passwords : row[1] = n} = {<<n, <<c, account[c].password>>>>}
                       /\ {row \in macRows : row[1] = n} = {n} \X Bound(account[c].mac)
    <2>1. \A row \in passwords \cup macRows : row = <<row[1], row[2]>>
      BY <1>2 DEF TypeInv, AccountsTypeOK
    <2>2. \A n : {n} \X {<<c, account[c].password>>} = {<<n, <<c, account[c].password>>>>}
      OBVIOUS
    <2>3. Hold(passwords, Candidates[account[c].name], {<<c, account[c].password>>})
            <=> \A n \in Candidates[account[c].name] :
                  {row \in passwords : row[1] = n} = {<<n, <<c, account[c].password>>>>}
      <3>1. Hold(passwords, Candidates[account[c].name], {<<c, account[c].password>>})
              <=> \A n \in Candidates[account[c].name] :
                    {row \in passwords : row[1] = n} = {n} \X {<<c, account[c].password>>}
        BY <1>1, <2>1
      <3>. QED BY <2>2, <3>1
    <2>4. Hold(macRows, Candidates[account[c].name], Bound(account[c].mac))
            <=> \A n \in Candidates[account[c].name] :
                  {row \in macRows : row[1] = n} = {n} \X Bound(account[c].mac)
      BY <1>1, <2>1
    <2>. QED BY <2>3, <2>4, Zenon DEF LogsIn
  <1>. QED BY <1>2 DEF Logins, ActiveMayLogIn

\* Dead names in terms of owners.
LEMMA DeadMeans ==
  ASSUME TypeInv, OldNameIsDead
  PROVE  RowsOwned
  <1>. SUFFICES ASSUME NEW rows \in {passwords, macRows, rates}, NEW row \in rows,
                       \A c \in Existing : row[1] \notin Names(c)
                PROVE  FALSE
    BY DEF RowsOwned
  <1>1. row[1] \in RadiusNames \ UNION {Candidates[account[c].name] : c \in Existing}
    BY DEF TypeInv, AccountsTypeOK, Names
  <1>2. Without(rows, {row[1]}) = rows
    BY <1>1 DEF OldNameIsDead
  <1>. QED BY <1>2, WithoutRows

LEMMA PutHolds ==
  ASSUME NEW rows, NEW names, NEW values
  PROVE  Hold(Put(rows, names, values), names, values)
  <1>1. \A row : row \in Put(rows, names, values)
                   <=> (row \in rows /\ row[1] \notin names) \/ row \in names \X values
    BY PutRows
  <1>. QED BY <1>1 DEF Hold

\* The other customers keep their logins: no row under their names is touched.
LEMMA LoginStep ==
  ASSUME TypeInv, UniqueNames, NamesApart, Logins,
         NEW w \in Workers, NEW c \in Customers, NEW a \in Account, Wrote(w, c, a),
         a.status = "ACTIVE" => LogsIn(c, a, passwords', macRows')
  PROVE  Logins'
  <1>. USE DEF Wrote
  <1>1. /\ account'[c] = a
        /\ \A d \in Customers \ {c} : account'[d] = account[d]
    BY Written
  <1>2. ASSUME NEW d \in Existing', account'[d].status = "ACTIVE"
        PROVE  LogsIn(d, account'[d], passwords', macRows')
    <2>1. CASE d = c
      BY <1>1, <1>2, <2>1
    <2>2. CASE d # c
      <3>1. d \in Existing /\ account'[d] = account[d] /\ account[d] \in Account
        BY <1>1, <2>2 DEF Existing, TypeInv, AccountsTypeOK
      <3>2. account[d].name # a.name
        BY <2>2, <3>1 DEF Named
      <3>3. account[c] # NoAccount => account[c] \in Account /\ account[d].name # account[c].name
        BY <2>2, <3>1 DEF UniqueNames, Existing, TypeInv, AccountsTypeOK
      <3>. DEFINE names == Candidates[account[d].name]
      <3>4. /\ names \cap Candidates[a.name] = {}
            /\ account[c] # NoAccount => names \cap Names(c) = {}
        BY <3>1, <3>2, <3>3 DEF NamesApart, Names, Account
      <3>5. /\ \A row : row[1] \in names => (row \in passwords <=> row \in passwords')
            /\ \A row : row[1] \in names => (row \in macRows <=> row \in macRows')
        BY <3>4 DEF Confined
      <3>6. LogsIn(d, account[d], passwords, macRows)
        BY <1>2, <3>1 DEF Logins
      <3>7. \A n \in names : \A x : <<n, x>>[1] \in names
        OBVIOUS
      <3>. QED BY <3>1, <3>5, <3>6, <3>7 DEF LogsIn, Hold
    <2>. QED BY <2>1, <2>2
  <1>. QED BY <1>2 DEF Logins, LogsIn, Hold

LEMMA CreateLogins ==
  ASSUME TypeInv, UniqueNames, RowsOwned, NamesApart, Logins, NEW w \in Workers, CreateCommit(w)
  PROVE  Logins'
  <1>. DEFINE c == request[w].customer
  <1>. PICK a \in Account : Created(w, a)
    BY CreateEffect
  <1>1. /\ c \in Customers /\ Named(a.name) = {}
        /\ passwords' = passwords \cup (Candidates[a.name] \X {Secret(c, a)})
        /\ macRows' = macRows \cup (Candidates[a.name] \X Bound(a.mac))
    BY DEF Created
  <1>2. Wrote(w, c, a)
    BY CreateWrites
  <1>. HIDE DEF c
  <1>3. a.status = "ACTIVE" => LogsIn(c, a, passwords', macRows')
    BY <1>1, FreeNames DEF LogsIn, Hold, Secret
  <1>. QED BY <1>1, <1>2, <1>3, LoginStep

LEMMA UpdateLogins ==
  ASSUME TypeInv, UniqueNames, NamesApart, Logins, NEW w \in Workers, UpdateCommit(w), ~Stale(w)
  PROVE  Logins'
  <1>. DEFINE r == request[w]
              c == r.customer
  <1>. PICK a \in Account : Updated(w, a)
    BY UpdateEffect
  <1>. DEFINE names == Candidates[a.name]
  <1>1. /\ c \in Customers /\ account[c] \in Account /\ r.op = "update"
        /\ a.status = IF StatusSet(r) THEN r.change.status ELSE account[c].status
        /\ a.password = Given(r.change.password, account[c].password)
        /\ a.mac = Given(r.change.mac, account[c].mac)
        /\ passwords' =
             IF Moved(r) \/ r.change.password # Keep \/ StatusSet(r)
             THEN Put(Without(passwords, GivenUp(r)), names, {Secret(c, a)})
             ELSE passwords
        /\ macRows' =
             IF Moved(r) \/ r.change.mac # Keep \/ StatusSet(r)
             THEN Put(Without(macRows, GivenUp(r)), names,
                      IF a.status = "ACTIVE" THEN Bound(Given(r.change.mac, r.seen.mac)) ELSE {})
             ELSE Without(macRows, GivenUp(r))
    BY DEF Updated
  <1>2. r.seen = account[c] /\ KnowsName(w)
    BY <1>1 DEF Stale, NoRequest, KnowsName
  <1>3. /\ Wrote(w, c, a)
        /\ ~Moved(r) => a.name = account[c].name /\ GivenUp(r) = {}
    BY <1>2, UpdateWrites
  <1>4. c \in Existing
    BY <1>1, NothingYet DEF Existing
  <1>. HIDE DEF c, r
  <1>5. ASSUME a.status = "ACTIVE"
        PROVE  LogsIn(c, a, passwords', macRows')
    <2>1. ASSUME ~Moved(r), ~StatusSet(r)
          PROVE  LogsIn(c, account[c], passwords, macRows)
      BY <1>1, <1>4, <1>5, <2>1 DEF Logins
    <2>2. Hold(passwords', names, {<<c, a.password>>})
      <3>1. CASE Moved(r) \/ r.change.password # Keep \/ StatusSet(r)
        BY <1>1, <1>5, <3>1, PutHolds DEF Secret
      <3>2. CASE ~(Moved(r) \/ r.change.password # Keep \/ StatusSet(r))
        BY <1>1, <1>3, <2>1, <3>2 DEF LogsIn, Given
      <3>. QED BY <3>1, <3>2
    <2>3. Hold(macRows', names, Bound(a.mac))
      <3>1. CASE Moved(r) \/ r.change.mac # Keep \/ StatusSet(r)
        BY <1>1, <1>2, <1>5, <3>1, PutHolds
      <3>2. CASE ~(Moved(r) \/ r.change.mac # Keep \/ StatusSet(r))
        <4>1. Hold(macRows, names, Bound(a.mac))
          BY <1>1, <1>3, <2>1, <3>2 DEF LogsIn, Given
        <4>2. macRows' = Without(macRows, GivenUp(r)) /\ GivenUp(r) = {}
          BY <1>1, <1>3, <3>2
        <4>3. \A row : row \in macRows' <=> row \in macRows
          BY <4>2, WithoutRows
        <4>. QED BY <4>1, <4>3 DEF Hold
      <3>. QED BY <3>1, <3>2
    <2>. QED BY <2>2, <2>3 DEF LogsIn
  <1>. QED BY <1>1, <1>3, <1>5, LoginStep

LEMMA StatusLogins ==
  ASSUME TypeInv, UniqueNames, NamesApart, Logins, NEW w \in Workers, UpdateStatusCommit(w), ~Stale(w)
  PROVE  Logins'
  <1>. DEFINE r == request[w]
              c == r.customer
              names == Candidates[r.seen.name]
  <1>1. PICK a \in Account :
          /\ c \in Customers
          /\ a.status = r.change.status /\ a.name = account[c].name
          /\ a.password = account[c].password /\ a.mac = account[c].mac
          /\ account' = [account EXCEPT ![c] = a]
    BY StatusEffect
  <1>2. r.seen = account[c] /\ KnowsName(w)
    BY DEF UpdateStatusCommit, Stale, NoRequest, KnowsName
  <1>3. Wrote(w, c, a)
    BY <1>1, <1>2, StatusWrites
  <1>4. ASSUME a.status = "ACTIVE"
        PROVE  LogsIn(c, a, passwords', macRows')
    <2>1. /\ passwords' = Put(passwords, names, {<<c, a.password>>})
          /\ macRows' = Put(macRows, names, Bound(a.mac))
      BY <1>1, <1>2, <1>4 DEF UpdateStatusCommit
    <2>. QED BY <1>1, <1>2, <2>1, PutHolds DEF LogsIn
  <1>. QED BY <1>1, <1>3, <1>4, LoginStep

LEMMA QuietLogins ==
  ASSUME TypeInv, UniqueNames, NamesApart, Logins, NEW w \in Workers, ~Stale(w),
         ResetMacCommit(w) \/ OverrideSpeedCommit(w)
  PROVE  Logins'
  <1>. DEFINE c == request[w].customer
  <1>. PICK a \in Account : Quiet(w, a)
    BY QuietEffect
  <1>1. request[w].op \in {"resetMac", "speed"}
    BY DEF ResetMacCommit, OverrideSpeedCommit
  <1>2. c \in Existing /\ request[w].seen = account[c] /\ KnowsName(w)
    BY <1>1, InExisting DEF Stale, NoRequest, KnowsName
  <1>3. Wrote(w, c, a)
    BY <1>1, <1>2, QuietWrites
  <1>4. a.status = "ACTIVE" => LogsIn(c, a, passwords', macRows')
    <2>1. a.status = "ACTIVE" => LogsIn(c, account[c], passwords, macRows)
      BY <1>2 DEF Quiet, Logins
    <2>2. /\ a.name = account[c].name /\ a.password = account[c].password
          /\ passwords' = passwords
          /\ \/ a.mac = NoMac /\ macRows' = Without(macRows, Candidates[a.name])
             \/ a.mac = account[c].mac /\ macRows' = macRows
      BY <1>2 DEF Quiet
    <2>3. Hold(Without(macRows, Candidates[a.name]), Candidates[a.name], Bound(NoMac))
      BY PutHolds DEF Without, Bound
    <2>. QED BY <2>1, <2>2, <2>3 DEF LogsIn
  <1>. QED BY <1>2, <1>3, <1>4, LoginStep DEF Existing

Commit(w) ==
  \/ CreateCommit(w) \/ UpdateCommit(w) \/ UpdateStatusCommit(w)
  \/ ResetMacCommit(w) \/ OverrideSpeedCommit(w)

\* A commit rewrites the row of its customer, under a name that no other one has.
LEMMA CommitEffect ==
  ASSUME TypeInv, UniqueNames, NEW w \in Workers, Commit(w)
  PROVE  /\ Busy(w) /\ Done(w) /\ request[w].customer \in Customers
         /\ \E a \in Account :
              /\ account' = [account EXCEPT ![request[w].customer] = a]
              /\ Named(a.name) \subseteq {request[w].customer}
  <1>. DEFINE c == request[w].customer
  <1>1. request[w].op \in {"create", "update", "status", "resetMac", "speed"} /\ Done(w)
    BY DEF Commit, CreateCommit, UpdateCommit, UpdateStatusCommit, ResetMacCommit,
           OverrideSpeedCommit
  <1>2. Busy(w) /\ c \in Customers
    BY <1>1, InHand DEF Busy, NoRequest
  <1>3. CASE CreateCommit(w)
    BY <1>1, <1>2, <1>3, CreateEffect DEF Created
  <1>4. CASE UpdateCommit(w)
    BY <1>1, <1>2, <1>4, UpdateEffect DEF Updated
  <1>5. ASSUME NEW a \in Account, account' = [account EXCEPT ![c] = a],
               a.name = account[c].name, c \in Existing
        PROVE  Named(a.name) \subseteq {c}
    BY <1>5 DEF Named, UniqueNames
  <1>6. CASE UpdateStatusCommit(w)
    <2>1. c \in Existing
      BY <1>6, InExisting DEF UpdateStatusCommit
    <2>. QED BY <1>1, <1>2, <1>5, <1>6, <2>1, StatusEffect
  <1>7. CASE ResetMacCommit(w) \/ OverrideSpeedCommit(w)
    <2>1. c \in Existing
      BY <1>7, InExisting DEF ResetMacCommit, OverrideSpeedCommit
    <2>. QED BY <1>1, <1>2, <1>5, <1>7, <2>1, QuietEffect DEF Quiet
  <1>. QED BY <1>3, <1>4, <1>6, <1>7 DEF Commit

\* Two customers never have the same name, however handlers overlap.
LEMMA NamesStayUnique == AccountsSpec => []UniqueNames
  <1>1. AccountsInit => UniqueNames
    BY DEF AccountsInit, UniqueNames, Existing
  <1>2. ASSUME TypeInv, UniqueNames, [AccountsNext]_accountVars
        PROVE  UniqueNames'
    <2>1. ASSUME NEW w \in Workers, Commit(w)
          PROVE  UniqueNames'
      BY <1>2, <2>1, CommitEffect, UniqueStep
    <2>2. account' = account => UniqueNames'
      BY <1>2 DEF UniqueNames, Existing
    <2>3. ASSUME NEW w \in Workers, Refuse(w) \/ \E op, c, change, s : Receive(w, op, c, change, s)
          PROVE  account' = account
      BY <2>3 DEF Refuse, Receive
    <2>. QED BY <1>2, <2>1, <2>2, <2>3
             DEF AccountsNext, accountVars, Commit, CreateRead, UpdateRead, UpdateStatusRead,
                 ResetMacRead, OverrideSpeedRead
  <1>. QED BY <1>1, <1>2, TypesHold, PTL DEF AccountsSpec

\* The step is that of a handler that writes by an old reading.
StaleWrites == \E w \in Workers : request'[w] # request[w] /\ Stale(w)

LEMMA LoginNext ==
  ASSUME NamesApart, TypeInv, UniqueNames, OldNameIsDead, Logins, [AccountsNext]_accountVars
  PROVE  Logins' \/ StaleWrites
  <1>1. UNCHANGED <<account, passwords, macRows>> => Logins'
    BY DEF Logins, Existing, LogsIn, Hold
  <1>2. ASSUME NEW w \in Workers, Commit(w), ~Stale(w)
        PROVE  Logins'
    BY <1>2, DeadMeans, CreateLogins, UpdateLogins, StatusLogins, QuietLogins DEF Commit
  <1>3. ASSUME NEW w \in Workers, Commit(w), Stale(w)
        PROVE  StaleWrites
    <2>1. request'[w] # request[w]
      BY <1>3, CommitEffect DEF Done, Busy, TypeInv, AccountsTypeOK
    <2>. QED BY <1>3, <2>1 DEF StaleWrites
  <1>4. ASSUME NEW w \in Workers, Refuse(w) \/ \E op, c, change, s : Receive(w, op, c, change, s)
        PROVE  UNCHANGED <<account, passwords, macRows>>
    BY <1>4 DEF Refuse, Receive
  <1>. QED BY <1>1, <1>2, <1>3, <1>4
           DEF AccountsNext, accountVars, Commit, CreateRead, UpdateRead, UpdateStatusRead,
               ResetMacRead, OverrideSpeedRead

\* However handlers overlap, of one customer or of several: whichever step takes a
\* login from a customer that stays ACTIVE is one of a handler whose reading of its
\* customer is no longer true.
THEOREM StaleBreaksLogins ==
  ASSUME NamesApart
  PROVE  AccountsSpec => OnlyStaleHandlersBreakLogins
  <1>1. TypeInv /\ UniqueNames /\ OldNameIsDead /\ Logins /\ [AccountsNext]_accountVars
          => Logins' \/ StaleWrites
    BY LoginNext
  <1>2. StaleWrites => \E w \in Workers : request'[w] # request[w] /\ Stale(w)
    BY DEF StaleWrites
  <1>. QED BY <1>1, <1>2, LoginsMeans, TypesHold, NamesStayUnique, PTL
           DEF AccountsSpec, OnlyStaleHandlersBreakLogins

\* Where handlers of one customer do not overlap, none is ever stale.
LEMMA NeverStale == AccountsSpec /\ []OneAtATime => [](\A w \in Workers : ~Stale(w))
  <1>. DEFINE Fresh == \A w \in Workers : ~Stale(w)
  <1>1. AccountsInit => Fresh
    BY DEF AccountsInit, Stale
  <1>2. ASSUME TypeInv, UniqueNames, OneAtATime, Fresh, [AccountsNext]_accountVars
        PROVE  Fresh'
    <2>1. ASSUME NEW w \in Workers, Commit(w), NEW v \in Workers
          PROVE  ~Stale(v)'
      <3>1. /\ Busy(w) /\ Done(w) /\ request[w].customer \in Customers
            /\ \A d \in Customers \ {request[w].customer} : account'[d] = account[d]
        BY <1>2, <2>1, CommitEffect, Written
      <3>2. CASE v = w \/ ~Busy(v)
        BY <1>2, <3>1, <3>2 DEF Stale, Done, Busy, TypeInv, AccountsTypeOK
      <3>3. CASE v # w /\ Busy(v)
        <4>1. request'[v] = request[v] /\ request[v].customer \in Customers \ {request[w].customer}
          BY <1>2, <3>1, <3>3 DEF Done, Busy, OneAtATime, Beside, TypeInv, AccountsTypeOK, Request
        <4>. QED BY <1>2, <3>1, <4>1 DEF Stale
      <3>. QED BY <3>2, <3>3
    <2>2. ASSUME NEW w \in Workers, Refuse(w), NEW v \in Workers
          PROVE  ~Stale(v)'
      BY <1>2, <2>2 DEF Refuse, Done, Stale, TypeInv, AccountsTypeOK
    <2>3. ASSUME NEW w \in Workers, NEW op, NEW c, NEW change, NEW s, Receive(w, op, c, change, s),
                 NEW v \in Workers
          PROVE  ~Stale(v)'
      BY <1>2, <2>3 DEF Receive, Stale, TypeInv, AccountsTypeOK
    <2>4. UNCHANGED accountVars => Fresh'
      BY <1>2 DEF accountVars, Stale
    <2>5. CASE AccountsNext
      BY <2>1, <2>2, <2>3, <2>5
         DEF AccountsNext, Commit, CreateRead, UpdateRead, UpdateStatusRead, ResetMacRead,
             OverrideSpeedRead
    <2>. QED BY <1>2, <2>4, <2>5
  <1>. QED BY <1>1, <1>2, TypesHold, NamesStayUnique, PTL DEF AccountsSpec

LEMMA AloneRenames == OneAtATime => RenamesAlone
  BY DEF OneAtATime, RenamesAlone

\* Handlers of different customers may overlap: who is ACTIVE logs in under each of
\* its names with its password, from its device, and with nothing else.
THEOREM ActiveLogsIn ==
  ASSUME NamesApart
  PROVE  AccountsSpec /\ []OneAtATime => []ActiveMayLogIn
  <1>1. AccountsInit => Logins
    BY DEF AccountsInit, Logins, Existing
  <1>2. ASSUME TypeInv, UniqueNames, OldNameIsDead, Logins, \A w \in Workers : ~Stale(w),
               [AccountsNext]_accountVars
        PROVE  Logins'
    BY <1>2, LoginNext DEF StaleWrites
  <1>3. AccountsSpec /\ []OneAtATime => []OldNameIsDead
    BY AloneRenames, OldNamesDead, PTL
  <1>. QED BY <1>1, <1>2, <1>3, LoginsMeans, NeverStale, TypesHold, NamesStayUnique, PTL
           DEF AccountsSpec
=============================================================================
