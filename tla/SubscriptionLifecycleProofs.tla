--------------------- MODULE SubscriptionLifecycleProofs ---------------------
(***************************************************************************)
(* For any number of subscriptions, concurrent handlers and plans, and     *)
(* whatever the handlers are asked to do: the state is well typed, access  *)
(* is granted only to a live, ACTIVE, speed-limited customer, and every    *)
(* renewal that writes grants a full period.  Without failures, and        *)
(* without the administrator's expire, no session outlives its credentials *)
(* unnoticed.  And where handlers do not overlap: an ACTIVE customer has a *)
(* live subscription, the speed of its plan is that of a live one,         *)
(* CANCELLED is final, and only what is overdue expires.                   *)
(***************************************************************************)
EXTENDS SubscriptionLifecycle, TLAPS

\* The rows that exist.  No handler ever deletes one.
Existing == {s \in Subs : sub[s].status # Absent}

\* The request holds a row it has read (or, for create, one it will insert).
Working(r) == r.pc \in {"ready", "open"}

\* What a request carries from its reads to its commit.
WellFormed(r) ==
  /\ r.expiring \cup r.lapsed \cup r.others \subseteq Existing
  /\ r.pc = "scan" => r.op = "evaluateExpiry"
  /\ r.pc = "notify" <=> r.job # NoJob
  /\ Working(r) =>
       /\ r.sub \in Subs
       /\ r.op = "create" <=> sub[r.sub].status = Absent
       /\ r.op \in {"create", "activate", "renew", "changePlan", "reactivate"}
            => r.plan \in Plans
       /\ r.op = "create" => r.to \in {"PENDING", "ACTIVE"}
       /\ r.op = "create" /\ r.to = "PENDING" => r.others = {}
       /\ r.op = "reactivate" => r.to \in Live
       /\ r.op = "renew" => r.newEnd >= r.readEnd + Period

DistinctCreates ==
  \A v, w \in Workers :
    /\ v # w
    /\ Working(req[v]) /\ Working(req[w])
    /\ req[v].op = "create" /\ req[w].op = "create"
    => req[v].sub # req[w].sub

RowsHavePlans == \A s \in Existing : sub[s].plan \in Plans

IInv ==
  /\ TypeOK
  /\ \A w \in Workers : WellFormed(req[w])
  /\ DistinctCreates
  /\ RowsHavePlans
  /\ AccessIsEarned

\* A handler is between its first read and its commit, or has rows of a scan left.
Deciding(r) == r.pc \in {"ready", "open", "scan"} \/ r.expiring # {} \/ r.lapsed # {}

\* Nothing in the code sees to that.  The CoA queue and the sessions go on beside.
OneAtATime == \A v, w \in Workers : Deciding(req[v]) /\ Deciding(req[w]) => v = w

Late(s) == now > CalculateGraceEnd(sub[s].end, Grace)

\* What a scan has found is still so.
Pending(r) ==
  /\ r.op # "evaluateExpiry" => r.expiring = {} /\ r.lapsed = {}
  /\ r.expiring \cap r.lapsed = {}
  /\ \A s \in r.expiring : Late(s)
  /\ \A s \in r.lapsed : sub[s].status = "ACTIVE"
  /\ r.pc # "open" => r.others = {}

EndingOps == {"cancel", "expireSubscription", "evaluateExpiry"}

\* What a handler has read of its row, and counted of the others, is still so.
Decided(r) ==
  /\ r.sub \notin r.lapsed
  /\ \A s \in r.others : sub[s].status = "ACTIVE"
  /\ r.op # "create" => sub[r.sub].status # "CANCELLED"
  /\ r.op \in {"activate", "renew", "reactivate"} => r.plan = sub[r.sub].plan
  /\ r.op = "changePlan" => sub[r.sub].status \in Live
  /\ r.op = "evaluateExpiry" => Late(r.sub)
  /\ r.op \in EndingOps /\ r.pc = "open" => (r.last <=> LiveSubs \subseteq {r.sub})

Decision(r) == Pending(r) /\ (Working(r) => Decided(r))

SerialInv ==
  /\ \A w \in Workers : Decision(req[w])
  /\ ActiveCustomerIsServed
  /\ SpeedMatchesPlan
-----------------------------------------------------------------------------
(* The requests the handlers build *)

LEMMA IdleRequest == Idle \in Request /\ ~Working(Idle)
  BY LifecycleAssumption DEF Idle, Request, Working, NoJob, Absent

LEMMA RestRequest ==
  ASSUME NEW r \in Request
  PROVE  /\ Rest(r) \in Request
         /\ ~Working(Rest(r))
         /\ Rest(r).pc = "scan" => Rest(r).op = "evaluateExpiry"
         /\ Rest(r).pc # "notify" /\ Rest(r).job = NoJob
         /\ Rest(r).expiring = r.expiring /\ Rest(r).lapsed = r.lapsed
         /\ Rest(r).others = {}
         /\ r.expiring \cup r.lapsed # {} => Rest(r).op = "evaluateExpiry"
  <1>1. CASE r.expiring = {} /\ r.lapsed = {}
    <2>1. Rest(r) = Idle
      BY <1>1 DEF Rest
    <2>2. /\ Idle.expiring = {} /\ Idle.lapsed = {} /\ Idle.others = {}
          /\ Idle.pc = "idle" /\ Idle.job = NoJob
      BY DEF Idle
    <2>. QED BY <1>1, <2>1, <2>2, IdleRequest
  <1>2. CASE ~(r.expiring = {} /\ r.lapsed = {})
    <2>1. Rest(r) =
            [op |-> "evaluateExpiry", pc |-> "scan", sub |-> None, to |-> Absent,
             readEnd |-> 0, newEnd |-> 0, plan |-> None, others |-> {},
             last |-> FALSE, expiring |-> r.expiring, lapsed |-> r.lapsed,
             job |-> NoJob]
      BY <1>2 DEF Rest, Idle
    <2>2. r.expiring \in SUBSET Subs /\ r.lapsed \in SUBSET Subs
      BY DEF Request
    <2>3. Rest(r) \in Request
      BY <2>1, <2>2, LifecycleAssumption DEF Request, Operations, Absent
    <2>4. /\ Rest(r).expiring = r.expiring /\ Rest(r).lapsed = r.lapsed
          /\ Rest(r).others = {} /\ Rest(r).op = "evaluateExpiry"
          /\ Rest(r).pc = "scan" /\ Rest(r).job = NoJob
      BY <2>1
    <2>. QED BY <2>3, <2>4 DEF Working
  <1>. QED BY <1>1, <1>2

LEMMA AfterCommitRequest ==
  ASSUME NEW r \in Request, NEW job \in Job \cup {NoJob}
  PROVE  /\ AfterCommit(r, job) \in Request
         /\ ~Working(AfterCommit(r, job))
         /\ AfterCommit(r, job).pc = "scan" => AfterCommit(r, job).op = "evaluateExpiry"
         /\ AfterCommit(r, job).pc = "notify" <=> AfterCommit(r, job).job # NoJob
         /\ AfterCommit(r, job).job = job
         /\ AfterCommit(r, job).expiring = r.expiring
         /\ AfterCommit(r, job).lapsed = r.lapsed
         /\ AfterCommit(r, job).others = {}
         /\ \/ AfterCommit(r, job).op \in {r.op, "evaluateExpiry"}
            \/ r.expiring = {} /\ r.lapsed = {}
  <1>1. CASE job = NoJob
    BY <1>1, RestRequest DEF AfterCommit
  <1>2. CASE job # NoJob
    <2>1. AfterCommit(r, job) =
            [op |-> r.op, pc |-> "notify", sub |-> None, to |-> Absent,
             readEnd |-> 0, newEnd |-> 0, plan |-> None, others |-> {},
             last |-> FALSE, expiring |-> r.expiring, lapsed |-> r.lapsed,
             job |-> job]
      BY <1>2 DEF AfterCommit, Idle
    <2>2. /\ r.expiring \in SUBSET Subs /\ r.lapsed \in SUBSET Subs
          /\ r.op \in Operations \cup {"none"}
      BY DEF Request
    <2>3. AfterCommit(r, job) \in Request
      BY <2>1, <2>2, LifecycleAssumption DEF Request, Absent
    <2>. QED BY <1>2, <2>1, <2>3 DEF Working
  <1>. QED BY <1>1, <1>2

LEMMA Jobs ==
  /\ NoJob \notin Job /\ Disconnect \in Job
  /\ \A p \in Plans : CoaTo(p) \in Job
  BY LifecycleAssumption DEF NoJob, Disconnect, CoaTo, Job

\* What is asked of a new request, by fields.
Fresh(r, op, s, to) ==
  /\ r \in Request
  /\ r.op = op /\ r.pc = "ready" /\ r.sub = s /\ r.to = to
  /\ r.others = {} /\ r.expiring = {} /\ r.lapsed = {} /\ r.job = NoJob

LEMMA ReadyRequest ==
  ASSUME NEW op \in Operations, NEW s \in Subs, NEW to \in Status \cup {Absent}
  PROVE  Fresh(Ready(op, s, to), op, s, to)
  <1>1. ASSUME NEW r, r = Ready(op, s, to)
        PROVE  Fresh(r, op, s, to)
    <2>1. r = [op |-> op, pc |-> "ready", sub |-> s, to |-> to, readEnd |-> 0,
               newEnd |-> 0, plan |-> None, others |-> {}, last |-> FALSE,
               expiring |-> {}, lapsed |-> {}, job |-> NoJob]
      BY <1>1 DEF Ready, Idle
    <2>. QED BY <2>1, LifecycleAssumption DEF Fresh, Request, Absent
  <1>. QED BY <1>1

LEMMA FreshDecision ==
  ASSUME NEW op \in Operations \ {"evaluateExpiry"}, NEW s \in Subs, NEW to, NEW r,
         Fresh(r, op, s, to),
         op # "create" => sub[s].status # "CANCELLED",
         op \in {"activate", "renew", "reactivate"} => r.plan = sub[s].plan,
         op = "changePlan" => sub[s].status \in Live
  PROVE  Decision(r)
  BY DEF Fresh, Decision, Pending, Decided
-----------------------------------------------------------------------------
(* What keeps IInv, and SerialInv where one handler decides at a time *)

\* A step that changes only what handler w is doing.
LEMMA RequestStep ==
  ASSUME IInv, NEW w \in Workers, NEW r \in Request,
         WellFormed(r),
         Working(r) /\ r.op = "create"
           => \/ Working(req[w]) /\ req[w].op = "create" /\ req[w].sub = r.sub
              \/ ~Reserved(r.sub),
         req' = [req EXCEPT ![w] = r],
         jobs' \subseteq Job,
         UNCHANGED <<now, sub, customer, access, recent, session>>
  PROVE  IInv' /\ (SerialInv /\ Decision(r) => SerialInv')
  <1>1. TypeOK'
    BY DEF IInv, TypeOK
  <1>2. \A v \in Workers : WellFormed(req[v])'
    <2>1. \A v \in Workers : req'[v] = IF v = w THEN r ELSE req[v]
      BY DEF IInv, TypeOK
    <2>. QED BY <2>1 DEF IInv, WellFormed, Existing
  <1>3. DistinctCreates'
    BY DEF IInv, TypeOK, DistinctCreates, Working, Reserved
  <1>4. RowsHavePlans' /\ AccessIsEarned'
    BY DEF IInv, RowsHavePlans, Existing, AccessIsEarned, LiveSubs
  <1>5. SerialInv /\ Decision(r) => SerialInv'
    <2>1. \A v \in Workers : req'[v] = IF v = w THEN r ELSE req[v]
      BY DEF IInv, TypeOK
    <2>. QED BY <2>1 DEF SerialInv, Decision, Pending, Decided, Late, LiveSubs,
                         ActiveCustomerIsServed, SpeedMatchesPlan
  <1>. QED BY <1>1, <1>2, <1>3, <1>4, <1>5 DEF IInv

\* A step that writes rows: the only row it may bring into being is the one a
\* create has reserved, and afterwards its handler works on no row.
LEMMA RowStep ==
  ASSUME IInv, NEW w \in Workers, NEW r \in Request,
         ~Working(r),
         r.expiring \cup r.lapsed \cup r.others \subseteq Existing,
         r.pc = "scan" => r.op = "evaluateExpiry",
         r.pc = "notify" <=> r.job # NoJob,
         req' = [req EXCEPT ![w] = r],
         Existing \subseteq Existing',
         \A s \in Existing' \ Existing :
           Working(req[w]) /\ req[w].op = "create" /\ s = req[w].sub,
         TypeOK', RowsHavePlans', AccessIsEarned'
  PROVE  IInv'
  <1>1. \A v \in Workers : req'[v] = IF v = w THEN r ELSE req[v]
    BY DEF IInv, TypeOK
  <1>2. ASSUME NEW v \in Workers
        PROVE  WellFormed(req[v])'
    <2>1. CASE v = w
      BY <1>1, <2>1 DEF WellFormed, Working
    <2>2. CASE v # w
      <3>1. req'[v] = req[v] /\ WellFormed(req[v])
        BY <1>1, <2>2 DEF IInv
      <3>2. ASSUME Working(req[v])
            PROVE  (req[v].sub \in Existing) = (req[v].sub \in Existing')
        BY <2>2, <3>1, <3>2 DEF IInv, DistinctCreates, WellFormed, Existing
      <3>. QED BY <3>1, <3>2 DEF WellFormed, Working, Existing
    <2>. QED BY <2>1, <2>2
  <1>3. DistinctCreates'
    BY <1>1 DEF IInv, DistinctCreates, Working
  <1>. QED BY <1>2, <1>3 DEF IInv

\* The one handler that decides writes, and is done with its row.
LEMMA AloneStep ==
  ASSUME IInv, SerialInv, OneAtATime, NEW w \in Workers, Deciding(req[w]),
         NEW r \in Request, ~Working(r), Pending(r)',
         req' = [req EXCEPT ![w] = r],
         ActiveCustomerIsServed', SpeedMatchesPlan'
  PROVE  SerialInv'
  <1>. SUFFICES ASSUME NEW v \in Workers
                PROVE  Decision(req[v])'
    BY DEF SerialInv
  <1>1. CASE v = w
    <2>1. req'[v] = r
      BY <1>1 DEF IInv, TypeOK
    <2>. QED BY <2>1 DEF Decision, Pending, Late, Working
  <1>2. CASE v # w
    <2>1. req'[v] = req[v]
      BY <1>2 DEF IInv, TypeOK
    <2>2. ~Deciding(req[v])
      BY <1>2 DEF OneAtATime
    <2>3. Pending(req[v])
      BY DEF SerialInv, Decision
    <2>. QED BY <2>1, <2>2, <2>3 DEF Deciding, Decision, Pending, Working
  <1>. QED BY <1>1, <1>2
-----------------------------------------------------------------------------
(* Step 1: what a handler reads makes a well-formed request *)

LEMMA AcceptStep ==
  ASSUME IInv, NEW w \in Workers, NEW op, NEW r \in Request,
         Accept(w, op, r), WellFormed(r),
         Working(r) /\ r.op = "create" => ~Reserved(r.sub)
  PROVE  IInv' /\ (SerialInv /\ Decision(r) => SerialInv')
  BY RequestStep DEF Accept, IInv, TypeOK

LEMMA CreateReadStep ==
  ASSUME IInv, NEW w \in Workers, CreateRead(w)
  PROVE  IInv' /\ (SerialInv => SerialInv')
  <1>1. PICK s \in Subs, p \in Plans, to \in {"PENDING", "ACTIVE"} :
          /\ sub[s].status = Absent /\ ~Reserved(s)
          /\ CalculateEndDate(now, Period) <= MaxEnd
          /\ Accept(w, "create",
                    [Ready("create", s, to) EXCEPT
                       !.plan = p, !.newEnd = CalculateEndDate(now, Period)])
    BY DEF CreateRead
  <1>. DEFINE q == Ready("create", s, to)
              b == CalculateEndDate(now, Period)
              r == [q EXCEPT !.plan = p, !.newEnd = b]
  <1>2. Fresh(q, "create", s, to)
    BY ReadyRequest DEF Operations, Status
  <1>3. b \in 0..MaxEnd
    BY <1>1, LifecycleAssumption DEF CalculateEndDate, IInv, TypeOK
  <1>4. r = [q EXCEPT !.plan = p, !.newEnd = b]
    BY Zenon
  <1>5. Accept(w, "create", r)
    BY <1>1, Zenon
  <1>. HIDE DEF q, b, r
  <1>6. Fresh(r, "create", s, to) /\ r.plan = p
    BY <1>2, <1>3, <1>4 DEF Fresh, Request
  <1>7. WellFormed(r)
    BY <1>1, <1>6 DEF WellFormed, Fresh
  <1>8. Decision(r)
    BY <1>6, FreshDecision DEF Operations
  <1>. QED BY <1>1, <1>5, <1>6, <1>7, <1>8, AcceptStep DEF Fresh

LEMMA ActivateReadStep ==
  ASSUME IInv, NEW w \in Workers, ActivateRead(w)
  PROVE  IInv' /\ (SerialInv => SerialInv')
  <1>1. PICK s \in Subs :
          /\ CanTransition(sub[s].status, "ACTIVE")
          /\ CalculateEndDate(now, Period) <= MaxEnd
          /\ Accept(w, "activate",
                    [Ready("activate", s, "ACTIVE") EXCEPT
                       !.plan = sub[s].plan, !.newEnd = CalculateEndDate(now, Period)])
    BY DEF ActivateRead
  <1>. DEFINE q == Ready("activate", s, "ACTIVE")
              p == sub[s].plan
              b == CalculateEndDate(now, Period)
              r == [q EXCEPT !.plan = p, !.newEnd = b]
  <1>2. Fresh(q, "activate", s, "ACTIVE")
    BY ReadyRequest DEF Operations, Status
  <1>3. s \in Existing /\ p \in Plans
    BY <1>1 DEF CanTransition, Status, Absent, Existing, IInv, RowsHavePlans
  <1>4. b \in 0..MaxEnd
    BY <1>1, LifecycleAssumption DEF CalculateEndDate, IInv, TypeOK
  <1>5. r = [q EXCEPT !.plan = p, !.newEnd = b]
    BY Zenon
  <1>6. Accept(w, "activate", r)
    BY <1>1, Zenon
  <1>. HIDE DEF q, p, b, r
  <1>7. Fresh(r, "activate", s, "ACTIVE") /\ r.plan = p
    BY <1>2, <1>3, <1>4, <1>5 DEF Fresh, Request
  <1>8. WellFormed(r)
    BY <1>3, <1>7 DEF WellFormed, Fresh, Existing
  <1>9. Decision(r)
    BY <1>1, <1>7, FreshDecision DEF Operations, CanTransition, p
  <1>. QED BY <1>6, <1>7, <1>8, <1>9, AcceptStep DEF Fresh

LEMMA RenewReadStep ==
  ASSUME IInv, NEW w \in Workers, RenewRead(w)
  PROVE  IInv' /\ (SerialInv => SerialInv')
  <1>. DEFINE New(s) == CalculateEndDate(RenewalAnchor(sub[s].end, now), Period)
  <1>1. PICK s \in Subs :
          /\ CanTransition(sub[s].status, "ACTIVE")
          /\ New(s) <= MaxEnd
          /\ Accept(w, "renew",
                    [Ready("renew", s, "ACTIVE") EXCEPT
                       !.plan = sub[s].plan, !.readEnd = sub[s].end, !.newEnd = New(s)])
    BY DEF RenewRead
  <1>. DEFINE q == Ready("renew", s, "ACTIVE")
              p == sub[s].plan
              a == sub[s].end
              b == New(s)
              r == [q EXCEPT !.plan = p, !.readEnd = a, !.newEnd = b]
  <1>2. Fresh(q, "renew", s, "ACTIVE")
    BY ReadyRequest DEF Operations, Status
  <1>3. s \in Existing /\ p \in Plans
    BY <1>1 DEF CanTransition, Status, Absent, Existing, IInv, RowsHavePlans
  <1>4. a \in 0..MaxEnd /\ b \in 0..MaxEnd /\ b >= a + Period
    BY <1>1, LifecycleAssumption
       DEF CalculateEndDate, RenewalAnchor, IInv, TypeOK, Row
  <1>5. r = [q EXCEPT !.plan = p, !.readEnd = a, !.newEnd = b]
    BY Zenon
  <1>6. Accept(w, "renew", r)
    BY <1>1, Zenon
  <1>. HIDE DEF q, p, a, b, r
  <1>7. Fresh(r, "renew", s, "ACTIVE") /\ r.plan = p /\ r.readEnd = a /\ r.newEnd = b
    BY <1>2, <1>3, <1>4, <1>5 DEF Fresh, Request
  <1>8. WellFormed(r)
    BY <1>3, <1>4, <1>7 DEF WellFormed, Fresh, Existing
  <1>9. Decision(r)
    BY <1>1, <1>7, FreshDecision DEF Operations, CanTransition, p
  <1>. QED BY <1>6, <1>7, <1>8, <1>9, AcceptStep DEF Fresh

LEMMA ChangePlanReadStep ==
  ASSUME IInv, NEW w \in Workers, ChangePlanRead(w)
  PROVE  IInv' /\ (SerialInv => SerialInv')
  <1>1. PICK s \in Subs, p \in Plans :
          /\ sub[s].status \in Live
          /\ Accept(w, "changePlan",
                    [Ready("changePlan", s, Absent) EXCEPT !.plan = p])
    BY DEF ChangePlanRead
  <1>. DEFINE q == Ready("changePlan", s, Absent)
              r == [q EXCEPT !.plan = p]
  <1>2. Fresh(q, "changePlan", s, Absent)
    BY ReadyRequest DEF Operations
  <1>3. r = [q EXCEPT !.plan = p]
    BY Zenon
  <1>4. Accept(w, "changePlan", r)
    BY <1>1, Zenon
  <1>. HIDE DEF q, r
  <1>5. Fresh(r, "changePlan", s, Absent) /\ r.plan = p
    BY <1>2, <1>3 DEF Fresh, Request
  <1>6. WellFormed(r)
    BY <1>1, <1>5 DEF WellFormed, Fresh, Existing, Live, Absent
  <1>7. Decision(r)
    BY <1>1, <1>5, FreshDecision DEF Operations, Live
  <1>. QED BY <1>4, <1>5, <1>6, <1>7, AcceptStep DEF Fresh

LEMMA ReactivateReadStep ==
  ASSUME IInv, NEW w \in Workers, ReactivateRead(w)
  PROVE  IInv' /\ (SerialInv => SerialInv')
  <1>. DEFINE To(s) == IF now <= sub[s].end THEN "ACTIVE" ELSE "GRACE"
  <1>1. PICK s \in Subs :
          /\ CanTransition(sub[s].status, "ACTIVE")
          /\ Accept(w, "reactivate",
                    [Ready("reactivate", s, To(s)) EXCEPT !.plan = sub[s].plan])
    BY DEF ReactivateRead
  <1>. DEFINE to == To(s)
              q == Ready("reactivate", s, to)
              p == sub[s].plan
              r == [q EXCEPT !.plan = p]
  <1>2. to \in Live
    BY DEF Live
  <1>3. Fresh(q, "reactivate", s, to)
    BY <1>2, ReadyRequest DEF Operations, Status, Live
  <1>4. s \in Existing /\ p \in Plans
    BY <1>1 DEF CanTransition, Status, Absent, Existing, IInv, RowsHavePlans
  <1>5. r = [q EXCEPT !.plan = p]
    BY Zenon
  <1>6. Accept(w, "reactivate", r)
    BY <1>1, Zenon
  <1>. HIDE DEF q, p, r, to
  <1>7. Fresh(r, "reactivate", s, to) /\ r.plan = p
    BY <1>3, <1>4, <1>5 DEF Fresh, Request
  <1>8. WellFormed(r)
    BY <1>2, <1>4, <1>7 DEF WellFormed, Fresh, Existing
  <1>9. Decision(r)
    BY <1>1, <1>7, FreshDecision DEF Operations, CanTransition, p
  <1>. QED BY <1>6, <1>7, <1>8, <1>9, AcceptStep DEF Fresh

\* suspend, expire, cancel and the EXPIRE_SUBSCRIPTION job carry only a status.
LEMMA StatusReadStep ==
  ASSUME IInv, NEW w \in Workers, NEW s \in Existing, sub[s].status # "CANCELLED",
         NEW op \in {"suspend", "expire", "cancel", "expireSubscription"},
         NEW to \in Status, Accept(w, op, Ready(op, s, to))
  PROVE  IInv' /\ (SerialInv => SerialInv')
  <1>1. s \in Subs
    BY DEF Existing
  <1>2. Fresh(Ready(op, s, to), op, s, to)
    BY <1>1, ReadyRequest DEF Operations
  <1>3. WellFormed(Ready(op, s, to))
    BY <1>1, <1>2 DEF WellFormed, Fresh, Existing
  <1>4. Decision(Ready(op, s, to))
    BY <1>1, <1>2, FreshDecision DEF Operations
  <1>. QED BY <1>2, <1>3, <1>4, AcceptStep DEF Fresh

LEMMA EndingReadStep ==
  ASSUME IInv, NEW w \in Workers,
         \/ SuspendRead(w) \/ ExpireRead(w) \/ CancelRead(w)
         \/ ExpireSubscriptionRead(w)
  PROVE  IInv' /\ (SerialInv => SerialInv')
  <1>1. CASE SuspendRead(w)
    BY <1>1, StatusReadStep DEF SuspendRead, CanTransition, Existing, Status, Absent
  <1>2. CASE ExpireRead(w)
    BY <1>2, StatusReadStep DEF ExpireRead, CanTransition, Existing, Status, Absent
  <1>3. CASE CancelRead(w)
    BY <1>3, StatusReadStep DEF CancelRead, CanTransition, Existing, Status, Absent
  <1>4. CASE ExpireSubscriptionRead(w)
    BY <1>4, StatusReadStep DEF ExpireSubscriptionRead, Existing, Status
  <1>. QED BY <1>1, <1>2, <1>3, <1>4

LEMMA ScanReadStep ==
  ASSUME IInv, NEW w \in Workers, ScanRead(w)
  PROVE  IInv' /\ (SerialInv => SerialInv')
  <1>1. PICK e \in SUBSET LiveSubs, l \in SUBSET LiveSubs :
          /\ Accept(w, "evaluateExpiry",
                    [Idle EXCEPT !.op = "evaluateExpiry", !.pc = "scan",
                                 !.expiring = e, !.lapsed = l])
          /\ e \cap l = {} /\ \A s \in e : Late(s)
          /\ \A s \in l : sub[s].status = "ACTIVE"
    BY DEF ScanRead, Late
  <1>. DEFINE r == [Idle EXCEPT !.op = "evaluateExpiry", !.pc = "scan",
                                !.expiring = e, !.lapsed = l]
  <1>2. r = [Idle EXCEPT !.op = "evaluateExpiry", !.pc = "scan",
                         !.expiring = e, !.lapsed = l]
    BY Zenon
  <1>3. Accept(w, "evaluateExpiry", r)
    BY <1>1, Zenon
  <1>. HIDE DEF r
  <1>4. r = [op |-> "evaluateExpiry", pc |-> "scan", sub |-> None, to |-> Absent,
             readEnd |-> 0, newEnd |-> 0, plan |-> None, others |-> {},
             last |-> FALSE, expiring |-> e, lapsed |-> l, job |-> NoJob]
    BY <1>2 DEF Idle
  <1>5. e \cup l \subseteq Existing /\ e \in SUBSET Subs /\ l \in SUBSET Subs
    BY DEF LiveSubs, Live, Existing, Absent
  <1>6. r \in Request
    BY <1>4, <1>5, LifecycleAssumption DEF Request, Operations, Absent
  <1>7. WellFormed(r) /\ ~Working(r)
    BY <1>4, <1>5 DEF WellFormed, Working
  <1>8. Decision(r)
    BY <1>1, <1>4 DEF Decision, Pending, Working
  <1>. QED BY <1>3, <1>6, <1>7, <1>8, AcceptStep
-----------------------------------------------------------------------------
(* Step 2: the scan takes its next row; transactions lock and read          *)

LEMMA ScanExpireStep ==
  ASSUME IInv, NEW w \in Workers, ScanExpire(w)
  PROVE  IInv' /\ (SerialInv => SerialInv')
  <1>. DEFINE q(s) == [req[w] EXCEPT !.expiring = @ \ {s}]
              go(s) == [q(s) EXCEPT !.pc = "ready", !.sub = s, !.to = "EXPIRED"]
  <1>1. PICK s \in req[w].expiring :
          /\ req' = [req EXCEPT ![w] =
                       IF sub[s].status \in {"EXPIRED", "CANCELLED"} THEN Rest(q(s))
                       ELSE go(s)]
          /\ UNCHANGED <<now, sub, customer, access, recent, jobs, session>>
          /\ req[w].pc = "scan"
    BY DEF ScanExpire
  <1>2. req[w] \in Request /\ WellFormed(req[w]) /\ jobs \subseteq Job
    BY DEF IInv, TypeOK
  <1>3. q(s) \in Request /\ q(s).expiring \cup q(s).lapsed \subseteq Existing
    BY <1>2 DEF Request, WellFormed
  <1>4. CASE sub[s].status \in {"EXPIRED", "CANCELLED"}
    <2>1. PICK r \in Request :
            r = Rest(q(s)) /\ ~Working(r) /\ WellFormed(r)
      BY <1>3, RestRequest DEF WellFormed
    <2>2. SerialInv => Decision(r)
      <3>1. r.expiring = q(s).expiring /\ r.lapsed = q(s).lapsed /\ r.others = {}
        BY <1>3, <2>1, RestRequest
      <3>2. q(s).expiring = req[w].expiring \ {s} /\ q(s).lapsed = req[w].lapsed
        BY <1>2 DEF Request
      <3>3. req[w].op = "evaluateExpiry" /\ r.op \in {"none", "evaluateExpiry"}
        BY <1>1, <1>2, <2>1 DEF WellFormed, Rest, Idle
      <3>4. r.op = "none" => r.expiring = {} /\ r.lapsed = {}
        BY <2>1 DEF Rest, Idle
      <3>. QED BY <2>1, <3>1, <3>2, <3>3, <3>4 DEF SerialInv, Decision, Pending
    <2>. QED BY <1>1, <1>2, <1>4, <2>1, <2>2, RequestStep
  <1>5. CASE sub[s].status \notin {"EXPIRED", "CANCELLED"}
    <2>1. s \in Existing /\ s \in Subs
      BY <1>2 DEF WellFormed, Existing
    <2>. DEFINE r == go(s)
    <2>2. r = [q(s) EXCEPT !.pc = "ready", !.sub = s, !.to = "EXPIRED"]
      BY Zenon
    <2>3. req' = [req EXCEPT ![w] = r]
      BY <1>1, <1>5
    <2>. HIDE DEF r
    <2>4. /\ r \in Request
          /\ r.op = "evaluateExpiry" /\ r.pc = "ready" /\ r.sub = s
          /\ r.others = req[w].others /\ r.lapsed = req[w].lapsed
          /\ r.expiring \subseteq req[w].expiring /\ r.job = req[w].job
          /\ r.last = req[w].last
      BY <1>1, <1>2, <2>1, <2>2 DEF Request, Status, WellFormed
    <2>5. WellFormed(r)
      BY <1>1, <1>2, <2>1, <2>4 DEF WellFormed, Existing
    <2>6. SerialInv => Decision(r)
      BY <1>1, <1>5, <2>4 DEF SerialInv, Decision, Pending, Decided
    <2>. QED BY <1>1, <1>2, <2>3, <2>4, <2>5, <2>6, RequestStep
  <1>. QED BY <1>4, <1>5

LEMMA BeginStep ==
  ASSUME IInv, NEW w \in Workers, NEW others \in SUBSET Existing, NEW last \in BOOLEAN,
         Begin(w, others, last),
         req[w].op = "create" /\ req[w].to = "PENDING" => others = {}
  PROVE  /\ IInv'
         /\ /\ SerialInv
            /\ \A o \in others : sub[o].status = "ACTIVE"
            /\ req[w].op \in EndingOps => (last <=> LiveSubs \subseteq {req[w].sub})
            => SerialInv'
  <1>. DEFINE r == [req[w] EXCEPT !.pc = "open", !.others = others, !.last = last]
  <1>1. req[w] \in Request /\ WellFormed(req[w]) /\ jobs \subseteq Job
    BY DEF IInv, TypeOK
  <1>2. req[w].pc = "ready"
    BY DEF Begin
  <1>3. /\ req' = [req EXCEPT ![w] = r]
        /\ UNCHANGED <<now, sub, customer, access, recent, jobs, session>>
    <2>1. req[w] = req[w] /\ DOMAIN req = Workers
      BY DEF IInv, TypeOK
    <2>. QED BY <2>1 DEF Begin
  <1>4. ASSUME NEW x, x = r
        PROVE  /\ x \in Request /\ x.op = req[w].op /\ x.sub = req[w].sub
               /\ WellFormed(x)
               /\ /\ Decision(req[w])
                  /\ \A o \in others : sub[o].status = "ACTIVE"
                  /\ req[w].op \in EndingOps => (last <=> LiveSubs \subseteq {req[w].sub})
                  => Decision(x)
    <2>1. others \in SUBSET Subs
      BY DEF Existing
    <2>2. x \in Request
      BY <1>1, <1>4, <2>1 DEF Request
    <2>3. /\ x.op = req[w].op /\ x.sub = req[w].sub /\ x.plan = req[w].plan
          /\ x.to = req[w].to /\ x.newEnd = req[w].newEnd
          /\ x.readEnd = req[w].readEnd /\ x.expiring = req[w].expiring
          /\ x.lapsed = req[w].lapsed /\ x.others = others /\ x.pc = "open"
          /\ x.job = req[w].job /\ x.last = last
      BY <1>1, <1>4 DEF Request
    <2>4. WellFormed(x)
      BY <1>1, <1>2, <2>3 DEF WellFormed, Working
    <2>5. /\ Decision(req[w])
          /\ \A o \in others : sub[o].status = "ACTIVE"
          /\ req[w].op \in EndingOps => (last <=> LiveSubs \subseteq {req[w].sub})
          => Decision(x)
      BY <1>2, <2>3 DEF Decision, Pending, Decided, Working
    <2>. QED BY <2>2, <2>3, <2>4, <2>5
  <1>5. /\ r \in Request /\ r.op = req[w].op /\ r.sub = req[w].sub
        /\ WellFormed(r)
        /\ /\ Decision(req[w])
           /\ \A o \in others : sub[o].status = "ACTIVE"
           /\ req[w].op \in EndingOps => (last <=> LiveSubs \subseteq {req[w].sub})
           => Decision(r)
    BY <1>4, Zenon
  <1>. HIDE DEF r
  <1>6. IInv' /\ (SerialInv /\ Decision(r) => SerialInv')
    BY <1>1, <1>2, <1>3, <1>5, RequestStep DEF Working
  <1>. QED BY <1>5, <1>6 DEF SerialInv

LEMMA LockStep ==
  ASSUME IInv, NEW w \in Workers,
         BeginCreate(w) \/ BeginActivate(w) \/ BeginEnding(w)
  PROVE  IInv' /\ (SerialInv => SerialInv')
  <1>1. \A s \in Subs : /\ ActiveOthers(s) \in SUBSET Existing
                        /\ \A o \in ActiveOthers(s) : sub[o].status = "ACTIVE"
    BY DEF ActiveOthers, Existing, Absent
  <1>2. Begin(w, ActiveOthers(req[w].sub), FALSE) => req[w].sub \in Subs
    BY DEF Begin, IInv, WellFormed, Working
  <1>3. CASE BeginCreate(w)
    <2>1. CASE req[w].to = "ACTIVE"
      BY <1>1, <1>2, <1>3, <2>1, BeginStep DEF BeginCreate, EndingOps
    <2>2. CASE req[w].to # "ACTIVE"
      <3>1. Begin(w, {}, FALSE) /\ req[w].op = "create"
        BY <1>3, <2>2 DEF BeginCreate
      <3>2. {} \in SUBSET Existing /\ FALSE \in BOOLEAN /\ (\A o \in {} : sub[o].status = "ACTIVE")
            /\ req[w].op \notin EndingOps
        BY <3>1 DEF EndingOps
      <3>. QED BY <3>1, <3>2, BeginStep
    <2>. QED BY <2>1, <2>2
  <1>4. CASE BeginActivate(w)
    BY <1>1, <1>2, <1>4, BeginStep DEF BeginActivate, EndingOps
  <1>5. CASE BeginEnding(w)
    <2>1. Begin(w, {}, LiveSubs \subseteq {req[w].sub}) /\ req[w].op \in EndingOps
      BY <1>5 DEF BeginEnding, EndingOps
    <2>2. PICK last \in BOOLEAN : last = (LiveSubs \subseteq {req[w].sub})
      OBVIOUS
    <2>3. Begin(w, {}, last)
      BY <2>1, <2>2, Zenon
    <2>4. {} \in SUBSET Existing /\ (\A o \in {} : sub[o].status = "ACTIVE")
          /\ (last <=> LiveSubs \subseteq {req[w].sub})
          /\ req[w].op # "create"
      BY <2>1, <2>2 DEF EndingOps
    <2>. QED BY <2>3, <2>4, BeginStep
  <1>. QED BY <1>3, <1>4, <1>5
-----------------------------------------------------------------------------
(* Step 3: what a commit writes *)

\* A commit that leaves access entitled, and its handler with nothing but jobs
\* and the rest of its scan.
LEMMA CommitStep ==
  ASSUME IInv, NEW w \in Workers, NEW job \in Job \cup {NoJob},
         Finish(w, job),
         sub' \in [Subs -> Row], customer' \in CustomerStatus, access' \in Access,
         recent' \in [Subs -> 0..MaxEnd],
         UNCHANGED <<now, jobs, session>>,
         Existing \subseteq Existing',
         \A s \in Existing' \ Existing :
           Working(req[w]) /\ req[w].op = "create" /\ s = req[w].sub,
         RowsHavePlans', AccessIsEarned'
  PROVE  IInv'
  <1>1. req[w] \in Request /\ WellFormed(req[w])
    BY DEF IInv, TypeOK
  <1>2. PICK r \in Request : 
          /\ r = AfterCommit(req[w], job) /\ ~Working(r)
          /\ r.expiring \cup r.lapsed \cup r.others \subseteq Existing
          /\ r.pc = "scan" => r.op = "evaluateExpiry"
          /\ r.pc = "notify" <=> r.job # NoJob
    BY <1>1, AfterCommitRequest DEF WellFormed
  <1>3. req' = [req EXCEPT ![w] = r]
    BY <1>2 DEF Finish
  <1>4. TypeOK'
    BY <1>3 DEF IInv, TypeOK
  <1>. QED BY <1>2, <1>3, <1>4, RowStep

\* Where nobody else decides: all that is left of the handler is its scan.
LEMMA AloneCommit ==
  ASSUME IInv, SerialInv, OneAtATime, NEW w \in Workers, Working(req[w]),
         NEW job \in Job \cup {NoJob}, Finish(w, job), now' = now,
         \/ req[w].op # "evaluateExpiry"
         \/ /\ \A s \in req[w].expiring : sub'[s].end = sub[s].end
            /\ \A s \in req[w].lapsed : sub'[s].status = sub[s].status,
         ActiveCustomerIsServed', SpeedMatchesPlan'
  PROVE  SerialInv'
  <1>1. req[w] \in Request /\ Pending(req[w]) /\ Deciding(req[w])
    BY DEF IInv, TypeOK, SerialInv, Decision, Deciding, Working
  <1>2. PICK r \in Request :
          /\ r = AfterCommit(req[w], job) /\ ~Working(r)
          /\ r.expiring = req[w].expiring /\ r.lapsed = req[w].lapsed /\ r.others = {}
          /\ r.expiring \cup r.lapsed # {} => r.op \in {req[w].op, "evaluateExpiry"}
    BY <1>1, AfterCommitRequest
  <1>3. req' = [req EXCEPT ![w] = r]
    BY <1>2 DEF Finish
  <1>4. Pending(r)'
    BY <1>1, <1>2 DEF Pending, Late
  <1>. QED BY <1>1, <1>2, <1>3, <1>4, AloneStep

\* The rows after one row is rewritten.
LEMMA RowWritten ==
  ASSUME IInv, NEW s \in Existing, NEW row \in Row,
         row.status # Absent, row.plan \in Plans,
         sub' = [sub EXCEPT ![s] = row]
  PROVE  /\ sub' \in [Subs -> Row]
         /\ Existing' = Existing
         /\ RowsHavePlans'
         /\ s \in Subs /\ sub'[s] = row
         /\ \A o \in Subs \ {s} : sub'[o] = sub[o]
  BY DEF IInv, TypeOK, Existing, RowsHavePlans

LEMMA StatusWritten ==
  ASSUME IInv, NEW s \in Existing, NEW st \in Status,
         sub' = [sub EXCEPT ![s].status = st]
  PROVE  /\ sub' \in [Subs -> Row]
         /\ Existing' = Existing
         /\ RowsHavePlans'
         /\ s \in Subs /\ sub'[s].status = st
         /\ sub'[s].end = sub[s].end /\ sub'[s].plan = sub[s].plan
         /\ \A o \in Subs \ {s} : sub'[o] = sub[o]
  <1>1. s \in Subs /\ sub[s] \in Row /\ sub[s].plan \in Plans
    BY DEF IInv, TypeOK, Existing, RowsHavePlans
  <1>2. [sub[s] EXCEPT !.status = st] \in Row /\ [sub[s] EXCEPT !.status = st].status = st
          /\ [sub[s] EXCEPT !.status = st].plan = sub[s].plan
          /\ [sub[s] EXCEPT !.status = st].end = sub[s].end
    BY <1>1 DEF Row
  <1>3. st # Absent
    BY DEF Status, Absent
  <1>. QED BY <1>1, <1>2, <1>3 DEF IInv, TypeOK, Existing, RowsHavePlans

\* Nobody keeps access, whatever becomes of the rows and of the customer.
LEMMA Denied ==
  ASSUME SyncRadiusOnDeactivation
  PROVE  access' \in Access /\ AccessIsEarned' /\ SpeedMatchesPlan'
  BY DEF SyncRadiusOnDeactivation, Access, Rate, AccessIsEarned, SpeedMatchesPlan

\* Whoever gets access has a live row by then.
LEMMA Granted ==
  ASSUME NEW p \in Plans, SyncRadiusOnActivation(p), LiveSubs' # {}
  PROVE  /\ access' \in Access /\ customer' \in CustomerStatus /\ AccessIsEarned'
         /\ ActiveCustomerIsServed'
         /\ (\E s \in LiveSubs' : sub'[s].plan = p) => SpeedMatchesPlan'
  BY DEF SyncRadiusOnActivation, Access, Rate, CustomerStatus, AccessIsEarned,
         ActiveCustomerIsServed, SpeedMatchesPlan

\* Access is left alone and no live row is lost.
LEMMA Kept ==
  ASSUME IInv, UNCHANGED <<customer, access>>, LiveSubs \subseteq LiveSubs'
  PROVE  /\ access' \in Access /\ customer' \in CustomerStatus /\ AccessIsEarned'
         /\ SerialInv /\ (\A s \in LiveSubs : sub'[s].plan = sub[s].plan)
              => ActiveCustomerIsServed' /\ SpeedMatchesPlan'
  BY DEF IInv, TypeOK, AccessIsEarned, SerialInv,
         ActiveCustomerIsServed, SpeedMatchesPlan

LEMMA ScanGraceStep ==
  ASSUME IInv, NEW w \in Workers, ScanGrace(w)
  PROVE  IInv' /\ (SerialInv /\ OneAtATime => SerialInv')
  <1>. DEFINE q(s) == [req[w] EXCEPT !.lapsed = @ \ {s}]
  <1>1. PICK s \in req[w].lapsed :
          /\ sub' = [sub EXCEPT ![s].status = "GRACE"]
          /\ req' = [req EXCEPT ![w] = Rest(q(s))]
          /\ UNCHANGED <<now, customer, access, recent, jobs, session>>
    BY DEF ScanGrace
  <1>2. req[w] \in Request /\ WellFormed(req[w])
    BY DEF IInv, TypeOK
  <1>3. s \in Existing
    BY <1>2 DEF WellFormed
  <1>4. q(s) \in Request /\ q(s).expiring \cup q(s).lapsed \subseteq Existing
    BY <1>2 DEF Request, WellFormed
  <1>5. PICK r \in Request :
          /\ r = Rest(q(s)) /\ ~Working(r)
          /\ r.expiring \cup r.lapsed \cup r.others \subseteq Existing
          /\ r.pc = "scan" => r.op = "evaluateExpiry"
          /\ r.pc = "notify" <=> r.job # NoJob
          /\ r.expiring = req[w].expiring /\ r.lapsed = req[w].lapsed \ {s}
          /\ r.others = {} /\ (r.expiring \cup r.lapsed # {} => r.op = "evaluateExpiry")
    <2>1. q(s).expiring = req[w].expiring /\ q(s).lapsed = req[w].lapsed \ {s}
      BY <1>2 DEF Request
    <2>. HIDE DEF q
    <2>. QED BY <1>4, <2>1, RestRequest
  <1>6. /\ sub' \in [Subs -> Row] /\ Existing' = Existing /\ RowsHavePlans'
        /\ sub'[s].status = "GRACE" /\ \A o \in Subs \ {s} : sub'[o] = sub[o]
        /\ sub'[s].end = sub[s].end /\ sub'[s].plan = sub[s].plan
    BY <1>1, <1>3, StatusWritten DEF Status
  <1>7. LiveSubs \subseteq LiveSubs'
    BY <1>6 DEF LiveSubs, Live
  <1>8. AccessIsEarned'
    BY <1>1, <1>7, Kept
  <1>9. req' = [req EXCEPT ![w] = r]
    BY <1>1, <1>5
  <1>10. TypeOK'
    BY <1>1, <1>5, <1>6, <1>9 DEF IInv, TypeOK
  <1>11. ASSUME SerialInv, OneAtATime
         PROVE  SerialInv'
    <2>1. Deciding(req[w]) /\ Pending(req[w])
      BY <1>11 DEF ScanGrace, Deciding, SerialInv, Decision
    <2>2. r.expiring \cup r.lapsed \subseteq Subs
      BY <1>5 DEF Existing
    <2>3. /\ \A o \in r.expiring : sub'[o].end = sub[o].end
          /\ \A o \in r.lapsed : sub'[o] = sub[o]
      BY <1>5, <1>6, <2>2
    <2>4. Pending(r)'
      BY <1>1, <1>5, <2>1, <2>3 DEF Pending, Late
    <2>5. ActiveCustomerIsServed' /\ SpeedMatchesPlan'
      BY <1>1, <1>6, <1>7, <1>11, Kept DEF LiveSubs
    <2>. QED BY <1>5, <1>9, <1>11, <2>1, <2>4, <2>5, AloneStep
  <1>. QED BY <1>5, <1>6, <1>8, <1>9, <1>10, <1>11, RowStep

\* The rows after one subscription has superseded others.
LEMMA Superseded ==
  ASSUME IInv, NEW w \in Workers, req[w].pc = "open", NEW row \in Row,
         row.status # Absent, row.plan \in Plans, Supersede(w, row)
  PROVE  /\ sub' \in [Subs -> Row]
         /\ Existing' = Existing \cup {req[w].sub}
         /\ RowsHavePlans'
         /\ req[w].sub \in Subs /\ sub'[req[w].sub] = row
         /\ req[w].others = {} => \A o \in Subs \ {req[w].sub} : sub'[o] = sub[o]
  <1>1. req[w].sub \in Subs /\ req[w].others \subseteq Existing
    BY DEF IInv, WellFormed, Working
  <1>2. ASSUME NEW o \in Existing
        PROVE  /\ [sub[o] EXCEPT !.status = "EXPIRED"] \in Row
               /\ [sub[o] EXCEPT !.status = "EXPIRED"].status = "EXPIRED"
               /\ [sub[o] EXCEPT !.status = "EXPIRED"].plan = sub[o].plan
    BY DEF IInv, TypeOK, Row, Existing, Status
  <1>3. \A o \in Subs : sub'[o] = IF o = req[w].sub THEN row
                                  ELSE IF o \in req[w].others
                                       THEN [sub[o] EXCEPT !.status = "EXPIRED"]
                                       ELSE sub[o]
    BY DEF Supersede
  <1>4. sub' \in [Subs -> Row]
    <2>1. ASSUME NEW o \in Subs
          PROVE  (IF o = req[w].sub THEN row
                  ELSE IF o \in req[w].others
                       THEN [sub[o] EXCEPT !.status = "EXPIRED"]
                       ELSE sub[o]) \in Row
      BY <1>1, <1>2 DEF IInv, TypeOK
    <2>. QED BY <2>1 DEF Supersede
  <1>5. Existing' = Existing \cup {req[w].sub}
    BY <1>1, <1>2, <1>3 DEF Existing, Absent
  <1>6. RowsHavePlans'
    <2>1. ASSUME NEW o \in Existing'
          PROVE  sub'[o].plan \in Plans
      BY <1>1, <1>2, <1>3, <1>5 DEF Existing, IInv, RowsHavePlans
    <2>. QED BY <2>1 DEF RowsHavePlans
  <1>. QED BY <1>1, <1>3, <1>4, <1>5, <1>6

LEMMA CommitCreateStep ==
  ASSUME IInv, NEW w \in Workers, CommitCreate(w)
  PROVE  IInv' /\ (SerialInv /\ OneAtATime => SerialInv')
  <1>. DEFINE s == req[w].sub
              row == [status |-> req[w].to, end |-> req[w].newEnd, plan |-> req[w].plan]
  <1>1. /\ req[w].op = "create" /\ req[w].pc = "open"
        /\ Supersede(w, row)
        /\ IF req[w].to = "ACTIVE" THEN SyncRadiusOnActivation(req[w].plan)
           ELSE UNCHANGED <<customer, access>>
        /\ Finish(w, NoJob)
        /\ UNCHANGED <<now, recent, jobs, session>>
    BY DEF CommitCreate
  <1>2. /\ req[w] \in Request /\ s \in Subs /\ sub[s].status = Absent
        /\ req[w].plan \in Plans /\ req[w].to \in {"PENDING", "ACTIVE"}
        /\ req[w].to = "PENDING" => req[w].others = {}
    BY <1>1 DEF IInv, TypeOK, WellFormed, Working
  <1>3. row \in Row /\ row.status = req[w].to /\ row.status # Absent /\ row.plan \in Plans
    BY <1>2 DEF Row, Request, Status, Absent
  <1>. HIDE DEF row
  <1>4. /\ sub' \in [Subs -> Row] /\ Existing' = Existing \cup {s} /\ RowsHavePlans'
        /\ sub'[s] = row
        /\ req[w].others = {} => \A o \in Subs \ {s} : sub'[o] = sub[o]
    BY <1>1, <1>3, Superseded
  <1>5. /\ access' \in Access /\ customer' \in CustomerStatus /\ AccessIsEarned'
        /\ SerialInv => ActiveCustomerIsServed' /\ SpeedMatchesPlan'
    <2>1. CASE req[w].to = "ACTIVE"
      <3>1. s \in LiveSubs' /\ sub'[s].plan = req[w].plan
        BY <1>2, <1>3, <1>4, <2>1 DEF LiveSubs, Live, row
      <3>. QED BY <1>1, <1>2, <2>1, <3>1, Granted
    <2>2. CASE req[w].to = "PENDING"
      <3>1. /\ LiveSubs \subseteq LiveSubs'
            /\ \A o \in LiveSubs : sub'[o].plan = sub[o].plan
        BY <1>2, <1>4, <2>2 DEF LiveSubs, Live, Absent
      <3>. QED BY <1>1, <2>2, <3>1, Kept
    <2>. QED BY <1>2, <2>1, <2>2
  <1>6. SerialInv /\ OneAtATime => SerialInv'
    BY <1>1, <1>5, AloneCommit DEF Working
  <1>. QED BY <1>1, <1>4, <1>5, <1>6, CommitStep DEF IInv, TypeOK, Working

LEMMA CommitActivateStep ==
  ASSUME IInv, NEW w \in Workers, CommitActivate(w)
  PROVE  IInv' /\ (SerialInv /\ OneAtATime => SerialInv')
  <1>. DEFINE s == req[w].sub
              row == [sub[s] EXCEPT !.status = "ACTIVE", !.end = req[w].newEnd]
  <1>1. /\ req[w].op = "activate" /\ req[w].pc = "open"
        /\ Supersede(w, row)
        /\ SyncRadiusOnActivation(req[w].plan)
        /\ Finish(w, NoJob)
        /\ UNCHANGED <<now, recent, jobs, session>>
    BY DEF CommitActivate
  <1>2. /\ req[w] \in Request /\ s \in Subs /\ s \in Existing
        /\ req[w].plan \in Plans
    BY <1>1 DEF IInv, TypeOK, WellFormed, Working, Existing
  <1>3. row = [sub[s] EXCEPT !.status = "ACTIVE", !.end = req[w].newEnd]
    BY Zenon
  <1>4. req[w].newEnd \in 0..MaxEnd /\ sub[s] \in Row /\ sub[s].plan \in Plans
    BY <1>2 DEF Request, IInv, TypeOK, RowsHavePlans
  <1>. HIDE DEF row
  <1>5. row \in Row /\ row.status = "ACTIVE" /\ row.plan \in Plans /\ row.plan = sub[s].plan
    BY <1>3, <1>4 DEF Row, Status
  <1>6. /\ sub' \in [Subs -> Row] /\ Existing' = Existing \cup {s} /\ RowsHavePlans'
        /\ sub'[s] = row
    BY <1>1, <1>5, Superseded DEF Absent
  <1>7. s \in LiveSubs'
    BY <1>2, <1>5, <1>6 DEF LiveSubs, Live
  <1>8. /\ access' \in Access /\ customer' \in CustomerStatus /\ AccessIsEarned'
        /\ ActiveCustomerIsServed'
        /\ req[w].plan = sub[s].plan => SpeedMatchesPlan'
    BY <1>1, <1>2, <1>5, <1>6, <1>7, Granted
  <1>9. SerialInv => req[w].plan = sub[s].plan
    BY <1>1 DEF SerialInv, Decision, Decided, Working
  <1>10. SerialInv /\ OneAtATime => SerialInv'
    BY <1>1, <1>8, <1>9, AloneCommit DEF Working
  <1>. QED BY <1>1, <1>2, <1>6, <1>8, <1>10, CommitStep DEF IInv, TypeOK

LEMMA CommitRenewStep ==
  ASSUME IInv, NEW w \in Workers, CommitRenew(w)
  PROVE  IInv' /\ (SerialInv /\ OneAtATime => SerialInv')
  <1>. DEFINE s == req[w].sub
              row == [sub[s] EXCEPT !.status = "ACTIVE", !.end = req[w].newEnd]
  <1>1. /\ req[w].op = "renew" /\ req[w].pc = "ready"
        /\ Finish(w, NoJob) /\ UNCHANGED <<now, jobs, session>>
    BY DEF CommitRenew, Unlocked
  <1>2. /\ req[w] \in Request /\ s \in Subs /\ s \in Existing
        /\ req[w].plan \in Plans
    BY <1>1 DEF IInv, TypeOK, WellFormed, Working, Existing
  <1>3. CASE AlreadyRenewed(w)
    <2>1. UNCHANGED <<sub, customer, access, recent>>
      BY <1>3 DEF CommitRenew
    <2>2. Existing' = Existing /\ LiveSubs' = LiveSubs /\ RowsHavePlans'
      BY <2>1 DEF Existing, LiveSubs, IInv, RowsHavePlans
    <2>3. /\ access' \in Access /\ customer' \in CustomerStatus /\ AccessIsEarned'
          /\ SerialInv => ActiveCustomerIsServed' /\ SpeedMatchesPlan'
      BY <2>1, <2>2, Kept
    <2>4. SerialInv /\ OneAtATime => SerialInv'
      BY <1>1, <2>3, AloneCommit DEF Working
    <2>. QED BY <1>1, <2>1, <2>2, <2>3, <2>4, CommitStep DEF IInv, TypeOK
  <1>4. CASE ~AlreadyRenewed(w)
    <2>1. /\ sub' = [sub EXCEPT ![s].status = "ACTIVE", ![s].end = req[w].newEnd]
          /\ SyncRadiusOnActivation(req[w].plan)
          /\ recent' = [recent EXCEPT ![s] = req[w].newEnd]
      BY <1>4 DEF CommitRenew
    <2>2. row = [sub[s] EXCEPT !.status = "ACTIVE", !.end = req[w].newEnd]
      BY Zenon
    <2>3. req[w].newEnd \in 0..MaxEnd /\ sub[s] \in Row /\ sub[s].plan \in Plans
      BY <1>2 DEF Request, IInv, TypeOK, RowsHavePlans
    <2>4. sub' = [sub EXCEPT ![s] = row]
      BY <1>2, <2>1 DEF IInv, TypeOK
    <2>5. recent' \in [Subs -> 0..MaxEnd]
      BY <1>2, <2>1 DEF IInv, TypeOK, Request
    <2>. HIDE DEF row
    <2>6. row \in Row /\ row.status = "ACTIVE" /\ row.plan \in Plans /\ row.plan = sub[s].plan
      BY <2>2, <2>3 DEF Row, Status
    <2>7. /\ sub' \in [Subs -> Row] /\ Existing' = Existing /\ RowsHavePlans'
          /\ sub'[s] = row
      BY <1>2, <2>4, <2>6, RowWritten DEF Absent
    <2>8. s \in LiveSubs'
      BY <1>2, <2>6, <2>7 DEF LiveSubs, Live
    <2>9. /\ access' \in Access /\ customer' \in CustomerStatus /\ AccessIsEarned'
          /\ ActiveCustomerIsServed'
          /\ req[w].plan = sub[s].plan => SpeedMatchesPlan'
      BY <1>2, <2>1, <2>6, <2>7, <2>8, Granted
    <2>10. SerialInv => req[w].plan = sub[s].plan
      BY <1>1 DEF SerialInv, Decision, Decided, Working
    <2>11. SerialInv /\ OneAtATime => SerialInv'
      BY <1>1, <2>9, <2>10, AloneCommit DEF Working
    <2>. QED BY <1>1, <2>5, <2>7, <2>9, <2>11, CommitStep
  <1>. QED BY <1>3, <1>4

LEMMA CommitChangePlanStep ==
  ASSUME IInv, NEW w \in Workers, CommitChangePlan(w)
  PROVE  IInv' /\ (SerialInv /\ OneAtATime => SerialInv')
  <1>. DEFINE s == req[w].sub
              p == req[w].plan
              row == [sub[s] EXCEPT !.plan = p]
  <1>1. /\ req[w].op = "changePlan" /\ req[w].pc = "ready"
        /\ sub' = [sub EXCEPT ![s].plan = p]
        /\ access' = [access EXCEPT !.rate = p]
        /\ Finish(w, CoaTo(p))
        /\ UNCHANGED <<now, customer, recent, jobs, session>>
    BY DEF CommitChangePlan, Unlocked
  <1>2. s \in Subs /\ s \in Existing /\ p \in Plans
    BY <1>1 DEF IInv, TypeOK, WellFormed, Working, Existing
  <1>3. row = [sub[s] EXCEPT !.plan = p]
    BY Zenon
  <1>4. sub[s] \in Row /\ sub[s].status # Absent
    BY <1>2 DEF IInv, TypeOK, Existing
  <1>5. sub' = [sub EXCEPT ![s] = row]
    BY <1>1, <1>2 DEF IInv, TypeOK
  <1>6. customer' \in CustomerStatus /\ recent' \in [Subs -> 0..MaxEnd]
    BY <1>1 DEF IInv, TypeOK
  <1>. HIDE DEF row
  <1>7. row \in Row /\ row.status = sub[s].status /\ row.plan \in Plans /\ row.plan = p
    BY <1>2, <1>3, <1>4 DEF Row
  <1>8. /\ sub' \in [Subs -> Row] /\ Existing' = Existing /\ RowsHavePlans'
        /\ sub'[s] = row /\ \A o \in Subs \ {s} : sub'[o] = sub[o]
    BY <1>2, <1>4, <1>5, <1>7, RowWritten
  <1>9. LiveSubs' = LiveSubs
    BY <1>2, <1>7, <1>8 DEF LiveSubs
  <1>10. /\ access' \in Access /\ access'.rate \in Plans /\ access'.rate = p
         /\ access'.valid = access.valid
    BY <1>1, <1>2 DEF IInv, TypeOK, Access, Rate
  <1>11. AccessIsEarned'
    BY <1>1, <1>9, <1>10
       DEF IInv, AccessIsEarned
  <1>12. CoaTo(p) \in Job
    BY <1>2, Jobs
  <1>13. ASSUME SerialInv, OneAtATime
         PROVE  SerialInv'
    <2>1. s \in LiveSubs'
      BY <1>1, <1>2, <1>9, <1>13 DEF SerialInv, Decision, Decided, Working, LiveSubs
    <2>2. SpeedMatchesPlan'
      BY <1>7, <1>8, <1>10, <2>1 DEF SpeedMatchesPlan
    <2>3. ActiveCustomerIsServed'
      BY <1>1, <1>9, <1>13 DEF SerialInv, ActiveCustomerIsServed
    <2>. QED BY <1>1, <1>12, <1>13, <2>2, <2>3, AloneCommit DEF Working
  <1>. QED BY <1>1, <1>6, <1>8, <1>10, <1>11, <1>12, <1>13, CommitStep

\* suspend, expire, cancel, expireSubscription: one row ends and access goes.
LEMMA DenyingCommit ==
  ASSUME IInv, NEW w \in Workers, Working(req[w]), req[w].op # "create",
         NEW st \in Status, NEW job \in Job \cup {NoJob},
         sub' = [sub EXCEPT ![req[w].sub].status = st],
         customer' \in CustomerStatus, st \notin Live,
         \/ customer' # "ACTIVE"
         \/ /\ customer' = customer
            /\ req[w].op \in EndingOps /\ req[w].pc = "open" /\ ~req[w].last,
         SyncRadiusOnDeactivation,
         Finish(w, job),
         UNCHANGED <<now, recent, jobs, session>>
  PROVE  IInv' /\ (SerialInv /\ OneAtATime => SerialInv')
  <1>1. req[w].sub \in Existing
    BY DEF IInv, WellFormed, Existing
  <1>2. sub' \in [Subs -> Row] /\ Existing' = Existing /\ RowsHavePlans'
    BY <1>1, StatusWritten
  <1>3. access' \in Access /\ AccessIsEarned'
    BY Denied
  <1>4. ASSUME SerialInv, OneAtATime
         PROVE  SerialInv'
    <2>1. /\ sub'[req[w].sub].end = sub[req[w].sub].end
          /\ \A o \in Subs \ {req[w].sub} : sub'[o] = sub[o]
      BY <1>1, StatusWritten
    <2>2. Pending(req[w]) /\ Decided(req[w])
      BY <1>4 DEF SerialInv, Decision
    <2>3. req[w].expiring \cup req[w].lapsed \subseteq Subs
      BY DEF IInv, WellFormed, Existing
    <2>4. /\ \A o \in req[w].expiring : sub'[o].end = sub[o].end
          /\ \A o \in req[w].lapsed : sub'[o].status = sub[o].status
      BY <2>1, <2>2, <2>3 DEF Decided
    <2>5. ActiveCustomerIsServed'
      <3>1. CASE customer' # "ACTIVE"
        BY <3>1 DEF ActiveCustomerIsServed
      <3>2. CASE ~req[w].last /\ req[w].op \in EndingOps /\ req[w].pc = "open"
        <4>1. PICK o \in LiveSubs : o # req[w].sub
          BY <2>2, <3>2 DEF Decided
        <4>2. o \in LiveSubs'
          BY <2>1, <4>1 DEF LiveSubs
        <4>. QED BY <4>2 DEF ActiveCustomerIsServed
      <3>. QED BY <3>1, <3>2
    <2>. QED BY <1>4, <2>4, <2>5, Denied, AloneCommit
  <1>. QED BY <1>2, <1>3, <1>4, CommitStep DEF IInv, TypeOK

LEMMA CommitDenyStep ==
  ASSUME IInv, NEW w \in Workers,
         \/ CommitSuspend(w) \/ CommitExpire(w)
         \/ CommitCancel(w) \/ CommitExpireSubscription(w)
  PROVE  IInv' /\ (SerialInv /\ OneAtATime => SerialInv')
  <1>1. CASE CommitSuspend(w)
    BY <1>1, DenyingCommit, Jobs
       DEF CommitSuspend, Unlocked, Working, Status, Live, CustomerStatus
  <1>2. CASE CommitExpire(w)
    BY <1>2, DenyingCommit
       DEF CommitExpire, Unlocked, Working, Status, Live, CustomerStatus
  <1>3. CASE CommitCancel(w)
    BY <1>3, DenyingCommit, Jobs
       DEF CommitCancel, End, Working, Status, Live, CustomerStatus, EndingOps, IInv, TypeOK
  <1>4. CASE CommitExpireSubscription(w)
    BY <1>4, DenyingCommit, Jobs
       DEF CommitExpireSubscription, End, Working, Status, Live, CustomerStatus, EndingOps,
           IInv, TypeOK
  <1>. QED BY <1>1, <1>2, <1>3, <1>4

LEMMA CommitReactivateStep ==
  ASSUME IInv, NEW w \in Workers, CommitReactivate(w)
  PROVE  IInv' /\ (SerialInv /\ OneAtATime => SerialInv')
  <1>. DEFINE s == req[w].sub
  <1>1. /\ req[w].op = "reactivate" /\ req[w].pc = "ready"
        /\ sub' = [sub EXCEPT ![s].status = req[w].to]
        /\ SyncRadiusOnActivation(req[w].plan)
        /\ Finish(w, CoaTo(req[w].plan))
        /\ UNCHANGED <<now, recent, jobs, session>>
    BY DEF CommitReactivate, Unlocked
  <1>2. s \in Existing /\ req[w].plan \in Plans /\ req[w].to \in Live
    BY <1>1 DEF IInv, WellFormed, Working, Existing
  <1>3. /\ sub' \in [Subs -> Row] /\ Existing' = Existing /\ RowsHavePlans'
        /\ s \in Subs /\ sub'[s].status = req[w].to /\ sub'[s].plan = sub[s].plan
    BY <1>1, <1>2, StatusWritten DEF Live, Status
  <1>4. s \in LiveSubs'
    BY <1>2, <1>3 DEF LiveSubs
  <1>5. /\ access' \in Access /\ customer' \in CustomerStatus /\ AccessIsEarned'
        /\ ActiveCustomerIsServed'
        /\ req[w].plan = sub[s].plan => SpeedMatchesPlan'
    BY <1>1, <1>2, <1>3, <1>4, Granted
  <1>6. CoaTo(req[w].plan) \in Job
    BY <1>2, Jobs
  <1>7. SerialInv => req[w].plan = sub[s].plan
    BY <1>1 DEF SerialInv, Decision, Decided, Working
  <1>8. SerialInv /\ OneAtATime => SerialInv'
    BY <1>1, <1>5, <1>6, <1>7, AloneCommit DEF Working
  <1>. QED BY <1>1, <1>3, <1>5, <1>6, <1>8, CommitStep DEF IInv, TypeOK

LEMMA EnqueueStep ==
  ASSUME IInv, NEW w \in Workers, Enqueue(w)
  PROVE  IInv' /\ (SerialInv => SerialInv')
  <1>1. req[w] \in Request /\ WellFormed(req[w])
    BY DEF IInv, TypeOK
  <1>2. PICK r \in Request : r = Rest(req[w]) /\ ~Working(r) /\ WellFormed(r)
    BY <1>1, RestRequest DEF WellFormed
  <1>3. req' = [req EXCEPT ![w] = r]
    BY <1>2 DEF Enqueue
  <1>4. req[w].job \in Job /\ jobs \subseteq Job
    BY <1>1 DEF Enqueue, WellFormed, Request, IInv, TypeOK
  <1>5. SerialInv => Decision(r)
    <2>1. /\ r.expiring = req[w].expiring /\ r.lapsed = req[w].lapsed /\ r.others = {}
          /\ r.expiring \cup r.lapsed # {} => r.op = "evaluateExpiry"
      BY <1>1, <1>2, RestRequest
    <2>. QED BY <1>2, <2>1 DEF SerialInv, Decision, Pending
  <1>. QED BY <1>2, <1>3, <1>4, <1>5, RequestStep DEF Enqueue

LEMMA FailStep ==
  ASSUME IInv, NEW w \in Workers, Fail(w)
  PROVE  IInv' /\ (SerialInv => SerialInv')
  <1>1. WellFormed(Idle)
    BY DEF Idle, WellFormed, Working
  <1>2. Decision(Idle)
    BY DEF Idle, Decision, Pending, Working
  <1>. QED BY <1>1, <1>2, IdleRequest, RequestStep DEF Fail, IInv, TypeOK

\* The CoA worker, the router, the subscriber and the clock touch neither rows
\* nor requests.
LEMMA OutsideStep ==
  ASSUME IInv, UNCHANGED <<sub, customer, access, req>>, TypeOK'
  PROVE  IInv' /\ (SerialInv /\ now' \in {now, now + 1} => SerialInv')
  <1>1. Existing' = Existing /\ LiveSubs' = LiveSubs
    BY DEF Existing, LiveSubs
  <1>2. \A w \in Workers : WellFormed(req[w])'
    BY <1>1 DEF IInv, WellFormed
  <1>3. ASSUME SerialInv, now' \in {now, now + 1}
        PROVE  SerialInv'
    <2>1. \A s \in Subs : Late(s) => Late(s)'
      BY <1>3, LifecycleAssumption DEF Late, CalculateGraceEnd, IInv, TypeOK, Row
    <2>2. ASSUME NEW w \in Workers
          PROVE  Decision(req[w])'
      <3>1. Decision(req[w]) /\ req[w].expiring \subseteq Subs
        BY <1>3 DEF SerialInv, IInv, WellFormed, Existing
      <3>2. Working(req[w]) => req[w].sub \in Subs
        BY DEF IInv, WellFormed
      <3>. QED BY <1>1, <2>1, <3>1, <3>2 DEF Decision, Pending, Decided, Working
    <2>. QED BY <1>1, <1>3, <2>2 DEF SerialInv, ActiveCustomerIsServed, SpeedMatchesPlan
  <1>. QED BY <1>1, <1>2, <1>3
           DEF IInv, DistinctCreates, RowsHavePlans, AccessIsEarned

LEMMA SessionTypes ==
  ASSUME TypeOK, NEW job \in Job, Apply(job)
  PROVE  session' \in [up : BOOLEAN, rate : Rate]
  <1>1. job.rate \in Rate
    BY DEF Job, Rate
  <1>2. \/ session' = [up |-> TRUE, rate |-> job.rate]
        \/ session' = [up |-> FALSE, rate |-> None]
        \/ session' = session
    BY DEF Apply
  <1>3. None \in Rate
    BY DEF Rate
  <1>4. CASE session' = [up |-> TRUE, rate |-> job.rate]
    BY <1>1, <1>4
  <1>5. CASE session' = [up |-> FALSE, rate |-> None]
    BY <1>3, <1>5
  <1>. QED BY <1>2, <1>4, <1>5 DEF TypeOK

LEMMA EnvironmentStep ==
  ASSUME IInv,
         \/ \E job \in jobs : Deliver(job) \/ Redeliver(job) \/ GiveUp(job)
         \/ Connect \/ HangUp \/ Tick
         \/ \E s \in Subs : Forget(s)
  PROVE  IInv' /\ (SerialInv => SerialInv')
  <1>. USE DEF IInv, TypeOK
  <1>1. ASSUME NEW job \in jobs, Deliver(job) \/ Redeliver(job) \/ GiveUp(job)
        PROVE  IInv' /\ (SerialInv => SerialInv')
    <2>1. job \in Job
      OBVIOUS
    <2>2. CASE Deliver(job)
      BY <2>1, <2>2, OutsideStep, SessionTypes DEF Deliver
    <2>3. CASE Redeliver(job)
      BY <2>1, <2>3, OutsideStep, SessionTypes DEF Redeliver
    <2>4. CASE GiveUp(job)
      BY <2>4, OutsideStep DEF GiveUp
    <2>. QED BY <1>1, <2>2, <2>3, <2>4
  <1>2. CASE Connect
    BY <1>2, OutsideStep DEF Connect, Access
  <1>3. CASE HangUp
    BY <1>3, OutsideStep DEF HangUp, Rate
  <1>4. CASE Tick
    BY <1>4, OutsideStep, LifecycleAssumption DEF Tick
  <1>5. ASSUME NEW s \in Subs, Forget(s)
        PROVE  IInv' /\ (SerialInv => SerialInv')
    BY <1>5, OutsideStep, LifecycleAssumption DEF Forget
  <1>. QED BY <1>1, <1>2, <1>3, <1>4, <1>5
-----------------------------------------------------------------------------
(* The invariant *)

LEMMA InitInv == Init => IInv
  <1>. SUFFICES ASSUME Init PROVE IInv
    OBVIOUS
  <1>1. PICK s \in Subs, p \in Plans, active \in BOOLEAN :
          /\ sub = [x \in Subs |->
                     IF x = s
                     THEN [status |-> IF active THEN "ACTIVE" ELSE "PENDING",
                           end |-> Period, plan |-> p]
                     ELSE AbsentRow]
          /\ customer = IF active THEN "ACTIVE" ELSE "PENDING"
          /\ access = [valid |-> active, rate |-> IF active THEN p ELSE Throttle]
    BY DEF Init
  <1>2. Period \in 0..MaxEnd /\ 0 \in 0..MaxEnd /\ 0 \in 0..MaxTime
    BY LifecycleAssumption
  <1>3. sub \in [Subs -> Row]
    BY <1>1, <1>2 DEF Row, Status, AbsentRow
  <1>4. TypeOK
    <2>1. now \in 0..MaxTime /\ recent \in [Subs -> 0..MaxEnd] /\ jobs \subseteq Job
      BY <1>2 DEF Init
    <2>2. req \in [Workers -> Request]
      BY IdleRequest DEF Init
    <2>3. customer \in CustomerStatus /\ access \in Access
      BY <1>1 DEF CustomerStatus, Access, Rate
    <2>4. session \in [up : BOOLEAN, rate : Rate]
      BY DEF Init, Rate
    <2>. QED BY <1>3, <2>1, <2>2, <2>3, <2>4 DEF TypeOK
  <1>5. \A w \in Workers : req[w] = Idle
    BY DEF Init
  <1>6. (\A w \in Workers : WellFormed(req[w])) /\ DistinctCreates
    BY <1>5 DEF Idle, WellFormed, Working, DistinctCreates
  <1>7. RowsHavePlans
    BY <1>1 DEF RowsHavePlans, Existing, AbsentRow
  <1>8. AccessIsEarned
    <2>1. active => s \in LiveSubs
      BY <1>1 DEF LiveSubs, Live
    <2>2. access.valid = active /\ (active => access.rate = p /\ customer = "ACTIVE")
      BY <1>1
    <2>. QED BY <2>1, <2>2
             DEF AccessIsEarned
  <1>. QED BY <1>4, <1>6, <1>7, <1>8 DEF IInv

LEMMA NextInv ==
  ASSUME IInv, [Next]_vars
  PROVE  IInv' /\ (SerialInv /\ OneAtATime => SerialInv')
  <1>1. ASSUME NEW w \in Workers, Start(w)
        PROVE  IInv' /\ (SerialInv => SerialInv')
    BY <1>1, CreateReadStep, ActivateReadStep, RenewReadStep, ChangePlanReadStep,
       ReactivateReadStep, EndingReadStep, ScanReadStep DEF Start
  <1>2. ASSUME NEW w \in Workers, Proceed(w)
        PROVE  IInv' /\ (SerialInv /\ OneAtATime => SerialInv')
    BY <1>2, ScanExpireStep, ScanGraceStep, LockStep, CommitCreateStep,
       CommitActivateStep, CommitRenewStep, CommitChangePlanStep, CommitDenyStep,
       CommitReactivateStep, EnqueueStep DEF Proceed
  <1>3. ASSUME NEW w \in Workers, Fail(w)
        PROVE  IInv' /\ (SerialInv => SerialInv')
    BY <1>3, FailStep
  <1>4. CASE vars' = vars
    BY <1>4, OutsideStep DEF vars, IInv, TypeOK
  <1>. QED BY <1>1, <1>2, <1>3, <1>4, EnvironmentStep DEF Next

\* Every reachable state satisfies the inductive invariant.
THEOREM Invariance == Spec => []IInv
  <1>1. IInv /\ [Next]_vars => IInv'
    BY NextInv
  <1>. QED BY <1>1, InitInv, PTL DEF Spec

\* The rows, requests, jobs and the session keep their types.
THEOREM TypeCorrect == Spec => []TypeOK
  <1>1. IInv => TypeOK
    BY DEF IInv
  <1>. QED BY <1>1, Invariance, PTL

\* Whatever the handlers, the scan and the failures interleave, the password is
\* valid only while the customer has an ACTIVE or GRACE subscription and is ACTIVE,
\* and never without the rate limit of a plan: no handler restores one of the three
\* and leaves the others.
THEOREM EarnedAccess == Spec => []AccessIsEarned
  <1>1. IInv => AccessIsEarned
    BY DEF IInv
  <1>. QED BY <1>1, Invariance, PTL

\* A renewal that writes grants a full period, however many renewals race: the
\* comparison under the row lock rejects those that started from an older date.
THEOREM FullPeriod == Spec => RenewalGrantsFullPeriod
  <1>1. ASSUME IInv, NEW w \in Workers, req[w].op = "renew", CommitRenew(w),
               ~AlreadyRenewed(w)
        PROVE  sub'[req[w].sub].end >= sub[req[w].sub].end + Period
    <2>1. /\ req[w].sub \in Subs /\ sub[req[w].sub] \in Row /\ req[w] \in Request
          /\ req[w].newEnd >= req[w].readEnd + Period
      BY <1>1 DEF CommitRenew, Unlocked, IInv, TypeOK, WellFormed, Working
    <2>2. sub'[req[w].sub].end = req[w].newEnd
      BY <1>1, <2>1 DEF CommitRenew, IInv, TypeOK, Row
    <2>3. sub[req[w].sub].end \in Nat /\ req[w].readEnd \in Nat /\ req[w].newEnd \in Nat
      BY <2>1, LifecycleAssumption DEF Row, Request
    <2>4. sub[req[w].sub].end <= req[w].readEnd
      BY <1>1, <2>3 DEF AlreadyRenewed
    <2>. QED BY <2>1, <2>2, <2>3, <2>4, LifecycleAssumption
  <1>2. IInv => \A w \in Workers :
                  req[w].op = "renew" /\ CommitRenew(w) /\ ~AlreadyRenewed(w)
                    => sub'[req[w].sub].end >= sub[req[w].sub].end + Period
    BY <1>1
  <1>. QED BY <1>2, Invariance, PTL DEF RenewalGrantsFullPeriod
-----------------------------------------------------------------------------
(* What one handler after another does *)

LEMMA SerialInit == Init => SerialInv
  <1>. SUFFICES ASSUME Init PROVE SerialInv
    OBVIOUS
  <1>1. PICK s \in Subs, p \in Plans, active \in BOOLEAN :
          /\ sub = [x \in Subs |->
                     IF x = s
                     THEN [status |-> IF active THEN "ACTIVE" ELSE "PENDING",
                           end |-> Period, plan |-> p]
                     ELSE AbsentRow]
          /\ customer = IF active THEN "ACTIVE" ELSE "PENDING"
          /\ access = [valid |-> active, rate |-> IF active THEN p ELSE Throttle]
    BY DEF Init
  <1>2. ActiveCustomerIsServed /\ SpeedMatchesPlan
    <2>1. active => s \in LiveSubs /\ sub[s].plan = p
      BY <1>1 DEF LiveSubs, Live
    <2>2. access.valid = active /\ (active => access.rate = p)
            /\ (customer = "ACTIVE" => active)
      BY <1>1
    <2>. QED BY <2>1, <2>2 DEF ActiveCustomerIsServed, SpeedMatchesPlan
  <1>3. \A w \in Workers : req[w] = Idle
    BY DEF Init
  <1>. QED BY <1>2, <1>3 DEF SerialInv, Decision, Pending, Idle, Working

LEMMA SerialHolds == Spec /\ []OneAtATime => []SerialInv
  <1>1. IInv /\ SerialInv /\ OneAtATime /\ [Next]_vars => SerialInv'
    BY NextInv
  <1>. QED BY <1>1, SerialInit, Invariance, PTL DEF Spec

\* Where no two handlers decide at a time, whoever is shown as ACTIVE has an ACTIVE
\* or GRACE subscription: the count of the rows that remain is right when it is used.
THEOREM CustomerServed == Spec /\ []OneAtATime => []ActiveCustomerIsServed
  <1>1. SerialInv => ActiveCustomerIsServed
    BY DEF SerialInv
  <1>. QED BY <1>1, SerialHolds, PTL

\* ... and dials in with the rate of such a subscription: the plan a handler has
\* read is the plan of the row it restores.
THEOREM SpeedOfPlan == Spec /\ []OneAtATime => []SpeedMatchesPlan
  <1>1. SerialInv => SpeedMatchesPlan
    BY DEF SerialInv
  <1>. QED BY <1>1, SerialHolds, PTL

\* A handler is only ever doing what it may be asked to do.
LEMMA StartOp ==
  ASSUME IInv, NEW w \in Workers, Start(w)
  PROVE  /\ req[w].pc = "idle" /\ req'[w].op \in Duty[w]
         /\ \A v \in Workers \ {w} : req'[v] = req[v]
         /\ UNCHANGED <<sub, access, jobs, session>>
  <1>. USE DEF Accept, Ready, Idle, IInv, TypeOK
  <1>1. CASE CreateRead(w)
    BY <1>1 DEF CreateRead
  <1>2. CASE ActivateRead(w)
    BY <1>2 DEF ActivateRead
  <1>3. CASE RenewRead(w)
    BY <1>3 DEF RenewRead
  <1>4. CASE ChangePlanRead(w)
    BY <1>4 DEF ChangePlanRead
  <1>5. CASE SuspendRead(w)
    BY <1>5 DEF SuspendRead
  <1>6. CASE ReactivateRead(w)
    BY <1>6 DEF ReactivateRead
  <1>7. CASE ExpireRead(w)
    BY <1>7 DEF ExpireRead
  <1>8. CASE CancelRead(w)
    BY <1>8 DEF CancelRead
  <1>9. CASE ExpireSubscriptionRead(w)
    BY <1>9 DEF ExpireSubscriptionRead
  <1>10. CASE ScanRead(w)
    BY <1>10 DEF ScanRead
  <1>. QED BY <1>1, <1>2, <1>3, <1>4, <1>5, <1>6, <1>7, <1>8, <1>9, <1>10 DEF Start

CancelledStays == \A s \in Subs : sub[s].status = "CANCELLED" => sub'[s].status = "CANCELLED"

LEMMA CancelledNext ==
  ASSUME IInv, SerialInv, [Next]_vars
  PROVE  CancelledStays
  <1>1. CASE UNCHANGED sub
    BY <1>1 DEF CancelledStays
  <1>2. ASSUME NEW w \in Workers, NEW s, sub[s].status # "CANCELLED",
               NEW row, sub' = [sub EXCEPT ![s] = row]
        PROVE  CancelledStays
    BY <1>2 DEF CancelledStays, IInv, TypeOK
  <1>3. ASSUME NEW w \in Workers, Working(req[w])
        PROVE  /\ sub[req[w].sub].status # "CANCELLED"
               /\ \A o \in req[w].others : sub[o].status = "ACTIVE"
    BY <1>3 DEF SerialInv, Decision, Decided, IInv, WellFormed, Absent
  <1>4. ASSUME NEW w \in Workers, NEW row, Working(req[w]), Supersede(w, row)
        PROVE  CancelledStays
    BY <1>3, <1>4 DEF Supersede, CancelledStays
  <1>5. ASSUME NEW w \in Workers, CommitCreate(w) \/ CommitActivate(w)
        PROVE  CancelledStays
    BY <1>4, <1>5 DEF CommitCreate, CommitActivate, Working
  <1>6. ASSUME NEW w \in Workers,
               \/ CommitRenew(w) \/ CommitChangePlan(w) \/ CommitSuspend(w)
               \/ CommitReactivate(w) \/ CommitExpire(w) \/ CommitCancel(w)
               \/ CommitExpireSubscription(w)
        PROVE  CancelledStays
    <2>1. Working(req[w])
      BY <1>6 DEF Working, Unlocked, End, CommitRenew, CommitChangePlan, CommitSuspend,
                  CommitReactivate, CommitExpire, CommitCancel, CommitExpireSubscription
    <2>2. sub' = sub \/ \E row : sub' = [sub EXCEPT ![req[w].sub] = row]
      BY <1>6 DEF End, CommitRenew, CommitChangePlan, CommitSuspend,
                  CommitReactivate, CommitExpire, CommitCancel, CommitExpireSubscription
    <2>. QED BY <1>1, <1>2, <1>3, <2>1, <2>2
  <1>7. ASSUME NEW w \in Workers, ScanGrace(w)
        PROVE  CancelledStays
    <2>1. PICK s \in req[w].lapsed : sub' = [sub EXCEPT ![s].status = "GRACE"]
      BY <1>7 DEF ScanGrace
    <2>2. sub[s].status = "ACTIVE"
      BY DEF SerialInv, Decision, Pending
    <2>. QED BY <2>1, <2>2 DEF CancelledStays, IInv, TypeOK
  <1>8. ASSUME NEW w \in Workers,
               \/ Start(w) \/ ScanExpire(w) \/ BeginCreate(w) \/ BeginActivate(w)
               \/ BeginEnding(w) \/ Enqueue(w) \/ Fail(w)
        PROVE  UNCHANGED sub
    BY <1>8, StartOp
       DEF ScanExpire, BeginCreate, BeginActivate, BeginEnding, Begin, Enqueue, Fail
  <1>9. ASSUME \/ \E job \in jobs : Deliver(job) \/ Redeliver(job) \/ GiveUp(job)
               \/ Connect \/ HangUp \/ Tick
               \/ \E s \in Subs : Forget(s)
        PROVE  UNCHANGED sub
    BY <1>9 DEF Deliver, Redeliver, GiveUp, Connect, HangUp, Tick, Forget
  <1>10. CASE vars' = vars
    BY <1>1, <1>10 DEF vars
  <1>. QED BY <1>1, <1>5, <1>6, <1>7, <1>8, <1>9, <1>10 DEF Next, Proceed

\* ... a cancelled subscription stays cancelled: what a handler validated is still
\* the status of the row when it writes.
THEOREM CancelledForGood == Spec /\ []OneAtATime => CancelledIsTerminal
  <1>1. IInv /\ SerialInv /\ [Next]_vars => CancelledStays
    BY CancelledNext
  <1>. QED BY <1>1, Invariance, SerialHolds, PTL DEF Spec, CancelledIsTerminal, CancelledStays

\* ... and the scan ends a subscription only when its grace period is over: the row
\* was not renewed since the scan found it.
THEOREM OverdueOnly == Spec /\ []OneAtATime => ExpiredOnlyWhenOverdue
  <1>1. ASSUME SerialInv, NEW w \in Workers, req[w].op = "evaluateExpiry",
               CommitExpireSubscription(w)
        PROVE  now > CalculateGraceEnd(sub[req[w].sub].end, Grace)
    <2>1. Working(req[w])
      BY <1>1 DEF CommitExpireSubscription, End, Working
    <2>. QED BY <1>1, <2>1 DEF SerialInv, Decision, Decided, Late
  <1>2. SerialInv => \A w \in Workers :
                       req[w].op = "evaluateExpiry" /\ CommitExpireSubscription(w)
                         => now > CalculateGraceEnd(sub[req[w].sub].end, Grace)
    BY <1>1
  <1>. QED BY <1>2, SerialHolds, PTL DEF ExpiredOnlyWhenOverdue
-----------------------------------------------------------------------------
(* Sessions that outlive their credentials *)

\* Nothing is lost and nobody calls the one operation that sends no Disconnect.
Dependable == ~Faulty /\ \A w \in Workers : "expire" \notin Duty[w]

NobodyExpires == \A w \in Workers : req[w].op # "expire"

OnlineInv == NobodyExpires /\ OnlineIsEntitled

LEMMA OnlineInit == Init => OnlineInv
  BY DEF Init, Idle, OnlineInv, NobodyExpires, OnlineIsEntitled

\* A step of handler w that had no Disconnect in hand and leaves the others
\* and the queue alone.
LEMMA OnlineStep ==
  ASSUME IInv, OnlineInv, NEW w \in Workers,
         req[w].pc # "notify", req'[w].op # "expire",
         \A v \in Workers \ {w} : req'[v] = req[v],
         UNCHANGED <<jobs, session>>,
         \/ access'.valid \/ access'.valid = access.valid
         \/ req'[w].job = Disconnect
  PROVE  OnlineInv'
  <1>1. req[w].job # Disconnect
    BY DEF IInv, WellFormed, NoJob, Disconnect
  <1>. QED BY <1>1 DEF OnlineInv, NobodyExpires, OnlineIsEntitled, DisconnectPending

LEMMA FinishOp ==
  ASSUME IInv, OnlineInv, NEW w \in Workers, NEW job \in Job \cup {NoJob},
         Finish(w, job)
  PROVE  /\ req'[w].op # "expire" /\ req'[w].job = job
         /\ \A v \in Workers \ {w} : req'[v] = req[v]
  <1>1. req[w] \in Request /\ req[w].op # "expire"
    BY DEF IInv, TypeOK, OnlineInv, NobodyExpires
  <1>2. AfterCommit(req[w], job).op # "expire"
    BY <1>1 DEF AfterCommit, Rest, Idle
  <1>. QED BY <1>1, <1>2, AfterCommitRequest DEF Finish, IInv, TypeOK

LEMMA RestOp == \A r : Rest(r).op \in {"none", "evaluateExpiry"}
  BY DEF Rest, Idle

LEMMA OnlineProceed ==
  ASSUME IInv, OnlineInv, Dependable, NEW w \in Workers, Proceed(w)
  PROVE  OnlineInv'
  <1>. USE DEF Unlocked, SyncRadiusOnActivation
  <1>1. req[w].op # "expire"
    BY DEF OnlineInv, NobodyExpires
  <1>2. CASE ScanExpire(w) \/ ScanGrace(w)
    <2>1. req[w] \in Request /\ DOMAIN req = Workers
      BY DEF IInv, TypeOK
    <2>2. \A s : [[req[w] EXCEPT !.expiring = @ \ {s}]
                   EXCEPT !.pc = "ready", !.sub = s, !.to = "EXPIRED"].op # "expire"
      BY <1>1, <2>1 DEF Request
    <2>3. req'[w].op # "expire" /\ \A v \in Workers \ {w} : req'[v] = req[v]
      BY <1>2, <2>1, <2>2, RestOp DEF ScanExpire, ScanGrace
    <2>. QED BY <1>2, <2>3, OnlineStep DEF ScanExpire, ScanGrace
  <1>3. CASE BeginCreate(w) \/ BeginActivate(w) \/ BeginEnding(w)
    <2>1. PICK others, last : Begin(w, others, last)
      BY <1>3 DEF BeginCreate, BeginActivate, BeginEnding
    <2>2. req'[w].op # "expire" /\ \A v \in Workers \ {w} : req'[v] = req[v]
      BY <1>1, <2>1 DEF Begin, IInv, TypeOK
    <2>. QED BY <2>1, <2>2, OnlineStep DEF Begin
  <1>4. CASE CommitCreate(w)
    BY <1>4, FinishOp, OnlineStep DEF CommitCreate
  <1>5. CASE CommitActivate(w)
    BY <1>5, FinishOp, OnlineStep DEF CommitActivate
  <1>6. CASE CommitRenew(w)
    BY <1>6, FinishOp, OnlineStep DEF CommitRenew
  <1>7. CASE CommitChangePlan(w)
    <2>1. req[w].plan \in Plans /\ access'.valid = access.valid
      BY <1>7 DEF CommitChangePlan, IInv, TypeOK, Access, WellFormed, Working
    <2>. QED BY <1>7, <2>1, Jobs, FinishOp, OnlineStep DEF CommitChangePlan
  <1>8. CASE CommitSuspend(w)
    BY <1>8, Jobs, FinishOp, OnlineStep DEF CommitSuspend
  <1>9. CASE CommitReactivate(w)
    <2>1. req[w].plan \in Plans
      BY <1>9 DEF CommitReactivate, IInv, WellFormed, Working
    <2>. QED BY <1>9, <2>1, Jobs, FinishOp, OnlineStep DEF CommitReactivate
  <1>10. CASE CommitExpire(w)
    BY <1>1, <1>10 DEF CommitExpire
  <1>11. CASE CommitCancel(w) \/ CommitExpireSubscription(w)
    BY <1>11, Jobs, FinishOp, OnlineStep
       DEF CommitCancel, CommitExpireSubscription, End
  <1>12. CASE Enqueue(w)
    <2>1. jobs' = jobs \cup {req[w].job}
      BY <1>12 DEF Enqueue, Dependable
    <2>2. req'[w].op # "expire" /\ \A v \in Workers \ {w} : req'[v] = req[v]
      BY <1>1, <1>12 DEF Enqueue, Rest, Idle, IInv, TypeOK
    <2>. QED BY <1>12, <2>1, <2>2
             DEF Enqueue, OnlineInv, NobodyExpires, OnlineIsEntitled, DisconnectPending
  <1>. QED BY <1>2, <1>3, <1>4, <1>5, <1>6, <1>7, <1>8, <1>9, <1>10, <1>11, <1>12
           DEF Proceed

LEMMA OnlineNext ==
  ASSUME IInv, OnlineInv, Dependable, [Next]_vars
  PROVE  OnlineInv'
  <1>. USE DEF OnlineInv, NobodyExpires, OnlineIsEntitled, DisconnectPending
  <1>1. ASSUME NEW w \in Workers, Start(w)
        PROVE  OnlineInv'
    BY <1>1, StartOp, OnlineStep DEF Dependable
  <1>2. ASSUME NEW w \in Workers, Proceed(w)
        PROVE  OnlineInv'
    BY <1>2, OnlineProceed
  <1>3. ASSUME NEW job \in jobs, Deliver(job) \/ Redeliver(job) \/ GiveUp(job)
        PROVE  OnlineInv'
    <2>1. CASE job = Disconnect
      <3>1. ~session'.up
        BY <1>3, <2>1 DEF Deliver, Redeliver, GiveUp, Apply, Disconnect, Dependable
      <3>. QED BY <1>3, <3>1 DEF Deliver, Redeliver, GiveUp
    <2>2. CASE job # Disconnect
      <3>1. session'.up => session.up
        BY <1>3 DEF Deliver, Redeliver, GiveUp, Apply, Dependable
      <3>. QED BY <1>3, <2>2, <3>1 DEF Deliver, Redeliver, GiveUp
    <2>. QED BY <2>1, <2>2
  <1>4. CASE Connect
    BY <1>4 DEF Connect
  <1>5. CASE HangUp
    BY <1>5 DEF HangUp
  <1>6. CASE Tick \/ \E s \in Subs : Forget(s)
    BY <1>6 DEF Tick, Forget
  <1>7. CASE vars' = vars
    BY <1>7 DEF vars
  <1>. QED BY <1>1, <1>2, <1>3, <1>4, <1>5, <1>6, <1>7 DEF Next, Fail, Dependable

\* A subscriber whose credentials are gone is not left online unnoticed: a
\* Disconnect is queued or about to be, from the commit until the router has it.
THEOREM Online == ASSUME Dependable PROVE Spec => []OnlineIsEntitled
  <1>1. Init => OnlineInv
    BY OnlineInit
  <1>2. IInv /\ OnlineInv /\ [Next]_vars => OnlineInv'
    BY OnlineNext
  <1>3. OnlineInv => OnlineIsEntitled
    BY DEF OnlineInv
  <1>. QED BY <1>1, <1>2, <1>3, Invariance, PTL DEF Spec
-----------------------------------------------------------------------------
(* SubscriptionLifecycle implements Admission *)

AdmissionStep ==
  Adm!Next \/ UNCHANGED <<LiveSubs, customer = "ACTIVE", Grant, Speed>>

SessionHasSpeed == session.up => session.rate \in Plans

LEMMA AdmittingStep ==
  ASSUME SessionHasSpeed, NEW s \in Subs, NEW p \in Plans,
         s \in LiveSubs', LiveSubs' \subseteq LiveSubs \cup {s},
         SyncRadiusOnActivation(p), UNCHANGED session
  PROVE  AdmissionStep /\ SessionHasSpeed'
  <1>1. Grant' = p /\ Speed' = Speed
    BY DEF SyncRadiusOnActivation, Grant, Speed
  <1>2. Adm!Admit(s, p)
    BY <1>1 DEF Adm!Admit, SyncRadiusOnActivation
  <1>. QED BY <1>2 DEF AdmissionStep, Adm!Next, SessionHasSpeed

LEMMA TurningStep ==
  ASSUME SessionHasSpeed, NEW s \in Subs, LiveSubs' = LiveSubs \ {s},
         customer' = "ACTIVE" => customer = "ACTIVE",
         SyncRadiusOnDeactivation, UNCHANGED session
  PROVE  AdmissionStep /\ SessionHasSpeed'
  <1>1. Grant' = None /\ Speed' = Speed
    BY DEF SyncRadiusOnDeactivation, Grant, Speed
  <1>2. Adm!TurnAway(s)
    BY <1>1 DEF Adm!TurnAway
  <1>. QED BY <1>2 DEF AdmissionStep, Adm!Next, SessionHasSpeed

LEMMA HiddenStep ==
  ASSUME SessionHasSpeed, LiveSubs' = LiveSubs, UNCHANGED <<customer, access, session>>
  PROVE  AdmissionStep /\ SessionHasSpeed'
  BY DEF AdmissionStep, SessionHasSpeed, Grant, Speed

\* The live rows after a step that writes one row.
LEMMA LiveAfter ==
  ASSUME NEW s \in Subs, \A o \in Subs \ {s} : sub'[o].status = sub[o].status
  PROVE  LiveSubs' = IF sub'[s].status \in Live THEN LiveSubs \cup {s} ELSE LiveSubs \ {s}
  BY DEF LiveSubs

\* ... and after one that supersedes others.
LEMMA LiveSuperseded ==
  ASSUME IInv, NEW w \in Workers, req[w].pc = "open", NEW row, Supersede(w, row)
  PROVE  LiveSubs' \subseteq LiveSubs \cup {req[w].sub}
  <1>1. \A o \in Subs : [sub[o] EXCEPT !.status = "EXPIRED"].status = "EXPIRED"
    BY DEF IInv, TypeOK, Row
  <1>2. \A o \in Subs \ {req[w].sub} :
          sub'[o] = IF o \in req[w].others THEN [sub[o] EXCEPT !.status = "EXPIRED"]
                    ELSE sub[o]
    BY DEF Supersede
  <1>. QED BY <1>1, <1>2 DEF LiveSubs, Live

LEMMA CreateAdmission ==
  ASSUME IInv, SessionHasSpeed, NEW w \in Workers, CommitCreate(w)
  PROVE  AdmissionStep /\ SessionHasSpeed'
  <1>. DEFINE s == req[w].sub
              row == [status |-> req[w].to, end |-> req[w].newEnd, plan |-> req[w].plan]
  <1>1. /\ req[w].op = "create" /\ req[w].pc = "open"
        /\ Supersede(w, row)
        /\ IF req[w].to = "ACTIVE" THEN SyncRadiusOnActivation(req[w].plan)
           ELSE UNCHANGED <<customer, access>>
        /\ UNCHANGED session
    BY DEF CommitCreate
  <1>2. /\ req[w] \in Request /\ s \in Subs /\ sub[s].status = Absent
        /\ req[w].plan \in Plans /\ req[w].to \in {"PENDING", "ACTIVE"}
        /\ req[w].to = "PENDING" => req[w].others = {}
    BY <1>1 DEF IInv, TypeOK, WellFormed, Working
  <1>3. row \in Row /\ row.status = req[w].to /\ row.status # Absent /\ row.plan \in Plans
    BY <1>2 DEF Row, Request, Status, Absent
  <1>. HIDE DEF row
  <1>4. /\ sub'[s] = row
        /\ req[w].others = {} => \A o \in Subs \ {s} : sub'[o] = sub[o]
    BY <1>1, <1>3, Superseded
  <1>5. CASE req[w].to = "ACTIVE"
    <2>1. s \in LiveSubs' /\ LiveSubs' \subseteq LiveSubs \cup {s}
      BY <1>1, <1>2, <1>3, <1>4, <1>5, LiveSuperseded DEF LiveSubs, Live
    <2>. QED BY <1>1, <1>2, <1>5, <2>1, AdmittingStep
  <1>6. CASE req[w].to = "PENDING"
    <2>1. \A o \in Subs : sub'[o].status \in Live <=> sub[o].status \in Live
      BY <1>2, <1>3, <1>4, <1>6 DEF Live, Absent
    <2>2. LiveSubs' = LiveSubs
      BY <2>1 DEF LiveSubs
    <2>. QED BY <1>1, <1>6, <2>2, HiddenStep
  <1>. QED BY <1>2, <1>5, <1>6

LEMMA ActivateAdmission ==
  ASSUME IInv, SessionHasSpeed, NEW w \in Workers, CommitActivate(w)
  PROVE  AdmissionStep /\ SessionHasSpeed'
  <1>. DEFINE s == req[w].sub
              row == [sub[s] EXCEPT !.status = "ACTIVE", !.end = req[w].newEnd]
  <1>1. /\ req[w].op = "activate" /\ req[w].pc = "open"
        /\ Supersede(w, row)
        /\ SyncRadiusOnActivation(req[w].plan)
        /\ UNCHANGED session
    BY DEF CommitActivate
  <1>2. s \in Subs /\ sub[s] \in Row /\ req[w].plan \in Plans
    BY <1>1 DEF IInv, TypeOK, WellFormed, Working
  <1>3. row = [sub[s] EXCEPT !.status = "ACTIVE", !.end = req[w].newEnd]
    BY Zenon
  <1>. HIDE DEF row
  <1>4. row.status = "ACTIVE"
    BY <1>2, <1>3 DEF Row
  <1>5. sub'[s] = row
    BY <1>1, <1>2 DEF Supersede
  <1>6. s \in LiveSubs' /\ LiveSubs' \subseteq LiveSubs \cup {s}
    BY <1>1, <1>2, <1>4, <1>5, LiveSuperseded DEF LiveSubs, Live
  <1>. QED BY <1>1, <1>2, <1>6, AdmittingStep

LEMMA RenewAdmission ==
  ASSUME IInv, SessionHasSpeed, NEW w \in Workers, CommitRenew(w)
  PROVE  AdmissionStep /\ SessionHasSpeed'
  <1>. DEFINE s == req[w].sub
              row == [sub[s] EXCEPT !.status = "ACTIVE", !.end = req[w].newEnd]
  <1>1. req[w].op = "renew" /\ req[w].pc = "ready" /\ UNCHANGED session
    BY DEF CommitRenew, Unlocked
  <1>2. s \in Subs /\ sub[s] \in Row /\ req[w].plan \in Plans
    BY <1>1 DEF IInv, TypeOK, WellFormed, Working
  <1>3. CASE AlreadyRenewed(w)
    <2>1. UNCHANGED <<sub, customer, access>>
      BY <1>3 DEF CommitRenew
    <2>. QED BY <1>1, <2>1, HiddenStep DEF LiveSubs
  <1>4. CASE ~AlreadyRenewed(w)
    <2>1. /\ sub' = [sub EXCEPT ![s].status = "ACTIVE", ![s].end = req[w].newEnd]
          /\ SyncRadiusOnActivation(req[w].plan)
      BY <1>4 DEF CommitRenew
    <2>2. row = [sub[s] EXCEPT !.status = "ACTIVE", !.end = req[w].newEnd]
      BY Zenon
    <2>3. sub' = [sub EXCEPT ![s] = row]
      BY <1>2, <2>1 DEF IInv, TypeOK
    <2>. HIDE DEF row
    <2>4. row.status = "ACTIVE"
      BY <1>2, <2>2 DEF Row
    <2>5. sub'[s] = row /\ \A o \in Subs \ {s} : sub'[o].status = sub[o].status
      BY <1>2, <2>3 DEF IInv, TypeOK
    <2>6. LiveSubs' = LiveSubs \cup {s}
      BY <1>2, <2>4, <2>5, LiveAfter DEF Live
    <2>. QED BY <1>1, <1>2, <2>1, <2>6, AdmittingStep
  <1>. QED BY <1>3, <1>4

LEMMA ChangePlanAdmission ==
  ASSUME IInv, SessionHasSpeed, NEW w \in Workers, CommitChangePlan(w)
  PROVE  AdmissionStep /\ SessionHasSpeed'
  <1>. DEFINE s == req[w].sub
              p == req[w].plan
  <1>1. /\ req[w].op = "changePlan" /\ req[w].pc = "ready"
        /\ sub' = [sub EXCEPT ![s].plan = p]
        /\ access' = [access EXCEPT !.rate = p]
        /\ UNCHANGED <<customer, session>>
    BY DEF CommitChangePlan, Unlocked
  <1>2. s \in Subs /\ p \in Plans /\ access \in Access
    BY <1>1 DEF IInv, TypeOK, WellFormed, Working
  <1>3. \A o \in Subs : sub'[o].status = sub[o].status
    BY <1>1, <1>2 DEF IInv, TypeOK, Row
  <1>4. LiveSubs' = LiveSubs
    BY <1>3 DEF LiveSubs
  <1>5. access'.valid = access.valid /\ access'.rate = p
    BY <1>1, <1>2 DEF Access
  <1>6. access.valid => access.rate \in Plans
    BY DEF IInv, AccessIsEarned
  <1>7. Speed' = Speed
    BY <1>1 DEF Speed
  <1>8. CASE access.valid
    <2>1. Grant # None /\ Grant' = p
      BY <1>5, <1>6, <1>8, LifecycleAssumption DEF Grant
    <2>2. Adm!Retune(p)
      BY <1>1, <1>4, <1>7, <2>1 DEF Adm!Retune
    <2>. QED BY <1>1, <1>2, <2>2 DEF AdmissionStep, Adm!Next, SessionHasSpeed
  <1>9. CASE ~access.valid
    <2>1. Grant' = Grant
      BY <1>5, <1>9 DEF Grant
    <2>. QED BY <1>1, <1>4, <1>7, <2>1 DEF AdmissionStep, SessionHasSpeed
  <1>. QED BY <1>8, <1>9

LEMMA ReactivateAdmission ==
  ASSUME IInv, SessionHasSpeed, NEW w \in Workers, CommitReactivate(w)
  PROVE  AdmissionStep /\ SessionHasSpeed'
  <1>. DEFINE s == req[w].sub
  <1>1. /\ req[w].op = "reactivate" /\ req[w].pc = "ready"
        /\ sub' = [sub EXCEPT ![s].status = req[w].to]
        /\ SyncRadiusOnActivation(req[w].plan)
        /\ UNCHANGED session
    BY DEF CommitReactivate, Unlocked
  <1>2. s \in Existing /\ req[w].plan \in Plans /\ req[w].to \in Live
    BY <1>1 DEF IInv, WellFormed, Working, Existing
  <1>3. /\ s \in Subs /\ sub'[s].status = req[w].to
        /\ \A o \in Subs \ {s} : sub'[o] = sub[o]
    BY <1>1, <1>2, StatusWritten DEF Live, Status
  <1>4. LiveSubs' = LiveSubs \cup {s}
    BY <1>2, <1>3, LiveAfter
  <1>. QED BY <1>1, <1>2, <1>3, <1>4, AdmittingStep

\* suspend, expire, cancel, expireSubscription.
LEMMA DenyAdmission ==
  ASSUME IInv, SessionHasSpeed, NEW w \in Workers,
         Working(req[w]), req[w].op # "create",
         NEW st \in Status \ Live, sub' = [sub EXCEPT ![req[w].sub].status = st],
         customer' = "ACTIVE" => customer = "ACTIVE",
         SyncRadiusOnDeactivation, UNCHANGED session
  PROVE  AdmissionStep /\ SessionHasSpeed'
  <1>. DEFINE s == req[w].sub
  <1>1. s \in Existing
    BY DEF IInv, WellFormed, Existing
  <1>2. s \in Subs /\ sub'[s].status = st /\ \A o \in Subs \ {s} : sub'[o] = sub[o]
    BY <1>1, StatusWritten
  <1>3. LiveSubs' = LiveSubs \ {s}
    BY <1>2, LiveAfter
  <1>. QED BY <1>2, <1>3, TurningStep

LEMMA EndAdmission ==
  ASSUME IInv, SessionHasSpeed, NEW w \in Workers,
         \/ CommitSuspend(w) \/ CommitExpire(w)
         \/ CommitCancel(w) \/ CommitExpireSubscription(w)
  PROVE  AdmissionStep /\ SessionHasSpeed'
  <1>1. {"SUSPENDED", "EXPIRED", "CANCELLED"} \subseteq Status \ Live
    BY DEF Status, Live
  <1>2. PICK st \in {"SUSPENDED", "EXPIRED", "CANCELLED"} :
          sub' = [sub EXCEPT ![req[w].sub].status = st]
    BY DEF CommitSuspend, CommitExpire, CommitCancel, CommitExpireSubscription, End
  <1>3. Working(req[w]) /\ req[w].op # "create"
    BY DEF CommitSuspend, CommitExpire, CommitCancel, CommitExpireSubscription, End,
           Unlocked, Working
  <1>4. customer' \in {"SUSPENDED", "EXPIRED", customer}
    BY DEF CommitSuspend, CommitExpire, CommitCancel, CommitExpireSubscription, End
  <1>5. SyncRadiusOnDeactivation /\ UNCHANGED session
    BY DEF CommitSuspend, CommitExpire, CommitCancel, CommitExpireSubscription, End
  <1>. QED BY <1>1, <1>2, <1>3, <1>4, <1>5, DenyAdmission

LEMMA GraceAdmission ==
  ASSUME IInv, SessionHasSpeed, NEW w \in Workers, ScanGrace(w)
  PROVE  AdmissionStep /\ SessionHasSpeed'
  <1>1. PICK s \in req[w].lapsed : sub' = [sub EXCEPT ![s].status = "GRACE"]
    BY DEF ScanGrace
  <1>2. UNCHANGED <<customer, access, session>>
    BY DEF ScanGrace
  <1>3. s \in Existing
    BY DEF IInv, WellFormed
  <1>4. s \in Subs /\ sub'[s].status = "GRACE" /\ \A o \in Subs \ {s} : sub'[o] = sub[o]
    BY <1>1, <1>3, StatusWritten DEF Status
  <1>5. LiveSubs' = LiveSubs \cup {s}
    BY <1>4, LiveAfter DEF Live
  <1>6. Adm!Linger(s)
    BY <1>2, <1>5 DEF Adm!Linger, Grant, Speed
  <1>. QED BY <1>2, <1>4, <1>6 DEF AdmissionStep, Adm!Next, SessionHasSpeed

LEMMA SessionAdmission ==
  ASSUME IInv, SessionHasSpeed, UNCHANGED <<sub, customer, access>>,
         \/ session' \in {session, [up |-> FALSE, rate |-> None]}
         \/ \E p \in Plans : session.up /\ session' = [up |-> TRUE, rate |-> p]
         \/ ~session.up /\ access.valid /\ session' = [up |-> TRUE, rate |-> access.rate]
  PROVE  AdmissionStep /\ SessionHasSpeed'
  <1>1. LiveSubs' = LiveSubs /\ Grant' = Grant
    BY DEF LiveSubs, Grant
  <1>2. CASE session' = session
    BY <1>2, <1>1, HiddenStep
  <1>3. CASE session' = [up |-> FALSE, rate |-> None]
    <2>1. Speed' = None /\ SessionHasSpeed'
      BY <1>3 DEF Speed, SessionHasSpeed
    <2>2. CASE Speed = None
      BY <1>1, <2>1, <2>2 DEF AdmissionStep
    <2>3. CASE Speed # None
      BY <1>1, <2>1, <2>3 DEF AdmissionStep, Adm!Next, Adm!HangUp
    <2>. QED BY <2>1, <2>2, <2>3
  <1>4. ASSUME NEW p \in Plans, session.up, session' = [up |-> TRUE, rate |-> p]
        PROVE  AdmissionStep /\ SessionHasSpeed'
    <2>1. Speed # None /\ Speed' = p
      BY <1>4, LifecycleAssumption DEF Speed, SessionHasSpeed
    <2>2. Adm!Regulate(p)
      BY <1>1, <2>1 DEF Adm!Regulate
    <2>. QED BY <1>4, <2>2 DEF AdmissionStep, Adm!Next, SessionHasSpeed
  <1>5. CASE ~session.up /\ access.valid /\ session' = [up |-> TRUE, rate |-> access.rate]
    <2>1. access.rate \in Plans
      BY <1>5 DEF IInv, AccessIsEarned
    <2>2. Speed = None /\ Grant # None /\ Speed' = Grant
      BY <1>5, <2>1, LifecycleAssumption DEF Speed, Grant
    <2>3. Adm!Dial
      BY <1>1, <2>2 DEF Adm!Dial
    <2>. QED BY <1>5, <2>1, <2>3 DEF AdmissionStep, Adm!Next, SessionHasSpeed
  <1>. QED BY <1>2, <1>3, <1>4, <1>5

LEMMA JobAdmission ==
  ASSUME IInv, SessionHasSpeed, NEW job \in jobs,
         Deliver(job) \/ Redeliver(job) \/ GiveUp(job)
  PROVE  AdmissionStep /\ SessionHasSpeed'
  <1>1. UNCHANGED <<sub, customer, access>>
    BY DEF Deliver, Redeliver, GiveUp
  <1>2. CASE GiveUp(job)
    BY <1>1, <1>2, SessionAdmission DEF GiveUp
  <1>3. CASE Apply(job)
    <2>1. job \in Job
      BY DEF IInv, TypeOK
    <2>2. job.type = "COA" => job.rate \in Plans
      BY <2>1 DEF Job
    <2>. QED BY <1>1, <1>3, <2>2, SessionAdmission DEF Apply
  <1>. QED BY <1>2, <1>3 DEF Deliver, Redeliver

LEMMA AdmissionInit == Init => Adm!Init /\ SessionHasSpeed
  <1>. SUFFICES ASSUME Init PROVE Adm!Init /\ SessionHasSpeed
    OBVIOUS
  <1>1. PICK s \in Subs, p \in Plans, active \in BOOLEAN :
          /\ sub = [x \in Subs |->
                     IF x = s
                     THEN [status |-> IF active THEN "ACTIVE" ELSE "PENDING",
                           end |-> Period, plan |-> p]
                     ELSE AbsentRow]
          /\ customer = IF active THEN "ACTIVE" ELSE "PENDING"
          /\ access = [valid |-> active, rate |-> IF active THEN p ELSE Throttle]
    BY DEF Init
  <1>2. Speed = None /\ SessionHasSpeed
    BY DEF Init, Speed, SessionHasSpeed
  <1>3. CASE active
    <2>1. LiveSubs = {s} /\ customer = "ACTIVE" /\ Grant = p
      BY <1>1, <1>3 DEF LiveSubs, Live, AbsentRow, Absent, Grant
    <2>. QED BY <1>2, <2>1 DEF Adm!Init
  <1>4. CASE ~active
    <2>1. LiveSubs = {} /\ customer = "PENDING" /\ Grant = None
      BY <1>1, <1>4 DEF LiveSubs, Live, AbsentRow, Absent, Grant
    <2>. QED BY <1>2, <2>1 DEF Adm!Init
  <1>. QED BY <1>3, <1>4

LEMMA AdmissionNext ==
  IInv /\ SessionHasSpeed /\ [Next]_vars => AdmissionStep /\ SessionHasSpeed'
  <1>. SUFFICES ASSUME IInv, SessionHasSpeed, [Next]_vars
                PROVE  AdmissionStep /\ SessionHasSpeed'
    OBVIOUS
  <1>1. CASE UNCHANGED <<sub, customer, access, session>>
    BY <1>1, HiddenStep DEF LiveSubs
  <1>2. ASSUME NEW w \in Workers, Start(w) \/ Fail(w)
        PROVE  UNCHANGED <<sub, customer, access, session>>
    BY <1>2 DEF Start, Fail, Accept, CreateRead, ActivateRead, RenewRead, ChangePlanRead,
                SuspendRead, ReactivateRead, ExpireRead, CancelRead,
                ExpireSubscriptionRead, ScanRead
  <1>3. ASSUME NEW w \in Workers,
               \/ ScanExpire(w) \/ BeginCreate(w) \/ BeginActivate(w)
               \/ BeginEnding(w) \/ Enqueue(w)
        PROVE  UNCHANGED <<sub, customer, access, session>>
    BY <1>3 DEF ScanExpire, BeginCreate, BeginActivate, BeginEnding, Begin, Enqueue
  <1>4. ASSUME NEW w \in Workers, Proceed(w)
        PROVE  AdmissionStep /\ SessionHasSpeed'
    BY <1>1, <1>3, <1>4, GraceAdmission, CreateAdmission, ActivateAdmission, RenewAdmission,
       ChangePlanAdmission, ReactivateAdmission, EndAdmission DEF Proceed
  <1>5. CASE Connect \/ HangUp
    BY <1>5, SessionAdmission DEF Connect, HangUp
  <1>6. CASE Tick \/ (\E s \in Subs : Forget(s)) \/ vars' = vars
    BY <1>1, <1>6 DEF Tick, Forget, vars
  <1>. QED BY <1>1, <1>2, <1>4, <1>5, <1>6, JobAdmission DEF Next

\* Whatever handlers interleave, fail or die: the right to dial in, the customer's
\* status and the live rows change in one step, and a session begins by that right.
THEOREM ImplementsAdmission == Spec => AdmitsAsPromised
  <1>1. IInv /\ SessionHasSpeed /\ [Next]_vars => SessionHasSpeed'
    BY AdmissionNext
  <1>2. IInv /\ SessionHasSpeed /\ [Next]_vars
          => [Adm!Next]_<<LiveSubs, customer = "ACTIVE", Grant, Speed>>
    BY AdmissionNext DEF AdmissionStep
  <1>. QED BY <1>1, <1>2, AdmissionInit, Invariance, PTL
           DEF Spec, AdmitsAsPromised, Adm!Spec, Adm!vars

\* The promise is worth something: in whatever keeps it, a customer who may dial in
\* is ACTIVE, has a live subscription and a plan's rate.
THEOREM AdmissionEntitles == AdmitsAsPromised => []Adm!AdmittedIsEntitled
  <1>. USE DEF Adm!AdmittedIsEntitled
  <1>1. Adm!Init => Adm!AdmittedIsEntitled
    BY DEF Adm!Init
  <1>2. ASSUME Adm!AdmittedIsEntitled, Adm!Next
        PROVE  Adm!AdmittedIsEntitled'
    BY <1>2 DEF Adm!Next, Adm!Admit, Adm!TurnAway, Adm!Linger, Adm!Retune,
                Adm!Regulate, Adm!Dial, Adm!HangUp
  <1>3. Adm!AdmittedIsEntitled /\ [Adm!Next]_<<LiveSubs, customer = "ACTIVE", Grant, Speed>>
          => Adm!AdmittedIsEntitled'
    BY <1>2
  <1>. QED BY <1>1, <1>3, PTL DEF AdmitsAsPromised, Adm!Spec, Adm!vars
=============================================================================
