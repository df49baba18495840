----------------------- MODULE SubscriptionLifecycle -----------------------
(***************************************************************************)
(* The subscriptions of one customer, the customer's status, the           *)
(* FreeRADIUS rows that let the customer dial in, the CoA queue and the    *)
(* live PPPoE session on the router.                                       *)
(*                                                                         *)
(* Every handler of SubscriptionsService and SubscriptionAutomationService *)
(* runs in the same way: it reads the subscription outside of any          *)
(* transaction and validates what it read ("ready"), then opens a READ     *)
(* COMMITTED transaction and writes.  Where the transaction itself reads   *)
(* rows that others may change it has a step of its own ("open"), which    *)
(* holds row locks; the other transactions are one step.  After the commit *)
(* a job is handed to the CoA queue ("notify").  Handlers of different     *)
(* processes interleave between all of these steps.                        *)
(***************************************************************************)
EXTENDS SubscriptionFsm

CONSTANTS
  Subs,     \* identities of the customer's subscription rows
  Workers,  \* handlers that may run at the same time (requests, queue jobs)
  Duty,     \* Duty[w]: the operations worker w may be asked to run
  Plans,    \* internet plans; a plan stands for its Mikrotik-Rate-Limit too
  None,     \* no plan, no rate limit, no row
  Period,   \* validity of a plan, in days
  Grace,    \* gracePeriodDays
  MaxTime,  \* bound: the clock stops here
  MaxEnd,   \* bound: no handler is asked to extend a row beyond this day
  Faulty    \* whether handlers may die and the queue may lose a job

Operations ==
  {"create", "activate", "renew", "changePlan", "suspend", "reactivate",
   "expire", "cancel", "expireSubscription", "evaluateExpiry"}

ASSUME LifecycleAssumption ==
  /\ Duty \in [Workers -> SUBSET Operations]
  /\ None \notin Plans /\ None \notin Subs
  /\ Period \in Nat \ {0} /\ Grace \in Nat
  /\ MaxTime \in Nat /\ MaxEnd \in Nat /\ Period <= MaxEnd
  /\ Faulty \in BOOLEAN

VARIABLES
  now,       \* today
  sub,       \* the rows of the subscriptions table
  customer,  \* Customer.status
  access,    \* radcheck password and radreply Mikrotik-Rate-Limit
  recent,    \* newEndDate of a billed RENEW history row of the last 60 s, or 0
  req,       \* what each worker is doing
  jobs,      \* the CoA queue
  session    \* the customer's PPPoE session on the router

vars == <<now, sub, customer, access, recent, req, jobs, session>>
-----------------------------------------------------------------------------
(* Types *)

Row == [status : Status \cup {Absent}, end : 0..MaxEnd, plan : Plans \cup {None}]

\* What the services of this module leave in Customer.status.
CustomerStatus == {"PENDING", "ACTIVE", "SUSPENDED", "EXPIRED"}

\* The rate customers.create writes for a customer that is not ACTIVE yet.
Throttle == "64k/64k"

Rate == Plans \cup {None, Throttle}

Access == [valid : BOOLEAN, rate : Rate]

Job == [type : {"DISCONNECT"}, rate : {None}] \cup [type : {"COA"}, rate : Plans]

NoJob == [type |-> "NONE", rate |-> None]
Disconnect == [type |-> "DISCONNECT", rate |-> None]
CoaTo(p) == [type |-> "COA", rate |-> p]

Request ==
  [op       : Operations \cup {"none"},
   pc       : {"idle", "ready", "open", "notify", "scan"},
   sub      : Subs \cup {None},         \* the row it works on
   to       : Status \cup {Absent},     \* the status it will write
   readEnd  : 0..MaxEnd,                \* the end date it read (renew)
   newEnd   : 0..MaxEnd,                \* the end date it will write
   plan     : Plans \cup {None},        \* the plan or rate it will write
   others   : SUBSET Subs,              \* further rows its transaction locked
   last     : BOOLEAN,                  \* its transaction counted no live row
   expiring : SUBSET Subs,              \* rest of a scan: rows to expire
   lapsed   : SUBSET Subs,              \* rest of a scan: rows to put in grace
   job      : Job \cup {NoJob}]         \* what it has still to enqueue

Idle ==
  [op |-> "none", pc |-> "idle", sub |-> None, to |-> Absent, readEnd |-> 0,
   newEnd |-> 0, plan |-> None, others |-> {}, last |-> FALSE,
   expiring |-> {}, lapsed |-> {}, job |-> NoJob]

AbsentRow == [status |-> Absent, end |-> 0, plan |-> None]

TypeOK ==
  /\ now \in 0..MaxTime
  /\ sub \in [Subs -> Row]
  /\ customer \in CustomerStatus
  /\ access \in Access
  /\ recent \in [Subs -> 0..MaxEnd]
  /\ req \in [Workers -> Request]
  /\ jobs \subseteq Job
  /\ session \in [up : BOOLEAN, rate : Rate]
-----------------------------------------------------------------------------
(* What a transaction sees and what it waits for *)

LiveSubs == {s \in Subs : sub[s].status \in Live}

\* Rows updateMany moves to EXPIRED when s becomes the ACTIVE subscription.
ActiveOthers(s) == {o \in Subs \ {s} : sub[o].status = "ACTIVE"}

\* Another transaction has updated row s and has not committed yet.
RowHeld(w, s) ==
  \E v \in Workers \ {w} :
    req[v].pc = "open" /\ s \in {req[v].sub} \cup req[v].others

\* create() took SELECT ... FOR UPDATE on the customer row.
CustomerHeld(w) ==
  \E v \in Workers \ {w} : req[v].pc = "open" /\ req[v].op = "create"

\* A row another handler is about to insert.
Reserved(s) == \E v \in Workers : req[v].sub = s /\ req[v].op = "create"

\* After a commit the handler enqueues its job; a scan then takes its next row.
Rest(r) ==
  IF r.expiring = {} /\ r.lapsed = {} THEN Idle
  ELSE [Idle EXCEPT !.op = "evaluateExpiry", !.pc = "scan",
                    !.expiring = r.expiring, !.lapsed = r.lapsed]

AfterCommit(r, job) ==
  IF job = NoJob THEN Rest(r)
  ELSE [Idle EXCEPT !.op = r.op, !.pc = "notify", !.job = job,
                    !.expiring = r.expiring, !.lapsed = r.lapsed]

Finish(w, job) == req' = [req EXCEPT ![w] = AfterCommit(req[w], job)]

\* Variant with a fault: the replies of the previous state are kept.
RestorePasswordOnly(p) ==
  /\ customer' = "ACTIVE"
  /\ access' = [access EXCEPT !.valid = TRUE]

\* syncRadiusOnActivation: customer ACTIVE, password and replies rewritten.
SyncRadiusOnActivation(p) ==
  /\ customer' = "ACTIVE"
  /\ access' = [valid |-> TRUE, rate |-> p]

\* syncRadiusOnDeactivation: password replaced, all replies removed.
SyncRadiusOnDeactivation == access' = [valid |-> FALSE, rate |-> None]
-----------------------------------------------------------------------------
(* The customer was created with a plan by customers.create: ACTIVE with an *)
(* ACTIVE subscription, or not yet ACTIVE with a PENDING one.               *)

Init ==
  /\ now = 0
  /\ \E s \in Subs, p \in Plans, active \in BOOLEAN :
       /\ sub = [x \in Subs |->
                   IF x = s
                   THEN [status |-> IF active THEN "ACTIVE" ELSE "PENDING",
                         end |-> Period, plan |-> p]
                   ELSE AbsentRow]
       /\ customer = IF active THEN "ACTIVE" ELSE "PENDING"
       /\ access = [valid |-> active, rate |-> IF active THEN p ELSE Throttle]
  /\ recent = [s \in Subs |-> 0]
  /\ req = [w \in Workers |-> Idle]
  /\ jobs = {}
  /\ session = [up |-> FALSE, rate |-> None]
-----------------------------------------------------------------------------
(* Step 1 of every handler: read the row, validate, compute what to write  *)

Accept(w, op, r) ==
  /\ req[w].pc = "idle"
  /\ op \in Duty[w]
  /\ req' = [req EXCEPT ![w] = r]
  /\ UNCHANGED <<now, sub, customer, access, recent, jobs, session>>

Ready(op, s, to) == [Idle EXCEPT !.op = op, !.pc = "ready", !.sub = s, !.to = to]

CreateRead(w) ==
  \E s \in Subs, p \in Plans, to \in {"PENDING", "ACTIVE"} :
    /\ sub[s].status = Absent /\ ~Reserved(s)
    /\ CalculateEndDate(now, Period) <= MaxEnd
    /\ Accept(w, "create",
              [Ready("create", s, to) EXCEPT
                 !.plan = p, !.newEnd = CalculateEndDate(now, Period)])

ActivateRead(w) ==
  \E s \in Subs :
    /\ CanTransition(sub[s].status, "ACTIVE")
    /\ CalculateEndDate(now, Period) <= MaxEnd
    /\ Accept(w, "activate",
              [Ready("activate", s, "ACTIVE") EXCEPT
                 !.plan = sub[s].plan, !.newEnd = CalculateEndDate(now, Period)])

\* A renewal of the last 60 s whose invoice is still there is returned as it
\* is; otherwise the handler goes on to extend the row from the date it read.
RenewRead(w) ==
  \E s \in Subs :
    LET newEnd == CalculateEndDate(RenewalAnchor(sub[s].end, now), Period) IN
    /\ CanTransition(sub[s].status, "ACTIVE")
    /\ recent[s] # sub[s].end
    /\ newEnd <= MaxEnd
    /\ Accept(w, "renew",
              [Ready("renew", s, "ACTIVE") EXCEPT
                 !.plan = sub[s].plan, !.readEnd = sub[s].end, !.newEnd = newEnd])

\* upgrade and downgrade.
ChangePlanRead(w) ==
  \E s \in Subs, p \in Plans :
    /\ sub[s].status \in Live
    /\ Accept(w, "changePlan",
              [Ready("changePlan", s, Absent) EXCEPT !.plan = p])

SuspendRead(w) ==
  \E s \in Subs :
    /\ CanTransition(sub[s].status, "SUSPENDED")
    /\ Accept(w, "suspend", Ready("suspend", s, "SUSPENDED"))

ReactivateRead(w) ==
  \E s \in Subs :
    /\ CanTransition(sub[s].status, "ACTIVE")
    /\ now <= CalculateGraceEnd(sub[s].end, Grace)
    /\ Accept(w, "reactivate",
              [Ready("reactivate", s, IF now <= sub[s].end THEN "ACTIVE" ELSE "GRACE")
                 EXCEPT !.plan = sub[s].plan])

ExpireRead(w) ==
  \E s \in Subs :
    /\ CanTransition(sub[s].status, "EXPIRED")
    /\ Accept(w, "expire", Ready("expire", s, "EXPIRED"))

CancelRead(w) ==
  \E s \in Subs :
    /\ CanTransition(sub[s].status, "CANCELLED")
    /\ Accept(w, "cancel", Ready("cancel", s, "CANCELLED"))

\* An EXPIRE_SUBSCRIPTION job: it looks at the status, never at the dates.
ExpireSubscriptionRead(w) ==
  \E s \in Subs :
    /\ sub[s].status \notin {Absent, "EXPIRED", "CANCELLED"}
    /\ Accept(w, "expireSubscription", Ready("expireSubscription", s, "EXPIRED"))

\* Variant with a fault: a row is expired when its grace period ends, not after.
ScanReadTooEarly(w) ==
  LET due == {s \in LiveSubs : sub[s].end <= now}
      expiring == {s \in due : now >= CalculateGraceEnd(sub[s].end, Grace)}
      lapsed == {s \in due \ expiring : sub[s].status = "ACTIVE"}
  IN /\ expiring \cup lapsed # {}
     /\ Accept(w, "evaluateExpiry",
               [Idle EXCEPT !.op = "evaluateExpiry", !.pc = "scan",
                            !.expiring = expiring, !.lapsed = lapsed])

\* Variant with a fault: the scan looks for ACTIVE rows only.
ScanReadActiveOnly(w) ==
  LET due == {s \in LiveSubs : sub[s].end <= now /\ sub[s].status = "ACTIVE"}
      expiring == {s \in due : now > CalculateGraceEnd(sub[s].end, Grace)}
      lapsed == due \ expiring
  IN /\ due # {}
     /\ Accept(w, "evaluateExpiry",
               [Idle EXCEPT !.op = "evaluateExpiry", !.pc = "scan",
                            !.expiring = expiring, !.lapsed = lapsed])

\* The periodic scan reads every live row past its end date, once.
ScanRead(w) ==
  LET due == {s \in LiveSubs : sub[s].end <= now}
      expiring == {s \in due : now > CalculateGraceEnd(sub[s].end, Grace)}
      lapsed == {s \in due \ expiring : sub[s].status = "ACTIVE"}
  IN /\ expiring \cup lapsed # {}
     /\ Accept(w, "evaluateExpiry",
               [Idle EXCEPT !.op = "evaluateExpiry", !.pc = "scan",
                            !.expiring = expiring, !.lapsed = lapsed])

\* The scan reaches a row it found past its grace period: expireSubscription
\* reads the status again, but not the dates.
ScanExpire(w) ==
  \E s \in req[w].expiring :
    LET rest == [req[w] EXCEPT !.expiring = @ \ {s}] IN
    /\ req[w].pc = "scan"
    /\ req' = [req EXCEPT ![w] =
                 IF sub[s].status \in {"EXPIRED", "CANCELLED"} THEN Rest(rest)
                 ELSE [rest EXCEPT !.pc = "ready", !.sub = s, !.to = "EXPIRED"]]
    /\ UNCHANGED <<now, sub, customer, access, recent, jobs, session>>

\* The scan reaches a row it found ACTIVE and past its end date.
ScanGrace(w) ==
  \E s \in req[w].lapsed :
    /\ req[w].pc = "scan"
    /\ ~RowHeld(w, s)
    /\ sub' = [sub EXCEPT ![s].status = "GRACE"]
    /\ req' = [req EXCEPT ![w] = Rest([req[w] EXCEPT !.lapsed = @ \ {s}])]
    /\ UNCHANGED <<now, customer, access, recent, jobs, session>>
-----------------------------------------------------------------------------
(* Step 2 of the transactions that read other rows: lock and read           *)

Begin(w, others, last) ==
  /\ req[w].pc = "ready"
  /\ \A o \in {req[w].sub} \cup others : ~RowHeld(w, o)
  /\ req' = [req EXCEPT ![w].pc = "open", ![w].others = others, ![w].last = last]
  /\ UNCHANGED <<now, sub, customer, access, recent, jobs, session>>

BeginCreate(w) ==
  /\ req[w].op = "create"
  /\ ~CustomerHeld(w)
  /\ Begin(w, IF req[w].to = "ACTIVE" THEN ActiveOthers(req[w].sub) ELSE {}, FALSE)

BeginActivate(w) ==
  /\ req[w].op = "activate"
  /\ Begin(w, ActiveOthers(req[w].sub), FALSE)

\* Variant with a fault: the row that is ending counts as well.
BeginEndingCountingItself(w) ==
  /\ req[w].op \in {"cancel", "expireSubscription", "evaluateExpiry"}
  /\ Begin(w, {}, LiveSubs = {})

\* cancel and expireSubscription count the live rows that remain.
BeginEnding(w) ==
  /\ req[w].op \in {"cancel", "expireSubscription", "evaluateExpiry"}
  /\ Begin(w, {}, LiveSubs \subseteq {req[w].sub})
-----------------------------------------------------------------------------
(* Last step of every transaction: its writes become visible                *)

\* A transaction of one step may run when nobody holds the rows it writes.
Unlocked(w) == req[w].pc = "ready" /\ ~RowHeld(w, req[w].sub)

\* The rows a new ACTIVE subscription supersedes go to EXPIRED.
Supersede(w, row) ==
  sub' = [s \in Subs |->
            IF s = req[w].sub THEN row
            ELSE IF s \in req[w].others THEN [sub[s] EXCEPT !.status = "EXPIRED"]
            ELSE sub[s]]

CommitCreate(w) ==
  LET r == req[w] IN
  /\ r.op = "create" /\ r.pc = "open"
  /\ Supersede(w, [status |-> r.to, end |-> r.newEnd, plan |-> r.plan])
  /\ IF r.to = "ACTIVE" THEN SyncRadiusOnActivation(r.plan)
     ELSE UNCHANGED <<customer, access>>
  /\ Finish(w, NoJob)
  /\ UNCHANGED <<now, recent, jobs, session>>

CommitActivate(w) ==
  LET r == req[w] IN
  /\ r.op = "activate" /\ r.pc = "open"
  /\ ~CustomerHeld(w)
  /\ Supersede(w, [sub[r.sub] EXCEPT !.status = "ACTIVE", !.end = r.newEnd])
  /\ SyncRadiusOnActivation(r.plan)
  /\ Finish(w, NoJob)
  /\ UNCHANGED <<now, recent, jobs, session>>

\* Variant with a fault: the comparison takes the date to be written.
RenewedPast(w) == sub[req[w].sub].end > req[w].newEnd

\* Under the row lock the end date is compared with the one read before: a
\* renewal that committed in between makes this one return its invoice.
AlreadyRenewed(w) == sub[req[w].sub].end > req[w].readEnd

CommitRenew(w) ==
  LET r == req[w] IN
  /\ r.op = "renew" /\ Unlocked(w)
  /\ IF AlreadyRenewed(w)
     THEN UNCHANGED <<sub, customer, access, recent>>
     ELSE /\ ~CustomerHeld(w)
          /\ sub' = [sub EXCEPT ![r.sub].status = "ACTIVE", ![r.sub].end = r.newEnd]
          /\ SyncRadiusOnActivation(r.plan)
          /\ recent' = [recent EXCEPT ![r.sub] = r.newEnd]
  /\ Finish(w, NoJob)
  /\ UNCHANGED <<now, jobs, session>>

\* Variant with a fault: the rate limit in radreply stays the old plan's.
ChangePlanRowOnly(w) ==
  LET r == req[w] IN
  /\ r.op = "changePlan" /\ Unlocked(w)
  /\ sub' = [sub EXCEPT ![r.sub].plan = r.plan]
  /\ Finish(w, CoaTo(r.plan))
  /\ UNCHANGED <<now, customer, access, recent, jobs, session>>

CommitChangePlan(w) ==
  LET r == req[w] IN
  /\ r.op = "changePlan" /\ Unlocked(w)
  /\ sub' = [sub EXCEPT ![r.sub].plan = r.plan]
  /\ access' = [access EXCEPT !.rate = r.plan]
  /\ Finish(w, CoaTo(r.plan))
  /\ UNCHANGED <<now, customer, recent, jobs, session>>

\* Variant with a fault: nothing is queued for the live session.
SuspendQuietly(w) ==
  LET r == req[w] IN
  /\ r.op = "suspend" /\ Unlocked(w) /\ ~CustomerHeld(w)
  /\ sub' = [sub EXCEPT ![r.sub].status = "SUSPENDED"]
  /\ customer' = "SUSPENDED"
  /\ SyncRadiusOnDeactivation
  /\ Finish(w, NoJob)
  /\ UNCHANGED <<now, recent, jobs, session>>

CommitSuspend(w) ==
  LET r == req[w] IN
  /\ r.op = "suspend" /\ Unlocked(w) /\ ~CustomerHeld(w)
  /\ sub' = [sub EXCEPT ![r.sub].status = "SUSPENDED"]
  /\ customer' = "SUSPENDED"
  /\ SyncRadiusOnDeactivation
  /\ Finish(w, Disconnect)
  /\ UNCHANGED <<now, recent, jobs, session>>

\* Variant with a fault: the customer gets the subscription's status.
ReactivateWithStatus(w) ==
  LET r == req[w] IN
  /\ r.op = "reactivate" /\ Unlocked(w) /\ ~CustomerHeld(w)
  /\ sub' = [sub EXCEPT ![r.sub].status = r.to]
  /\ customer' = r.to
  /\ access' = [valid |-> TRUE, rate |-> r.plan]
  /\ Finish(w, CoaTo(r.plan))
  /\ UNCHANGED <<now, recent, jobs, session>>

CommitReactivate(w) ==
  LET r == req[w] IN
  /\ r.op = "reactivate" /\ Unlocked(w) /\ ~CustomerHeld(w)
  /\ sub' = [sub EXCEPT ![r.sub].status = r.to]
  /\ SyncRadiusOnActivation(r.plan)
  /\ Finish(w, CoaTo(r.plan))
  /\ UNCHANGED <<now, recent, jobs, session>>

\* The administrator's expire: the one deactivation that enqueues no job.
CommitExpire(w) ==
  LET r == req[w] IN
  /\ r.op = "expire" /\ Unlocked(w) /\ ~CustomerHeld(w)
  /\ sub' = [sub EXCEPT ![r.sub].status = "EXPIRED"]
  /\ customer' = "EXPIRED"
  /\ SyncRadiusOnDeactivation
  /\ Finish(w, NoJob)
  /\ UNCHANGED <<now, recent, jobs, session>>

\* Variant with a fault: the credentials go with the customer, so that a second
\* subscription keeps working.
EndLastRevokes(w, status) ==
  LET r == req[w] IN
  /\ r.pc = "open"
  /\ r.last => ~CustomerHeld(w)
  /\ sub' = [sub EXCEPT ![r.sub].status = status]
  /\ IF r.last THEN customer' = "EXPIRED" /\ SyncRadiusOnDeactivation
     ELSE UNCHANGED <<customer, access>>
  /\ Finish(w, Disconnect)
  /\ UNCHANGED <<now, recent, jobs, session>>

\* Variant with a fault: nothing is queued for the live session.
EndQuietly(w, status) ==
  LET r == req[w] IN
  /\ r.pc = "open"
  /\ r.last => ~CustomerHeld(w)
  /\ sub' = [sub EXCEPT ![r.sub].status = status]
  /\ customer' = IF r.last THEN "EXPIRED" ELSE customer
  /\ SyncRadiusOnDeactivation
  /\ Finish(w, NoJob)
  /\ UNCHANGED <<now, recent, jobs, session>>

\* The customer follows only if the transaction counted no other live row; the
\* credentials go in any case.
End(w, status) ==
  LET r == req[w] IN
  /\ r.pc = "open"
  /\ r.last => ~CustomerHeld(w)
  /\ sub' = [sub EXCEPT ![r.sub].status = status]
  /\ customer' = IF r.last THEN "EXPIRED" ELSE customer
  /\ SyncRadiusOnDeactivation
  /\ Finish(w, Disconnect)
  /\ UNCHANGED <<now, recent, jobs, session>>

CommitCancel(w) == req[w].op = "cancel" /\ End(w, "CANCELLED")

CommitExpireSubscription(w) ==
  req[w].op \in {"expireSubscription", "evaluateExpiry"} /\ End(w, "EXPIRED")

\* queueCoaJob never fails its caller: with the queue down the job is lost.
Enqueue(w) ==
  /\ req[w].pc = "notify"
  /\ \/ jobs' = jobs \cup {req[w].job}
     \/ Faulty /\ jobs' = jobs
  /\ req' = [req EXCEPT ![w] = Rest(req[w])]
  /\ UNCHANGED <<now, sub, customer, access, recent, session>>

\* The process dies, or its transaction is rolled back (deadlock, unique
\* constraint, lost connection): nothing is written and the rest is not done.
Fail(w) ==
  /\ Faulty
  /\ req[w].pc # "idle"
  /\ req' = [req EXCEPT ![w] = Idle]
  /\ UNCHANGED <<now, sub, customer, access, recent, jobs, session>>
-----------------------------------------------------------------------------
(* The CoA worker, the router and FreeRADIUS                                *)

\* What a job does to the router: a Disconnect-Request ends the session.  A
\* CoA-Request changes its rate or, refused, is followed by one Disconnect, whose
\* failure nobody looks at.
Apply(job) ==
  LET ended == [up |-> FALSE, rate |-> None] IN
  session' \in IF job.type = "COA" /\ session.up
               THEN {[up |-> TRUE, rate |-> job.rate], ended, session}
               ELSE {ended}

\* A job that is done leaves the queue, one whose worker stalls runs again.
\* After three timed out attempts, or a refused Disconnect, it leaves the queue undone.
Deliver(job) ==
  /\ Apply(job)
  /\ jobs' = jobs \ {job}
  /\ UNCHANGED <<now, sub, customer, access, recent, req>>

Redeliver(job) ==
  /\ Apply(job)
  /\ UNCHANGED <<now, sub, customer, access, recent, req, jobs>>

GiveUp(job) ==
  /\ Faulty
  /\ jobs' = jobs \ {job}
  /\ UNCHANGED <<now, sub, customer, access, recent, req, session>>

\* The subscriber's router dials in: Access-Accept needs the real password.
Connect ==
  /\ ~session.up /\ access.valid
  /\ session' = [up |-> TRUE, rate |-> access.rate]
  /\ UNCHANGED <<now, sub, customer, access, recent, req, jobs>>

HangUp ==
  /\ session.up
  /\ session' = [up |-> FALSE, rate |-> None]
  /\ UNCHANGED <<now, sub, customer, access, recent, req, jobs>>
-----------------------------------------------------------------------------
(* Time                                                                     *)

Tick ==
  /\ now < MaxTime
  /\ now' = now + 1
  /\ recent' = [s \in Subs |-> 0]
  /\ UNCHANGED <<sub, customer, access, req, jobs, session>>

\* 60 s pass, or an administrator cancels the renewal's invoice.
Forget(s) ==
  /\ recent[s] # 0
  /\ recent' = [recent EXCEPT ![s] = 0]
  /\ UNCHANGED <<now, sub, customer, access, req, jobs, session>>
-----------------------------------------------------------------------------
Start(w) ==
  \/ CreateRead(w) \/ ActivateRead(w) \/ RenewRead(w) \/ ChangePlanRead(w)
  \/ SuspendRead(w) \/ ReactivateRead(w) \/ ExpireRead(w) \/ CancelRead(w)
  \/ ExpireSubscriptionRead(w) \/ ScanRead(w)

\* The steps of a handler that has started.
Proceed(w) ==
  \/ ScanExpire(w) \/ ScanGrace(w)
  \/ BeginCreate(w) \/ BeginActivate(w) \/ BeginEnding(w)
  \/ CommitCreate(w) \/ CommitActivate(w) \/ CommitRenew(w)
  \/ CommitChangePlan(w) \/ CommitSuspend(w) \/ CommitReactivate(w)
  \/ CommitExpire(w) \/ CommitCancel(w) \/ CommitExpireSubscription(w)
  \/ Enqueue(w)

Next ==
  \/ \E w \in Workers : Start(w) \/ Proceed(w) \/ Fail(w)
  \/ \E job \in jobs : Deliver(job) \/ Redeliver(job) \/ GiveUp(job)
  \/ Connect \/ HangUp
  \/ Tick
  \/ \E s \in Subs : Forget(s)

Spec == Init /\ [][Next]_vars

\* The process that is only asked to scan: the timer of apps/worker, every 60 s.
Scanners == {w \in Workers : Duty[w] = {"evaluateExpiry"}}

DeliverDisconnect == Disconnect \in jobs /\ Deliver(Disconnect)

\* A handler that has started goes on, the scan timer fires again and again,
\* and the CoA worker gets to every Disconnect.
Fairness ==
  /\ \A w \in Workers : WF_vars(Proceed(w))
  /\ \A w \in Scanners : WF_vars(ScanRead(w))
  /\ WF_vars(DeliverDisconnect)

LiveSpec == Spec /\ Fairness
-----------------------------------------------------------------------------
(* Properties                                                               *)

\* Access is earned: whatever the handlers interleave and whatever else of them is
\* lost, FreeRADIUS accepts the password only while the customer is ACTIVE and has
\* a subscription in ACTIVE or GRACE, and never without a plan's rate limit.
AccessIsEarned ==
  access.valid => LiveSubs # {} /\ customer = "ACTIVE" /\ access.rate \in Plans

\* A renewal that writes (and bills) moves the end date it finds by a full
\* period at least, however stale the date it started from.
RenewalGrantsFullPeriod ==
  [][\A w \in Workers :
       req[w].op = "renew" /\ CommitRenew(w) /\ ~AlreadyRenewed(w)
         => sub'[req[w].sub].end >= sub[req[w].sub].end + Period]_vars

\* A session that outlives its credentials has a Disconnect on its way: in the
\* queue, or in the hands of the handler that has just committed.
DisconnectPending == Disconnect \in jobs \/ \E w \in Workers : req[w].job = Disconnect

OnlineIsEntitled == session.up /\ ~access.valid => DisconnectPending

\* CANCELLED is a terminal state.
CancelledIsTerminal ==
  [][\A s \in Subs : sub[s].status = "CANCELLED" => sub'[s].status = "CANCELLED"]_vars

\* A customer without an ACTIVE or GRACE subscription does not stay ACTIVE.
ActiveCustomerIsServed == customer = "ACTIVE" => LiveSubs # {}

\* The scan expires a subscription only if its end date and grace period are
\* over at that time.
ExpiredOnlyWhenOverdue ==
  [][\A w \in Workers :
       req[w].op = "evaluateExpiry" /\ CommitExpireSubscription(w)
         => now > CalculateGraceEnd(sub[req[w].sub].end, Grace)]_vars

\* The rate limit the customer dials in with is that of a live subscription.
SpeedMatchesPlan == access.valid => \E s \in LiveSubs : access.rate = sub[s].plan

\* A subscription past its grace period does not stay ACTIVE or in GRACE: the
\* scan ends it unless it is renewed.
Overdue(s) == sub[s].status \in Live /\ now > CalculateGraceEnd(sub[s].end, Grace)

OverdueIsEnded == \A s \in Subs : Overdue(s) ~> ~Overdue(s)

\* A session whose credentials are gone is ended, or gets credentials again.
DeniedSessionEnds == (session.up /\ ~access.valid) ~> (~session.up \/ access.valid)
-----------------------------------------------------------------------------
(* The refinement of Admission *)

\* The rate at which an Access-Request of the customer is accepted.
Grant == IF access.valid THEN access.rate ELSE None

Speed == IF session.up THEN session.rate ELSE None

Adm == INSTANCE Admission WITH
         live <- LiveSubs, active <- customer = "ACTIVE", grant <- Grant, speed <- Speed

\* The handlers implement Admission: between its two steps a transaction shows
\* nothing, and its commit changes rows, customer and credentials at once.
AdmitsAsPromised == Adm!Spec
=============================================================================
