---------------------------- MODULE CoaDelivery ----------------------------
(***************************************************************************)
(* How a change of a customer's access reaches the live session: the       *)
(* handlers that have committed a change, queueCoaJob, the BullMQ queue,   *)
(* the CoA worker with its UDP client, the router, and the accounting rows *)
(* by which queueCoaJob finds the session.                                 *)
(*                                                                         *)
(* Between the commit and the session lie a read of radacct that may be    *)
(* out of date, a queue that drops what it has seen before, datagrams that *)
(* are lost or late, answers nobody waits for any more, a worker that may  *)
(* die, and retries that run after later jobs.                             *)
(***************************************************************************)
EXTENDS Naturals

CONSTANTS
  Handlers,       \* API requests, each of which changes or ends something once
  Attempts,       \* attempts of a BullMQ job (3)
  Sends,          \* datagrams a request is tried with: maxRetries + 1 (3)
  FallbackSends,  \* the same for the Disconnect that follows a CoA-NAK (2)
  MaxJobs,        \* bound: jobs added
  MaxSession,     \* bound: sessions the subscriber opens
  MaxFlight,      \* bound: datagrams on their way at the same time
  MaxFaults       \* bound: datagrams lost, live sessions not given up, socket errors

ASSUME DeliveryAssumption ==
  /\ Attempts \in Nat \ {0} /\ Sends \in Nat \ {0} /\ FallbackSends \in Nat \ {0}
  /\ FallbackSends <= Sends
  /\ MaxJobs \in Nat /\ MaxSession \in Nat \ {0} /\ MaxFaults \in Nat
  /\ MaxFlight \in Nat \ {0}

VARIABLES
  access,   \* radcheck has the real password
  handler,  \* what each handler has committed and still has to queue
  jobs,     \* the BullMQ jobs in the order they were added
  worker,   \* the job under way and the request being sent for it
  net,      \* datagrams on their way to the router
  answer,   \* answer on its way to the socket that is open, if any
  session,  \* id of the live session on the router, 0 if there is none
  radacct,  \* sessions whose accounting row is open
  dialled,  \* how many sessions the subscriber has opened
  faults    \* datagrams lost, live sessions not given up and socket errors so far

vars == <<access, handler, jobs, worker, net, answer, session, radacct,
          dialled, faults>>

apiVars == <<access, handler>>
routerVars == <<session, radacct, dialled>>
-----------------------------------------------------------------------------
(* Types *)

JobIds == 1..MaxJobs
Sessions == 1..MaxSession
JobType == {"COA", "DISCONNECT"}

Result == {"none", "COA_ACK", "COA_NAK", "DISCONNECT_ACK", "DISCONNECT_NAK",
           "TIMEOUT", "ERROR", "STALLED"}

Job ==
  [type     : JobType,
   session  : Sessions \cup {0},  \* Acct-Session-Id, 0 if none was found
   state    : {"waiting", "active", "completed", "failed"},
   attempts : 0..(Attempts - 1),  \* attempts that timed out
   stalls   : 0..1,
   result   : Result]             \* codeName, once it is finished

NoJob == [type |-> "NONE"]

Order ==
  [pc : {"start", "committed", "done"}, type : JobType]

Fresh == [pc |-> "start", type |-> "COA"]

Packet ==
  [id : 1..MaxFlight, job : JobIds, type : JobType, session : Sessions \cup {0}, awaited : BOOLEAN]

Sending ==
  [job     : JobIds,
   phase   : {"coa", "disconnect", "fallback"},
   tries   : 0..Sends,
   waiting : BOOLEAN]   \* a socket is open

Idle == [phase |-> "idle"]

TypeOK ==
  /\ access \in BOOLEAN
  /\ handler \in [Handlers -> Order]
  /\ jobs \in [JobIds -> Job \cup {NoJob}]
  /\ worker \in Sending \cup {Idle}
  /\ net \subseteq Packet
  /\ answer \in {"none", "ACK", "NAK"}
  /\ session \in Sessions \cup {0}
  /\ radacct \subseteq Sessions
  /\ dialled \in Sessions
  /\ faults \in 0..MaxFaults

Init ==
  /\ access \in BOOLEAN
  /\ session = 1
  /\ handler = [h \in Handlers |-> Fresh]
  /\ jobs = [t \in JobIds |-> NoJob]
  /\ worker = Idle
  /\ net = {}
  /\ answer = "none"
  /\ radacct \in {{}, {1}}
  /\ dialled = 1
  /\ faults = 0
-----------------------------------------------------------------------------
(* The API: a handler commits, finds the session, adds the job.            *)

Commit(h, type) ==
  /\ handler[h].pc = "start"
  /\ handler' = [handler EXCEPT ![h] = [pc |-> "committed", type |-> type]]
  /\ UNCHANGED <<jobs, worker, net, answer, session, radacct, dialled, faults>>

\* suspend, cancel, expire, terminate: the password is gone.
Suspend(h) == Commit(h, "DISCONNECT") /\ access' = FALSE

Reactivate(h) == Commit(h, "COA") /\ access' = TRUE

\* upgrade, downgrade, overrideSpeed.
ChangeRate(h) == Commit(h, "COA") /\ UNCHANGED access

\* An operator disconnects the subscriber.
Kick(h) == Commit(h, "DISCONNECT") /\ UNCHANGED access

NewJob(type, target) ==
  [type |-> type, session |-> target, state |-> "waiting", attempts |-> 0,
   stalls |-> 0, result |-> "none"]

\* The newest accounting row without a stop time; 0 if there is none.
Newest(s) == s \in radacct \cup {0} /\ \A q \in radacct : q <= s

\* queueCoaJob: the session is that of the newest row, or is not known because the
\* lookup failed.  The answer is QUEUED in every case: the job id is made of the user name
\* and the millisecond, and BullMQ ignores a second job of the same millisecond;
\* without Redis nothing is added.
QueueCoaJob(h) ==
  /\ handler[h].pc = "committed"
  /\ handler' = [handler EXCEPT ![h] = [pc |-> "done", type |-> handler[h].type]]
  /\ \/ \E t \in JobIds, s \in Sessions \cup {0} :
          /\ jobs[t] = NoJob /\ \A u \in 1..(t - 1) : jobs[u] # NoJob
          /\ Newest(s) \/ s = 0
          /\ jobs' = [jobs EXCEPT ![t] = NewJob(handler[h].type, s)]
     \/ UNCHANGED jobs
  /\ UNCHANGED <<access, worker, net, answer, session, radacct, dialled, faults>>
-----------------------------------------------------------------------------
(* The worker: one job at a time, a new socket for every datagram.         *)

New(t) == jobs[t].attempts = 0 /\ jobs[t].stalls = 0
Waiting == {t \in JobIds : jobs[t] # NoJob /\ jobs[t].state = "waiting"}

\* Job t, which is to do what it was made for whatever becomes of it.
Becomes(t, state, attempts, stalls, result) ==
  jobs' = [jobs EXCEPT ![t] =
    [type |-> jobs[t].type, session |-> jobs[t].session, state |-> state,
     attempts |-> attempts, stalls |-> stalls, result |-> result]]

Works(phase, tries, waiting) ==
  worker' = [job |-> worker.job, phase |-> phase, tries |-> tries, waiting |-> waiting]

\* Jobs that were not tried yet come in the order of their creation; those in
\* back-off return at any time.
Take(t) ==
  /\ worker = Idle
  /\ t \in Waiting
  /\ \A u \in Waiting : New(u) /\ New(t) => t <= u
  /\ Becomes(t, "active", jobs[t].attempts, jobs[t].stalls, "none")
  /\ worker' = [job |-> t,
                phase |-> IF jobs[t].type = "COA" THEN "coa" ELSE "disconnect",
                tries |-> 0, waiting |-> FALSE]
  /\ UNCHANGED <<apiVars, net, answer, routerVars, faults>>

Limit == IF worker.phase = "fallback" THEN FallbackSends ELSE Sends

FreeIds == 1..MaxFlight \ {p.id : p \in net}

Request(target) ==
  [id      |-> CHOOSE i \in FreeIds : TRUE,
   job     |-> worker.job,
   type    |-> IF worker.phase = "coa" THEN "COA" ELSE "DISCONNECT",
   session |-> target,
   awaited |-> TRUE]

\* Variant with a fault: the datagram names the user only.
DatagramByName == Request(0)

Datagram == Request(jobs[worker.job].session)

Send ==
  /\ worker # Idle /\ ~worker.waiting
  /\ FreeIds # {}
  /\ Works(worker.phase, worker.tries + 1, TRUE)
  /\ net' = net \cup {Datagram}
  /\ UNCHANGED <<apiVars, jobs, answer, routerVars, faults>>

\* The socket is closed: its datagram may still arrive, its answer is lost.
CloseSocket ==
  /\ net' = {[id |-> p.id, job |-> p.job, type |-> p.type, session |-> p.session,
              awaited |-> FALSE] : p \in net}
  /\ answer' = "none"

Finishes(t, state, result) == Becomes(t, state, 0, 0, result)

\* Variant with a fault: a time-out is reported and not thrown.
EndWithoutRetry(result) ==
  /\ Finishes(worker.job, "completed", result)
  /\ worker' = Idle

\* The job leaves the worker.  Only a time-out is thrown, for BullMQ to retry.
End(result) ==
  LET t == worker.job IN
  /\ IF result # "TIMEOUT" THEN Finishes(t, "completed", result)
     ELSE IF jobs[t].attempts + 1 = Attempts THEN Finishes(t, "failed", result)
     ELSE Becomes(t, "waiting", jobs[t].attempts + 1, jobs[t].stalls, "none")
  /\ worker' = Idle

\* What a Disconnect that failed after a CoA-NAK leaves is the NAK.
Failure(result) == IF worker.phase = "fallback" THEN "COA_NAK" ELSE result

Acknowledgement == IF worker.phase = "coa" THEN "COA_ACK" ELSE "DISCONNECT_ACK"

\* Variant with a fault: any reply counts as done, as if it said that the session
\* was not found.
CodeNameOfAnyReply == Acknowledgement

\* Any reply but an acknowledgement is a NAK, whatever its cause.
CodeName == IF answer = "ACK" THEN Acknowledgement ELSE Failure("DISCONNECT_NAK")

\* After the last try.
Exhausted(result) == End(Failure(result))

Receive ==
  /\ worker # Idle /\ worker.waiting /\ answer # "none"
  /\ CloseSocket
  /\ IF answer = "NAK" /\ worker.phase = "coa"
     THEN Works("fallback", 0, FALSE) /\ UNCHANGED jobs
     ELSE End(CodeName)
  /\ UNCHANGED <<apiVars, routerVars, faults>>

\* 2.5 s pass without an answer.
TimeoutAfter(limit) ==
  /\ worker # Idle /\ worker.waiting
  /\ CloseSocket
  /\ IF worker.tries < limit
     THEN Works(worker.phase, worker.tries, FALSE) /\ UNCHANGED jobs
     ELSE Exhausted("TIMEOUT")
  /\ UNCHANGED <<apiVars, routerVars, faults>>

\* Variant with a fault: one datagram more than maxRetries + 1.
TimeoutLate == TimeoutAfter(Limit + 1)

\* Variant with a fault: the counter of tries starts again with every socket.
TimeoutForever ==
  /\ worker # Idle /\ worker.waiting
  /\ CloseSocket
  /\ Works(worker.phase, 0, FALSE)
  /\ UNCHANGED <<apiVars, jobs, routerVars, faults>>

Timeout == TimeoutAfter(Limit)

\* The datagram cannot be sent: no route, no buffer.
SocketError ==
  /\ worker # Idle /\ ~worker.waiting
  /\ faults < MaxFaults
  /\ faults' = faults + 1
  /\ IF worker.tries + 1 < Limit
     THEN Works(worker.phase, worker.tries + 1, FALSE) /\ UNCHANGED jobs
     ELSE Exhausted("ERROR")
  /\ UNCHANGED <<apiVars, net, answer, routerVars>>

\* The worker dies; its job stays active until BullMQ finds it stalled, which
\* puts it back once and fails it the second time.
Die ==
  /\ worker # Idle
  /\ worker' = Idle
  /\ CloseSocket
  /\ UNCHANGED <<apiVars, jobs, routerVars, faults>>

Recover(t) ==
  /\ jobs[t] # NoJob /\ jobs[t].state = "active"
  /\ worker = Idle
  /\ IF jobs[t].stalls = 0 THEN Becomes(t, "waiting", jobs[t].attempts, 1, "none")
                           ELSE Finishes(t, "failed", "STALLED")
  /\ UNCHANGED <<apiVars, worker, net, answer, routerVars, faults>>
-----------------------------------------------------------------------------
(* The network, the router and FreeRADIUS's accounting                     *)

Lose(p) ==
  /\ faults < MaxFaults
  /\ faults' = faults + 1
  /\ net' = net \ {p}
  /\ UNCHANGED <<apiVars, jobs, worker, answer, routerVars>>

\* A session is named by its Acct-Session-Id, or by the user name alone.  Without
\* an accounting row the datagram goes to the organisation's first router, under
\* the realm user name: that may be neither the router nor the name of the session.
Names(p) == session # 0 /\ p.session \in {0, session}

\* A CoA-Request changes the rate of the session, which is not kept here.
Accept(p) ==
  /\ Names(p)
  /\ session' = IF p.type = "COA" THEN session ELSE 0
  /\ answer' = IF p.awaited THEN "ACK" ELSE answer
  /\ UNCHANGED faults

\* The session is not there, or it is and stays: the secret is not the router's,
\* CoA is switched off, the rate cannot be changed.  That a live session is not
\* given up counts as a fault.
Refuse(p) ==
  /\ answer' = IF p.awaited THEN "NAK" ELSE answer
  /\ \/ /\ p.type = "COA" \/ p.session # session \/ session = 0
        /\ UNCHANGED faults
     \/ /\ p.type = "DISCONNECT" /\ Names(p) /\ faults < MaxFaults
        /\ faults' = faults + 1
  /\ UNCHANGED session

Arrive(p) ==
  /\ net' = net \ {p}
  /\ Accept(p) \/ Refuse(p)
  /\ UNCHANGED <<apiVars, jobs, worker, radacct, dialled>>

Connect ==
  /\ session = 0 /\ access /\ dialled < MaxSession
  /\ dialled' = dialled + 1
  /\ session' = dialled + 1
  /\ UNCHANGED <<apiVars, jobs, worker, net, answer, radacct, faults>>

HangUp ==
  /\ session # 0
  /\ session' = 0
  /\ UNCHANGED <<apiVars, jobs, worker, net, answer, radacct, dialled, faults>>

\* Accounting-Start and Accounting-Stop come late, or never.
AccountingStart ==
  /\ session # 0
  /\ radacct' = radacct \cup {session}
  /\ UNCHANGED <<apiVars, jobs, worker, net, answer, session, dialled, faults>>

AccountingStop(s) ==
  /\ s \in radacct /\ s # session
  /\ radacct' = radacct \ {s}
  /\ UNCHANGED <<apiVars, jobs, worker, net, answer, session, dialled, faults>>
-----------------------------------------------------------------------------
Handle(h) ==
  \/ Suspend(h) \/ Reactivate(h) \/ ChangeRate(h) \/ Kick(h)
  \/ QueueCoaJob(h)

Work == (\E t \in JobIds : Take(t) \/ Recover(t)) \/ Send \/ Receive \/ Timeout

Next ==
  \/ \E h \in Handlers : Handle(h)
  \/ Work \/ SocketError \/ Die
  \/ \E p \in net : Lose(p) \/ Arrive(p)
  \/ Connect \/ HangUp \/ AccountingStart
  \/ \E s \in Sessions : AccountingStop(s)

Spec == Init /\ [][Next]_vars

\* The worker goes on, and what the network does not lose arrives.  A worker
\* that dies is restarted by its container; BullMQ gives each job one more run.
Fairness == WF_vars(Work) /\ WF_vars(\E p \in net : Arrive(p))

LiveSpec == Spec /\ Fairness
-----------------------------------------------------------------------------
(* Properties *)

\* A request that arrives late, after retries, a back-off or a restart of the
\* worker, does not end a session the subscriber has opened since: what ends is
\* the session that was found when the job was made, if one was found.
LateRequestSparesNewSession ==
  [][\A p \in net :
       Arrive(p) /\ session' # session /\ jobs[p.job].session # 0
         => session = jobs[p.job].session]_vars

\* A Disconnect that was acknowledged has done its work, also the one that follows
\* a CoA-NAK: whatever late, lost or repeated datagrams and refusals there were, the
\* session that was found for the job is over, and the subscriber is online again
\* only in a new one.  A refusal says nothing of the session.
AcknowledgedIsEnded ==
  \A t \in JobIds :
    /\ jobs[t] # NoJob /\ jobs[t].session # 0
    /\ jobs[t].result = "DISCONNECT_ACK"
    => session # jobs[t].session

\* A Disconnect in the queue ends the session it names, however the network loses
\* and the router refuses fewer datagrams than the attempts send and however late
\* the answers are, unless a refusal reaches the worker, which does not try again
\* after one, the last error was not a time-out, or the worker died twice on it.
Pursues(t, s) ==
  /\ jobs[t] # NoJob /\ jobs[t].type = "DISCONNECT"
  /\ jobs[t].session = s /\ session = s

DisconnectCarriesThrough ==
  \A t \in JobIds, s \in Sessions :
    Pursues(t, s) ~> ~Pursues(t, s) \/ jobs[t].result \in {"DISCONNECT_NAK", "ERROR", "STALLED"}

\* Every job leaves the queue: a router that does not answer does not keep the
\* worker, and a worker that dies does not take the job with it.
EveryJobEnds ==
  \A t \in JobIds : (jobs[t] # NoJob) ~> (jobs[t] # NoJob /\ jobs[t].state \in {"completed", "failed"})
=============================================================================
