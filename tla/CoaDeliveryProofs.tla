------------------------- MODULE CoaDeliveryProofs -------------------------
(***************************************************************************)
(* Proofs about CoaDelivery, for any number of handlers, jobs, sessions,   *)
(* attempts and datagrams: types, with the bounds of the retries, that a   *)
(* late request spares the sessions opened since, and that a Disconnect    *)
(* that was acknowledged has ended the session its job was made for.       *)
(***************************************************************************)
EXTENDS CoaDelivery, TLAPS

\* The job of the worker is there, and it has tries left until the last one waits
\* for its answer.
WorkerSound ==
  worker # Idle =>
    /\ jobs[worker.job] # NoJob
    /\ worker.tries <= Limit
    /\ ~worker.waiting => worker.tries < Limit

\* A datagram names the session its job was made for.
NetSound == \A p \in net : jobs[p.job] # NoJob /\ p.session = jobs[p.job].session

IInv == TypeOK /\ WorkerSound /\ NetSound

LEMMA JobIsThere ==
  ASSUME TypeOK, NEW t \in JobIds
  PROVE  jobs[t] # NoJob <=> jobs[t] \in Job
  BY DEF TypeOK, Job, NoJob, JobType

LEMMA WorkerIsBusy ==
  ASSUME TypeOK
  PROVE  worker # Idle <=> worker \in Sending
  BY DEF TypeOK, Sending, Idle

LEMMA Initially == Init => IInv
<1>. SUFFICES ASSUME Init PROVE IInv
  OBVIOUS
<1>1. TypeOK
  BY DeliveryAssumption DEF Init, TypeOK, Sessions, Order, Fresh, JobType
<1>. QED  BY <1>1 DEF Init, IInv, WorkerSound, NetSound

\* Jobs go on being the jobs they are.
JobsStay ==
  /\ jobs' \in [JobIds -> Job \cup {NoJob}]
  /\ \A t \in JobIds : jobs[t] # NoJob => jobs'[t] # NoJob /\ jobs'[t].session = jobs[t].session

\* Becomes moves a job it finds; Finishes and End are uses of it.
LEMMA BecomesStays ==
  ASSUME TypeOK, NEW t \in JobIds, jobs[t] # NoJob,
         NEW state \in {"waiting", "active", "completed", "failed"},
         NEW attempts \in 0..(Attempts - 1), NEW stalls \in 0..1, NEW result \in Result,
         Becomes(t, state, attempts, stalls, result)
  PROVE  JobsStay
<1>. DEFINE j == [type |-> jobs[t].type, session |-> jobs[t].session, state |-> state,
                  attempts |-> attempts, stalls |-> stalls, result |-> result]
<1>1. jobs[t] \in Job
  BY JobIsThere
<1>2. j \in Job /\ j.session = jobs[t].session
  BY <1>1 DEF Job
<1>3. jobs' = [jobs EXCEPT ![t] = j]
  BY DEF Becomes
<1>4. j # NoJob
  BY <1>2 DEF Job, NoJob, JobType
<1>. HIDE DEF j
<1>. QED  BY <1>2, <1>3, <1>4 DEF TypeOK, JobsStay

LEMMA FinishesStays ==
  ASSUME TypeOK, NEW t \in JobIds, jobs[t] # NoJob,
         NEW state \in {"completed", "failed"}, NEW result \in Result,
         Finishes(t, state, result)
  PROVE  JobsStay
  BY BecomesStays, DeliveryAssumption DEF Finishes

\* End leaves the worker idle.
LEMMA EndStays ==
  ASSUME IInv, worker # Idle, NEW result \in Result, End(result)
  PROVE  JobsStay /\ worker' = Idle
<1>. DEFINE t == worker.job
<1>1. t \in JobIds /\ jobs[t] # NoJob
  BY WorkerIsBusy DEF IInv, WorkerSound, Sending
<1>2. jobs[t] \in Job
  BY <1>1, JobIsThere DEF IInv
<1>3. CASE result # "TIMEOUT"
  BY <1>1, <1>3, FinishesStays DEF End, IInv
<1>4. CASE result = "TIMEOUT" /\ jobs[t].attempts + 1 = Attempts
  BY <1>1, <1>4, FinishesStays DEF End, IInv
<1>5. CASE result = "TIMEOUT" /\ jobs[t].attempts + 1 # Attempts
  <2>1. Becomes(t, "waiting", jobs[t].attempts + 1, jobs[t].stalls, "none")
    BY <1>5 DEF End
  <2>2. jobs[t].attempts + 1 \in 0..(Attempts - 1) /\ jobs[t].stalls \in 0..1
    BY <1>2, <1>5, DeliveryAssumption DEF Job
  <2>. HIDE DEF t
  <2>3. JobsStay
    BY <1>1, <2>1, <2>2, BecomesStays DEF IInv, Result
  <2>. QED  BY <2>3 DEF End
<1>. QED  BY <1>3, <1>4, <1>5 DEF End

LEMMA NetStays ==
  ASSUME IInv, JobsStay, net' \subseteq net
  PROVE  NetSound'
  BY DEF IInv, TypeOK, Packet, NetSound, JobsStay

LEMMA SocketStays ==
  ASSUME IInv, JobsStay, CloseSocket
  PROVE  net' \subseteq Packet /\ NetSound' /\ answer' \in {"none", "ACK", "NAK"}
<1>1. ASSUME NEW q \in net'
      PROVE  q \in Packet /\ jobs'[q.job] # NoJob /\ q.session = jobs'[q.job].session
  <2>1. PICK p \in net : q = [id |-> p.id, job |-> p.job, type |-> p.type,
                              session |-> p.session, awaited |-> FALSE]
    BY DEF CloseSocket
  <2>2. p \in Packet /\ jobs[p.job] # NoJob /\ p.session = jobs[p.job].session
    BY DEF IInv, TypeOK, NetSound
  <2>3. q \in Packet /\ q.job = p.job /\ q.session = p.session
    BY <2>1, <2>2 DEF Packet
  <2>4. p.job \in JobIds
    BY <2>2 DEF Packet
  <2>. QED  BY <2>2, <2>3, <2>4 DEF JobsStay
<1>. QED  BY <1>1 DEF NetSound, CloseSocket

LEMMA JobsUnchanged == TypeOK /\ UNCHANGED jobs => JobsStay
  BY DEF TypeOK, JobsStay

LimitOf(phase) == IF phase = "fallback" THEN FallbackSends ELSE Sends

LEMMA WorksStays ==
  ASSUME IInv, JobsStay, worker # Idle, NEW phase \in {"coa", "disconnect", "fallback"},
         NEW tries \in Nat, NEW waiting \in BOOLEAN, Works(phase, tries, waiting),
         tries <= LimitOf(phase), ~waiting => tries < LimitOf(phase)
  PROVE  worker' \in Sending /\ WorkerSound'
<1>1. worker.job \in JobIds /\ jobs[worker.job] # NoJob
  BY WorkerIsBusy DEF IInv, WorkerSound, Sending
<1>2. /\ worker'.job = worker.job /\ worker'.phase = phase
      /\ worker'.tries = tries /\ worker'.waiting = waiting
  BY DEF Works
<1>3. tries \in 0..Sends
  BY DeliveryAssumption DEF LimitOf
<1>4. worker' \in Sending
  BY <1>1, <1>3 DEF Works, Sending
<1>. QED  BY <1>1, <1>2, <1>4 DEF WorkerSound, Limit, LimitOf, JobsStay

LEMMA IdleStays == worker' = Idle => worker' \in Sending \cup {Idle} /\ WorkerSound'
  BY DEF WorkerSound

\* The worker's limit is that of its phase.
LEMMA LimitIs == Limit = LimitOf(worker.phase) /\ Limit \in Nat /\ Limit > 0
  BY DeliveryAssumption DEF Limit, LimitOf
-----------------------------------------------------------------------------
(* The steps *)

LEMMA CommitStep ==
  ASSUME IInv, NEW h \in Handlers, NEW type \in JobType, Commit(h, type), access' \in BOOLEAN
  PROVE  IInv'
<1>1. handler' \in [Handlers -> Order]
  BY DEF Commit, IInv, TypeOK, Order
<1>. QED  BY <1>1 DEF Commit, IInv, TypeOK, WorkerSound, NetSound, Limit

LEMMA QueueCoaJobStep == ASSUME IInv, NEW h \in Handlers, QueueCoaJob(h) PROVE IInv'
<1>1. handler[h] \in Order
  BY DEF IInv, TypeOK
<1>2. handler' \in [Handlers -> Order]
  BY <1>1 DEF QueueCoaJob, IInv, TypeOK, Order
<1>3. JobsStay
  <2>1. CASE UNCHANGED jobs
    BY <2>1, JobsUnchanged DEF IInv
  <2>2. ASSUME NEW t \in JobIds, NEW s \in Sessions \cup {0}, jobs[t] = NoJob,
               jobs' = [jobs EXCEPT ![t] = NewJob(handler[h].type, s)]
        PROVE  JobsStay
    <3>1. NewJob(handler[h].type, s) \in Job
      BY <1>1, DeliveryAssumption DEF NewJob, Job, Order, JobType, Result
    <3>. QED  BY <2>2, <3>1 DEF IInv, TypeOK, JobsStay
  <2>. QED  BY <2>1, <2>2 DEF QueueCoaJob
<1>4. NetSound'
  BY <1>3, NetStays DEF QueueCoaJob
<1>5. WorkerSound'
  <2>1. worker # Idle => worker.job \in JobIds
    BY WorkerIsBusy DEF IInv, Sending
  <2>. QED  BY <1>3, <2>1 DEF QueueCoaJob, IInv, WorkerSound, Limit, JobsStay
<1>6. TypeOK'
  BY <1>2, <1>3 DEF QueueCoaJob, IInv, TypeOK, JobsStay
<1>. QED  BY <1>4, <1>5, <1>6 DEF IInv

LEMMA TakeStep == ASSUME IInv, NEW t \in JobIds, Take(t) PROVE IInv'
<1>1. /\ jobs[t] # NoJob /\ Becomes(t, "active", jobs[t].attempts, jobs[t].stalls, "none")
      /\ UNCHANGED <<apiVars, net, answer, routerVars, faults>>
  BY DEF Take, Waiting
<1>2. jobs[t].attempts \in 0..(Attempts - 1) /\ jobs[t].stalls \in 0..1
  BY <1>1, JobIsThere DEF IInv, Job
<1>3. JobsStay
  BY <1>1, <1>2, BecomesStays DEF IInv, Result
<1>4. worker' \in Sending /\ WorkerSound'
  <2>1. worker' = [job |-> t,
                   phase |-> IF jobs[t].type = "COA" THEN "coa" ELSE "disconnect",
                   tries |-> 0, waiting |-> FALSE]
    BY DEF Take
  <2>2. /\ worker'.job = t /\ worker'.phase \in {"coa", "disconnect"}
        /\ worker'.tries = 0 /\ worker'.waiting = FALSE
    BY <2>1
  <2>3. worker' \in Sending
    BY <2>1, DeliveryAssumption DEF Sending
  <2>. QED  BY <1>1, <1>3, <2>2, <2>3, DeliveryAssumption DEF WorkerSound, Limit, JobsStay
<1>5. NetSound'
  BY <1>1, <1>3, NetStays
<1>6. TypeOK'
  BY <1>1, <1>3, <1>4 DEF IInv, TypeOK, JobsStay, apiVars, routerVars
<1>. QED  BY <1>4, <1>5, <1>6 DEF IInv

LEMMA SendStep == ASSUME IInv, Send PROVE IInv'
<1>1. /\ worker # Idle /\ ~worker.waiting /\ FreeIds # {}
      /\ Works(worker.phase, worker.tries + 1, TRUE) /\ net' = net \cup {Datagram}
      /\ UNCHANGED <<apiVars, jobs, answer, routerVars, faults>>
  BY DEF Send
<1>2. worker \in Sending /\ worker.job \in JobIds /\ jobs[worker.job] # NoJob /\ worker.tries < Limit
  BY <1>1, WorkerIsBusy DEF IInv, WorkerSound, Sending
<1>3. jobs[worker.job].session \in Sessions \cup {0}
  BY <1>2, JobIsThere DEF IInv, Job
<1>4. /\ Datagram \in Packet /\ Datagram.job = worker.job
      /\ Datagram.session = jobs[worker.job].session
  <2>1. (CHOOSE i \in FreeIds : TRUE) \in 1..MaxFlight
    BY <1>1 DEF FreeIds
  <2>. QED  BY <1>2, <1>3, <2>1 DEF Datagram, Request, Packet, JobType
<1>5. JobsStay
  BY <1>1, JobsUnchanged DEF IInv
<1>6. worker' \in Sending /\ WorkerSound'
  <2>1. worker.tries \in Nat /\ worker.phase \in {"coa", "disconnect", "fallback"}
    BY <1>2 DEF Sending
  <2>2. worker.tries + 1 \in Nat /\ worker.tries + 1 <= LimitOf(worker.phase)
    BY <1>2, <2>1, LimitIs
  <2>. QED  BY <1>1, <1>5, <2>1, <2>2, WorksStays
<1>7. NetSound'
  BY <1>1, <1>2, <1>4 DEF IInv, NetSound
<1>8. TypeOK'
  BY <1>1, <1>4, <1>5, <1>6 DEF IInv, TypeOK, JobsStay, apiVars, routerVars
<1>. QED  BY <1>6, <1>7, <1>8 DEF IInv

\* A request is given up, or its last try was.
LEMMA ExhaustedStays ==
  ASSUME IInv, worker # Idle, NEW result \in {"TIMEOUT", "ERROR"}, Exhausted(result)
  PROVE  JobsStay /\ worker' = Idle
  BY EndStays DEF Exhausted, Failure, Result

LEMMA ReceiveStep == ASSUME IInv, Receive PROVE IInv'
<1>1. /\ worker # Idle /\ answer # "none" /\ CloseSocket
      /\ UNCHANGED <<apiVars, routerVars, faults>>
  BY DEF Receive
<1>2. answer \in {"ACK", "NAK"}
  BY <1>1 DEF IInv, TypeOK
<1>3. JobsStay /\ worker' \in Sending \cup {Idle} /\ WorkerSound'
  <2>1. CASE Works("fallback", 0, FALSE) /\ UNCHANGED jobs
    <3>1. JobsStay
      BY <2>1, JobsUnchanged DEF IInv
    <3>2. 0 < LimitOf("fallback") /\ 0 <= LimitOf("fallback")
      BY DeliveryAssumption DEF LimitOf
    <3>3. worker' \in Sending /\ WorkerSound'
      BY <1>1, <2>1, <3>1, <3>2, WorksStays
    <3>. QED  BY <3>1, <3>3
  <2>2. CASE End(CodeName)
    <3>1. CodeName \in Result
      BY DEF CodeName, Acknowledgement, Failure, Result
    <3>. QED  BY <1>1, <2>2, <3>1, EndStays, IdleStays
  <2>. QED  BY <2>1, <2>2 DEF Receive
<1>4. net' \subseteq Packet /\ NetSound' /\ answer' \in {"none", "ACK", "NAK"}
  BY <1>1, <1>3, SocketStays
<1>5. TypeOK'
  BY <1>1, <1>3, <1>4 DEF IInv, TypeOK, JobsStay, apiVars, routerVars
<1>. QED  BY <1>3, <1>4, <1>5 DEF IInv

LEMMA TimeoutStep == ASSUME IInv, Timeout PROVE IInv'
<1>1. /\ worker # Idle /\ CloseSocket /\ UNCHANGED <<apiVars, routerVars, faults>>
  BY DEF Timeout, TimeoutAfter
<1>2. worker \in Sending
  BY <1>1, WorkerIsBusy DEF IInv
<1>3. JobsStay /\ worker' \in Sending \cup {Idle} /\ WorkerSound'
  <2>1. CASE worker.tries < Limit /\ Works(worker.phase, worker.tries, FALSE) /\ UNCHANGED jobs
    <3>1. JobsStay
      BY <2>1, JobsUnchanged DEF IInv
    <3>2. worker.tries \in Nat /\ worker.phase \in {"coa", "disconnect", "fallback"}
      BY <1>2 DEF Sending
    <3>3. worker.tries < LimitOf(worker.phase) /\ worker.tries <= LimitOf(worker.phase)
      BY <2>1, <3>2, LimitIs
    <3>4. worker' \in Sending /\ WorkerSound'
      BY <1>1, <2>1, <3>1, <3>2, <3>3, WorksStays
    <3>. QED  BY <3>1, <3>4
  <2>2. CASE Exhausted("TIMEOUT")
    BY <1>1, <2>2, ExhaustedStays, IdleStays
  <2>. QED  BY <2>1, <2>2 DEF Timeout, TimeoutAfter
<1>4. net' \subseteq Packet /\ NetSound' /\ answer' \in {"none", "ACK", "NAK"}
  BY <1>1, <1>3, SocketStays
<1>5. TypeOK'
  BY <1>1, <1>3, <1>4 DEF IInv, TypeOK, JobsStay, apiVars, routerVars
<1>. QED  BY <1>3, <1>4, <1>5 DEF IInv

LEMMA SocketErrorStep == ASSUME IInv, SocketError PROVE IInv'
<1>1. /\ worker # Idle /\ ~worker.waiting /\ faults' = faults + 1 /\ faults < MaxFaults
      /\ UNCHANGED <<apiVars, net, answer, routerVars>>
  BY DEF SocketError
<1>2. worker \in Sending
  BY <1>1, WorkerIsBusy DEF IInv
<1>3. JobsStay /\ worker' \in Sending \cup {Idle} /\ WorkerSound'
  <2>1. CASE /\ worker.tries + 1 < Limit
             /\ Works(worker.phase, worker.tries + 1, FALSE) /\ UNCHANGED jobs
    <3>1. JobsStay
      BY <2>1, JobsUnchanged DEF IInv
    <3>2. worker.tries + 1 \in Nat /\ worker.phase \in {"coa", "disconnect", "fallback"}
      BY <1>2 DEF Sending
    <3>3. worker.tries + 1 < LimitOf(worker.phase) /\ worker.tries + 1 <= LimitOf(worker.phase)
      BY <2>1, <3>2, LimitIs
    <3>4. worker' \in Sending /\ WorkerSound'
      BY <1>1, <2>1, <3>1, <3>2, <3>3, WorksStays
    <3>. QED  BY <3>1, <3>4
  <2>2. CASE Exhausted("ERROR")
    BY <1>1, <2>2, ExhaustedStays, IdleStays
  <2>. QED  BY <2>1, <2>2 DEF SocketError
<1>4. NetSound'
  BY <1>1, <1>3, NetStays
<1>5. faults' \in 0..MaxFaults
  BY <1>1, DeliveryAssumption DEF IInv, TypeOK
<1>6. TypeOK'
  BY <1>1, <1>3, <1>5 DEF IInv, TypeOK, JobsStay, apiVars, routerVars
<1>. QED  BY <1>3, <1>4, <1>6 DEF IInv

LEMMA DieStep == ASSUME IInv, Die PROVE IInv'
<1>1. /\ worker' = Idle /\ CloseSocket /\ UNCHANGED <<apiVars, jobs, routerVars, faults>>
  BY DEF Die
<1>2. JobsStay /\ worker' \in Sending \cup {Idle} /\ WorkerSound'
  BY <1>1, JobsUnchanged, IdleStays DEF IInv
<1>3. net' \subseteq Packet /\ NetSound' /\ answer' \in {"none", "ACK", "NAK"}
  BY <1>1, <1>2, SocketStays
<1>4. TypeOK'
  BY <1>1, <1>2, <1>3 DEF IInv, TypeOK, JobsStay, apiVars, routerVars
<1>. QED  BY <1>2, <1>3, <1>4 DEF IInv

LEMMA RecoverStep == ASSUME IInv, NEW t \in JobIds, Recover(t) PROVE IInv'
<1>1. /\ jobs[t] # NoJob /\ worker = Idle
      /\ UNCHANGED <<apiVars, worker, net, answer, routerVars, faults>>
  BY DEF Recover
<1>2. jobs[t].attempts \in 0..(Attempts - 1)
  BY <1>1, JobIsThere DEF IInv, Job
<1>3. JobsStay
  <2>1. CASE Becomes(t, "waiting", jobs[t].attempts, 1, "none")
    BY <1>1, <1>2, <2>1, BecomesStays DEF IInv, Result
  <2>2. CASE Finishes(t, "failed", "STALLED")
    BY <1>1, <2>2, FinishesStays DEF IInv, Result
  <2>. QED  BY <2>1, <2>2 DEF Recover
<1>4. NetSound'
  BY <1>1, <1>3, NetStays
<1>5. WorkerSound'
  BY <1>1 DEF WorkerSound
<1>6. TypeOK'
  BY <1>1, <1>3 DEF IInv, TypeOK, JobsStay, apiVars, routerVars
<1>. QED  BY <1>4, <1>5, <1>6 DEF IInv

\* The network, the router and the accounting: jobs and worker stay as they are,
\* and datagrams only go.
LEMMA OutsideStep ==
  ASSUME IInv, UNCHANGED <<apiVars, jobs, worker>>, net' \subseteq net,
         answer' \in {"none", "ACK", "NAK"}, session' \in Sessions \cup {0},
         radacct' \subseteq Sessions, dialled' \in Sessions, faults' \in 0..MaxFaults
  PROVE  IInv'
<1>1. JobsStay
  BY JobsUnchanged DEF IInv
<1>2. NetSound'
  BY <1>1, NetStays
<1>3. WorkerSound'
  BY DEF IInv, WorkerSound, Limit
<1>4. TypeOK'
  BY DEF IInv, TypeOK, apiVars
<1>. QED  BY <1>2, <1>3, <1>4 DEF IInv

LEMMA NetworkStep ==
  ASSUME IInv, \/ \E p \in net : Lose(p) \/ Arrive(p)
               \/ Connect \/ HangUp \/ AccountingStart
               \/ \E s \in Sessions : AccountingStop(s)
  PROVE  IInv'
<1>1. /\ faults \in 0..MaxFaults /\ dialled \in 1..MaxSession /\ session \in Sessions \cup {0}
      /\ radacct \subseteq Sessions /\ answer \in {"none", "ACK", "NAK"}
  BY DEF IInv, TypeOK, Sessions
<1>2. ASSUME NEW p \in net, Lose(p) PROVE IInv'
  <2>1. faults' \in 0..MaxFaults
    BY <1>1, <1>2, DeliveryAssumption DEF Lose
  <2>. QED  BY <1>1, <1>2, <2>1, OutsideStep DEF Lose, apiVars, routerVars, IInv, TypeOK
<1>3. ASSUME NEW p \in net, Arrive(p) PROVE IInv'
  <2>1. session' \in Sessions \cup {0} /\ answer' \in {"none", "ACK", "NAK"}
    BY <1>1, <1>3 DEF Arrive, Accept, Refuse
  <2>2. faults' \in 0..MaxFaults
    BY <1>1, <1>3, DeliveryAssumption DEF Arrive, Accept, Refuse
  <2>. QED  BY <1>1, <1>3, <2>1, <2>2, OutsideStep DEF Arrive, apiVars, IInv, TypeOK
<1>4. CASE Connect
  <2>1. dialled' \in Sessions /\ session' \in Sessions
    BY <1>1, <1>4, DeliveryAssumption DEF Connect, Sessions
  <2>. QED  BY <1>1, <1>4, <2>1, OutsideStep DEF Connect, apiVars
<1>5. CASE HangUp
  BY <1>1, <1>5, OutsideStep DEF HangUp, apiVars, IInv, TypeOK
<1>6. CASE AccountingStart
  <2>1. radacct' \subseteq Sessions
    BY <1>1, <1>6 DEF AccountingStart
  <2>. QED  BY <1>1, <1>6, <2>1, OutsideStep DEF AccountingStart, apiVars, IInv, TypeOK
<1>7. ASSUME NEW s \in Sessions, AccountingStop(s) PROVE IInv'
  BY <1>1, <1>7, OutsideStep DEF AccountingStop, apiVars, IInv, TypeOK
<1>. QED  BY <1>2, <1>3, <1>4, <1>5, <1>6, <1>7

LEMMA Step == IInv /\ [Next]_vars => IInv'
<1>. SUFFICES ASSUME IInv, [Next]_vars PROVE IInv'
  OBVIOUS
<1>1. CASE UNCHANGED vars
  BY <1>1 DEF IInv, TypeOK, WorkerSound, NetSound, Limit, vars
<1>2. ASSUME NEW h \in Handlers, Handle(h) PROVE IInv'
  <2>1. CASE Suspend(h)
    BY <2>1, CommitStep DEF Suspend, JobType
  <2>2. CASE Reactivate(h)
    BY <2>2, CommitStep DEF Reactivate, JobType
  <2>3. CASE ChangeRate(h)
    BY <2>3, CommitStep DEF ChangeRate, JobType, IInv, TypeOK
  <2>4. CASE Kick(h)
    BY <2>4, CommitStep DEF Kick, JobType, IInv, TypeOK
  <2>5. CASE QueueCoaJob(h)
    BY <2>5, QueueCoaJobStep
  <2>. QED  BY <1>2, <2>1, <2>2, <2>3, <2>4, <2>5 DEF Handle
<1>3. CASE Work
  <2>1. ASSUME NEW t \in JobIds, Take(t) \/ Recover(t) PROVE IInv'
    BY <2>1, TakeStep, RecoverStep
  <2>. QED  BY <1>3, <2>1, SendStep, ReceiveStep, TimeoutStep DEF Work
<1>4. CASE SocketError \/ Die
  BY <1>4, SocketErrorStep, DieStep
<1>5. CASE \/ \E p \in net : Lose(p) \/ Arrive(p)
           \/ Connect \/ HangUp \/ AccountingStart
           \/ \E s \in Sessions : AccountingStop(s)
  BY <1>5, NetworkStep
<1>. QED  BY <1>1, <1>2, <1>3, <1>4, <1>5 DEF Next
-----------------------------------------------------------------------------
(* Theorems *)

\* The invariant holds in every state.
THEOREM Invariance == Spec => []IInv
<1>. QED  BY Initially, Step, PTL DEF Spec

\* Types, and with them the bounds of the retries: never more datagrams than
\* maxRetries + 1 for a request, nor attempts than the job was given.
THEOREM TypeCorrect == Spec => []TypeOK
<1>1. IInv => TypeOK
  BY DEF IInv
<1>. QED  BY <1>1, Invariance, PTL

\* Of any number of jobs, retried in any order by workers that may die, none ends
\* a session but the one that was found when it was made.
THEOREM SparesNewSession == Spec => LateRequestSparesNewSession
<1>1. ASSUME IInv, NEW p \in net, Arrive(p), session' # session, jobs[p.job].session # 0
      PROVE  session = jobs[p.job].session
  <2>1. p.session = jobs[p.job].session
    BY <1>1 DEF IInv, NetSound
  <2>2. session # 0 /\ p.session \in {0, session}
    BY <1>1 DEF Arrive, Accept, Refuse, Names
  <2>. QED  BY <1>1, <2>1, <2>2
<1>2. IInv => [\A p \in net : Arrive(p) /\ session' # session /\ jobs[p.job].session # 0
                 => session = jobs[p.job].session]_vars
  BY <1>1
<1>. QED  BY <1>2, Invariance, PTL DEF LateRequestSparesNewSession
-----------------------------------------------------------------------------
(* What an answer tells *)

\* The session that job t was made for, if one was found, is over.
Over(t) == jobs[t].session # 0 => session # jobs[t].session

\* Sessions are known only after they were opened, and are not opened twice.
SessionsPassed ==
  /\ session <= dialled
  /\ \A s \in radacct : s <= dialled
  /\ \A t \in JobIds : jobs[t] # NoJob => jobs[t].session <= dialled

\* Datagrams whose answer would be heard are those of the request under way.
AwaitedSound ==
  \A p \in net : p.awaited =>
    /\ worker # Idle /\ worker.waiting /\ p.job = worker.job
    /\ worker.phase # "coa" => p.type = "DISCONNECT"

\* The acknowledgement of a Disconnect, on its way to who waits for it, is true.
AnswerSound ==
  answer # "none" =>
    /\ worker # Idle /\ worker.waiting
    /\ answer = "ACK" /\ worker.phase # "coa" => Over(worker.job)

AnswerInv == SessionsPassed /\ AwaitedSound /\ AnswerSound /\ AcknowledgedIsEnded

\* Nobody listens for an answer.
Silent == answer = "none" /\ \A p \in net : ~p.awaited

LEMMA SilentUnlessWaiting ==
  ASSUME AnswerInv, worker = Idle \/ ~worker.waiting
  PROVE  Silent
  BY DEF AnswerInv, AwaitedSound, AnswerSound, Silent

LEMMA ClosedIsSilent == CloseSocket => Silent'
  BY DEF CloseSocket, Silent

\* Of the jobs only t changes, and has result then.
OneJob(t, result) ==
  /\ \A u \in JobIds \ {t} : jobs'[u] = jobs[u]
  /\ jobs'[t].type = jobs[t].type /\ jobs'[t].session = jobs[t].session
  /\ jobs'[t].result = result

LEMMA BecomesOne ==
  ASSUME TypeOK, NEW t \in JobIds, NEW state, NEW attempts, NEW stalls, NEW result,
         Becomes(t, state, attempts, stalls, result)
  PROVE  OneJob(t, result)
  BY DEF Becomes, OneJob, TypeOK

LEMMA EndOne ==
  ASSUME TypeOK, worker # Idle, worker.job \in JobIds, NEW result, End(result)
  PROVE  OneJob(worker.job, result) \/ OneJob(worker.job, "none")
  BY BecomesOne DEF End, Finishes

LEMMA WorkersJob ==
  ASSUME IInv, worker # Idle
  PROVE  worker.job \in JobIds /\ jobs[worker.job] # NoJob
  BY WorkerIsBusy DEF IInv, WorkerSound, Sending

\* A job gets a result: one that says a Disconnect was acknowledged only if it is true.
LEMMA ResultStep ==
  ASSUME AnswerInv, NEW t \in JobIds, jobs[t] # NoJob, NEW result, OneJob(t, result),
         UNCHANGED routerVars,
         result = "DISCONNECT_ACK" => Over(t)
  PROVE  SessionsPassed' /\ AcknowledgedIsEnded'
<1>1. SessionsPassed'
  BY DEF AnswerInv, SessionsPassed, OneJob, routerVars
<1>2. AcknowledgedIsEnded'
  BY DEF AnswerInv, AcknowledgedIsEnded, OneJob, routerVars, Over
<1>. QED  BY <1>1, <1>2

\* Jobs, sessions and accounting stay: what is known of them stays.
LEMMA KnownStays ==
  ASSUME AnswerInv, UNCHANGED <<jobs, routerVars>>
  PROVE  SessionsPassed' /\ AcknowledgedIsEnded'
  BY DEF AnswerInv, SessionsPassed, AcknowledgedIsEnded, routerVars

\* Nobody listens.
LEMMA SilentStep ==
  ASSUME Silent', SessionsPassed', AcknowledgedIsEnded'
  PROVE  AnswerInv'
  BY DEF Silent, AnswerInv, AwaitedSound, AnswerSound

\* The last try of a request fails: the result is not an acknowledgement.
LEMMA ExhaustedResult ==
  ASSUME IInv, AnswerInv, worker # Idle, UNCHANGED routerVars,
         NEW result \in {"TIMEOUT", "ERROR"}, Exhausted(result)
  PROVE  SessionsPassed' /\ AcknowledgedIsEnded'
<1>. DEFINE t == worker.job
            r == Failure(result)
<1>1. t \in JobIds /\ jobs[t] # NoJob
  BY WorkersJob
<1>2. OneJob(t, r) \/ OneJob(t, "none")
  BY <1>1, EndOne DEF Exhausted, IInv
<1>3. r # "DISCONNECT_ACK"
  BY DEF Failure
<1>. HIDE DEF r, t
<1>. QED  BY <1>1, <1>2, <1>3, ResultStep

LEMMA ReceiveAnswer == ASSUME IInv, AnswerInv, Receive PROVE AnswerInv'
<1>. DEFINE t == worker.job
            r == CodeName
<1>1. worker # Idle /\ answer # "none" /\ CloseSocket /\ UNCHANGED routerVars
  BY DEF Receive
<1>2. t \in JobIds /\ jobs[t] # NoJob
  BY <1>1, WorkersJob
<1>3. SessionsPassed' /\ AcknowledgedIsEnded'
  <2>1. CASE UNCHANGED jobs
    BY <1>1, <2>1, KnownStays DEF routerVars
  <2>2. CASE End(r)
    <3>1. OneJob(t, r) \/ OneJob(t, "none")
      BY <1>1, <1>2, <2>2, EndOne DEF IInv
    <3>2. r = "DISCONNECT_ACK" => Over(t)
      BY <1>1 DEF CodeName, Acknowledgement, Failure, AnswerInv, AnswerSound
    <3>. HIDE DEF r, t
    <3>. QED  BY <1>1, <1>2, <3>1, <3>2, ResultStep
  <2>. QED  BY <2>1, <2>2 DEF Receive
<1>. QED  BY <1>1, <1>3, ClosedIsSilent, SilentStep

LEMMA TimeoutAnswer == ASSUME IInv, AnswerInv, Timeout PROVE AnswerInv'
<1>1. worker # Idle /\ CloseSocket /\ UNCHANGED routerVars
  BY DEF Timeout, TimeoutAfter
<1>2. CASE Works(worker.phase, worker.tries, FALSE) /\ UNCHANGED jobs
  BY <1>1, <1>2, KnownStays, ClosedIsSilent, SilentStep DEF routerVars
<1>3. CASE Exhausted("TIMEOUT")
  BY <1>1, <1>3, ExhaustedResult, ClosedIsSilent, SilentStep
<1>. QED  BY <1>2, <1>3 DEF Timeout, TimeoutAfter

LEMMA SocketErrorAnswer == ASSUME IInv, AnswerInv, SocketError PROVE AnswerInv'
<1>1. worker # Idle /\ ~worker.waiting /\ UNCHANGED <<net, answer, routerVars>>
  BY DEF SocketError
<1>2. Silent'
  BY <1>1, SilentUnlessWaiting DEF Silent
<1>3. CASE Works(worker.phase, worker.tries + 1, FALSE) /\ UNCHANGED jobs
  BY <1>1, <1>2, <1>3, KnownStays, SilentStep DEF routerVars
<1>4. CASE Exhausted("ERROR")
  BY <1>1, <1>2, <1>4, ExhaustedResult, SilentStep
<1>. QED  BY <1>3, <1>4 DEF SocketError

LEMMA SendAnswer == ASSUME IInv, AnswerInv, Send PROVE AnswerInv'
<1>1. /\ worker # Idle /\ ~worker.waiting /\ Works(worker.phase, worker.tries + 1, TRUE)
      /\ net' = net \cup {Datagram} /\ UNCHANGED <<jobs, answer, routerVars>>
  BY DEF Send
<1>2. Silent
  BY <1>1, SilentUnlessWaiting
<1>3. /\ worker' # Idle /\ worker'.waiting /\ worker'.job = worker.job
      /\ worker'.phase = worker.phase
  <2>1. worker \in Sending
    BY <1>1, WorkerIsBusy DEF IInv
  <2>2. worker' = [job |-> worker.job, phase |-> worker.phase, tries |-> worker.tries + 1,
                   waiting |-> TRUE]
    BY <1>1 DEF Works
  <2>3. worker'.phase = worker.phase /\ worker.phase # "idle"
    BY <2>1, <2>2 DEF Sending
  <2>. QED  BY <2>2, <2>3 DEF Idle
<1>4. /\ Datagram.job = worker.job
      /\ worker.phase # "coa" => Datagram.type = "DISCONNECT"
  BY DEF Datagram, Request
<1>5. AwaitedSound'
  BY <1>1, <1>2, <1>3, <1>4 DEF AwaitedSound, Silent
<1>6. AnswerSound'
  BY <1>1, <1>2 DEF AnswerSound, Silent
<1>7. SessionsPassed' /\ AcknowledgedIsEnded'
  BY <1>1, KnownStays DEF routerVars
<1>. QED  BY <1>5, <1>6, <1>7 DEF AnswerInv

LEMMA TakeAnswer == ASSUME IInv, AnswerInv, NEW t \in JobIds, Take(t) PROVE AnswerInv'
<1>1. /\ worker = Idle /\ jobs[t] # NoJob
      /\ Becomes(t, "active", jobs[t].attempts, jobs[t].stalls, "none")
      /\ UNCHANGED <<net, answer, routerVars>>
      /\ worker'.waiting = FALSE
  BY DEF Take, Waiting
<1>2. OneJob(t, "none")
  BY <1>1, BecomesOne DEF IInv
<1>3. SessionsPassed' /\ AcknowledgedIsEnded'
  BY <1>1, <1>2, ResultStep
<1>4. Silent'
  BY <1>1, SilentUnlessWaiting DEF Silent
<1>. QED  BY <1>3, <1>4, SilentStep

LEMMA RecoverAnswer == ASSUME IInv, AnswerInv, NEW t \in JobIds, Recover(t) PROVE AnswerInv'
<1>1. /\ worker = Idle /\ jobs[t] # NoJob /\ UNCHANGED <<worker, net, answer, routerVars>>
  BY DEF Recover
<1>2. OneJob(t, "none") \/ OneJob(t, "STALLED")
  BY BecomesOne DEF Recover, Finishes, IInv
<1>3. SessionsPassed' /\ AcknowledgedIsEnded'
  BY <1>1, <1>2, ResultStep
<1>4. Silent'
  BY <1>1, SilentUnlessWaiting DEF Silent
<1>. QED  BY <1>3, <1>4, SilentStep

LEMMA DieAnswer == ASSUME IInv, AnswerInv, Die PROVE AnswerInv'
<1>1. worker' = Idle /\ CloseSocket /\ UNCHANGED <<jobs, routerVars>>
  BY DEF Die
<1>. QED  BY <1>1, KnownStays, ClosedIsSilent, SilentStep

\* The session of a new job is one that has been seen; it has no result.
LEMMA QueueAnswer == ASSUME IInv, AnswerInv, NEW h \in Handlers, QueueCoaJob(h) PROVE AnswerInv'
<1>1. UNCHANGED <<worker, net, answer, routerVars>>
  BY DEF QueueCoaJob, routerVars
<1>2. CASE UNCHANGED jobs
  BY <1>1, <1>2 DEF AnswerInv, SessionsPassed, AwaitedSound, AnswerSound, Over,
                    AcknowledgedIsEnded, routerVars
<1>3. ASSUME NEW t \in JobIds, NEW s \in Sessions \cup {0}, jobs[t] = NoJob,
             Newest(s) \/ s = 0, jobs' = [jobs EXCEPT ![t] = NewJob(handler[h].type, s)]
      PROVE  AnswerInv'
  <2>1. dialled \in Nat /\ s <= dialled
    BY <1>3 DEF IInv, TypeOK, Sessions, AnswerInv, SessionsPassed, Newest
  <2>2. /\ jobs'[t].session = s /\ jobs'[t].result = "none"
        /\ \A u \in JobIds \ {t} : jobs'[u] = jobs[u]
    BY <1>3 DEF IInv, TypeOK, NewJob
  <2>3. SessionsPassed'
    BY <1>1, <2>1, <2>2 DEF AnswerInv, SessionsPassed, routerVars
  <2>4. AcknowledgedIsEnded'
    BY <1>1, <2>2 DEF AnswerInv, AcknowledgedIsEnded, routerVars
  <2>5. worker # Idle => worker.job \in JobIds \ {t}
    BY <1>3, WorkersJob
  <2>6. AwaitedSound' /\ AnswerSound'
    BY <1>1, <2>2, <2>5 DEF AnswerInv, AwaitedSound, AnswerSound, Over, routerVars
  <2>. QED  BY <2>3, <2>4, <2>6 DEF AnswerInv
<1>. QED  BY <1>2, <1>3 DEF QueueCoaJob

\* The live session goes, or is followed by one that was never there.
SessionMoves ==
  /\ dialled' \in {dialled, dialled + 1}
  /\ \/ session' \in {session, 0}
     \/ session' = dialled' /\ dialled' = dialled + 1

LEMMA MovesStep ==
  ASSUME IInv, AnswerInv, SessionMoves, UNCHANGED <<jobs, worker>>,
         \A s \in radacct' : s \in radacct \/ s = session
  PROVE  /\ SessionsPassed' /\ AcknowledgedIsEnded'
         /\ \A t \in JobIds : jobs[t] # NoJob /\ Over(t) => Over(t)'
<1>1. /\ dialled \in Nat /\ session \in Nat
      /\ \A s \in radacct : s \in Nat
      /\ \A t \in JobIds : jobs[t] # NoJob => jobs[t].session \in Nat
  <2>1. ASSUME NEW t \in JobIds, jobs[t] # NoJob
        PROVE  jobs[t].session \in Nat
    BY <2>1, JobIsThere DEF IInv, Job, Sessions
  <2>. QED  BY <2>1 DEF IInv, TypeOK, Sessions
<1>2. SessionsPassed'
  BY <1>1 DEF AnswerInv, SessionsPassed, SessionMoves
<1>3. \A t \in JobIds : jobs[t] # NoJob /\ Over(t) => Over(t)'
  BY <1>1 DEF AnswerInv, SessionsPassed, SessionMoves, Over
<1>4. AcknowledgedIsEnded'
  BY <1>3 DEF AnswerInv, AcknowledgedIsEnded, Over
<1>. QED  BY <1>2, <1>3, <1>4

\* Nothing arrives: datagrams may go, the answer on its way stays.
LEMMA ElsewhereStep ==
  ASSUME IInv, AnswerInv, SessionMoves, UNCHANGED <<jobs, worker, answer>>, net' \subseteq net,
         \A s \in radacct' : s \in radacct \/ s = session
  PROVE  AnswerInv'
<1>1. /\ SessionsPassed' /\ AcknowledgedIsEnded'
      /\ \A t \in JobIds : jobs[t] # NoJob /\ Over(t) => Over(t)'
  BY MovesStep
<1>2. AwaitedSound'
  BY DEF AnswerInv, AwaitedSound
<1>3. AnswerSound'
  BY <1>1, WorkersJob DEF AnswerInv, AnswerSound
<1>. QED  BY <1>1, <1>2, <1>3 DEF AnswerInv

\* A router that acknowledges a Disconnect has ended the session; one that refuses it
\* says nothing.
LEMMA ArriveAnswer == ASSUME IInv, AnswerInv, NEW p \in net, Arrive(p) PROVE AnswerInv'
<1>1. net' \subseteq net /\ UNCHANGED <<jobs, worker, radacct, dialled>>
  BY DEF Arrive
<1>2. /\ SessionsPassed' /\ AcknowledgedIsEnded'
      /\ \A t \in JobIds : jobs[t] # NoJob /\ Over(t) => Over(t)'
  <2>1. SessionMoves
    BY <1>1 DEF Arrive, Accept, Refuse, SessionMoves
  <2>. QED  BY <1>1, <2>1, MovesStep
<1>3. AwaitedSound'
  BY <1>1 DEF AnswerInv, AwaitedSound
<1>4. AnswerSound'
  <2>1. CASE answer' = answer
    BY <1>1, <1>2, <2>1, WorkersJob DEF AnswerInv, AnswerSound
  <2>2. CASE answer' # answer
    <3>1. p.awaited
      BY <2>2 DEF Arrive, Accept, Refuse
    <3>2. /\ worker # Idle /\ worker.waiting /\ p.job = worker.job
          /\ worker.phase # "coa" => p.type = "DISCONNECT"
      BY <3>1 DEF AnswerInv, AwaitedSound
    <3>3. answer' = "ACK" /\ p.type = "DISCONNECT" => session' = 0
      BY <2>2 DEF Arrive, Accept, Refuse
    <3>4. answer' = "ACK" /\ worker.phase # "coa" => Over(worker.job)'
      BY <1>1, <3>2, <3>3 DEF Over
    <3>. QED  BY <1>1, <3>2, <3>4 DEF AnswerSound
  <2>. QED  BY <2>1, <2>2
<1>. QED  BY <1>2, <1>3, <1>4 DEF AnswerInv

LEMMA NetworkAnswer ==
  ASSUME IInv, AnswerInv,
         \/ \E p \in net : Lose(p)
         \/ Connect \/ HangUp \/ AccountingStart
         \/ \E s \in Sessions : AccountingStop(s)
  PROVE  AnswerInv'
<1>1. ASSUME NEW p \in net, Lose(p) PROVE AnswerInv'
  BY <1>1, ElsewhereStep DEF Lose, routerVars, SessionMoves
<1>2. CASE Connect
  BY <1>2, ElsewhereStep DEF Connect, SessionMoves
<1>3. CASE HangUp
  BY <1>3, ElsewhereStep DEF HangUp, SessionMoves
<1>4. CASE AccountingStart
  BY <1>4, ElsewhereStep DEF AccountingStart, SessionMoves
<1>5. ASSUME NEW s \in Sessions, AccountingStop(s) PROVE AnswerInv'
  BY <1>5, ElsewhereStep DEF AccountingStop, SessionMoves
<1>. QED  BY <1>1, <1>2, <1>3, <1>4, <1>5

LEMMA AnswerStep == IInv /\ AnswerInv /\ [Next]_vars => AnswerInv'
<1>. SUFFICES ASSUME IInv, AnswerInv, [Next]_vars PROVE AnswerInv'
  OBVIOUS
<1>1. UNCHANGED <<jobs, worker, net, answer, session, radacct, dialled>> => AnswerInv'
  BY DEF AnswerInv, SessionsPassed, AwaitedSound, AnswerSound, Over, AcknowledgedIsEnded
<1>2. CASE UNCHANGED vars
  BY <1>1, <1>2 DEF vars
<1>3. ASSUME NEW h \in Handlers, Handle(h) PROVE AnswerInv'
  BY <1>1, <1>3, QueueAnswer DEF Handle, Suspend, Reactivate, ChangeRate, Kick, Commit
<1>4. CASE Work
  <2>1. ASSUME NEW t \in JobIds, Take(t) \/ Recover(t) PROVE AnswerInv'
    BY <2>1, TakeAnswer, RecoverAnswer
  <2>. QED  BY <1>4, <2>1, SendAnswer, ReceiveAnswer, TimeoutAnswer DEF Work
<1>5. CASE SocketError \/ Die
  BY <1>5, SocketErrorAnswer, DieAnswer
<1>6. ASSUME NEW p \in net, Arrive(p) PROVE AnswerInv'
  BY <1>6, ArriveAnswer
<1>7. CASE \/ \E p \in net : Lose(p)
           \/ Connect \/ HangUp \/ AccountingStart
           \/ \E s \in Sessions : AccountingStop(s)
  BY <1>7, NetworkAnswer
<1>. QED  BY <1>2, <1>3, <1>4, <1>5, <1>6, <1>7 DEF Next

\* However datagrams and answers are lost, late, repeated or refused, and however
\* often the worker dies and the job is tried again: once a job ends with an
\* acknowledged Disconnect, the session it was made for is over.
THEOREM AcknowledgedEnds == Spec => []AcknowledgedIsEnded
<1>1. Init => AnswerInv
  BY DEF Init, AnswerInv, SessionsPassed, AwaitedSound, AnswerSound, AcknowledgedIsEnded
<1>2. AnswerInv => AcknowledgedIsEnded
  BY DEF AnswerInv
<1>. QED  BY <1>1, <1>2, AnswerStep, Invariance, PTL DEF Spec
=============================================================================
