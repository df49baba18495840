--------------------------- MODULE RouterSession ---------------------------
(***************************************************************************)
(* The connections RouterOsBinaryClient keeps to the API port of one       *)
(* router: a cache with one session, the promise of a connection that is   *)
(* being made, the queue of command batches of a session, the timer that   *)
(* closes an idle session, and batches that run on a socket of their own   *)
(* because their caller names no router.                                   *)
(*                                                                         *)
(* The answers of RouterOS carry no tag: what comes next on a socket is    *)
(* taken for the answer to what the batch at the head of the queue sent.   *)
(* JavaScript runs one callback at a time; a step here is one callback     *)
(* with the promise continuations it sets off.                             *)
(***************************************************************************)
EXTENDS Naturals, Sequences

CONSTANTS
  Callers,      \* requests, each with one batch of commands
  MaxSockets,   \* bound: sockets opened
  BatchSize     \* commands in a batch

ASSUME SessionAssumption == MaxSockets \in Nat \ {0} /\ BatchSize \in Nat \ {0}

VARIABLES
  socket,   \* the sockets in the order they were opened
  cache,    \* sessionCache of the router: a socket, or 0
  inflight, \* connectingSessions: the socket being connected, or 0
  caller,   \* what each request is waiting for, and the answers it has got
  down      \* onModuleDestroy has run

sessionVars == <<socket, cache, inflight, caller, down>>

Sockets == 1..MaxSockets

Socket ==
  [state  : {"unused", "connecting", "open", "closed"},
   shared : BOOLEAN,        \* belongs to the cache
   armed  : BOOLEAN,        \* the idle timer runs
   queue  : Seq(Callers),   \* commandQueue, or those who wait for the connection
   wire   : Seq(Callers)]   \* senders of the commands that are not answered yet

Unused == [state |-> "unused", shared |-> TRUE, armed |-> FALSE, queue |-> <<>>, wire |-> <<>>]

Unsettled == {"connecting", "queued"}

Caller ==
  [pc : {"idle", "ok", "failed"} \cup Unsettled,
   answers : Seq(Callers)]   \* by whose command

SessionTypeOK ==
  /\ socket \in [Sockets -> Socket]
  /\ cache \in Sockets \cup {0}
  /\ inflight \in Sockets \cup {0}
  /\ caller \in [Callers -> Caller]
  /\ \A c \in Callers : Len(caller[c].answers) <= BatchSize
  /\ down \in BOOLEAN

SessionInit ==
  /\ socket = [s \in Sockets |-> Unused]
  /\ cache = 0 /\ inflight = 0
  /\ caller = [c \in Callers |-> [pc |-> "idle", answers |-> <<>>]]
  /\ down = FALSE
-----------------------------------------------------------------------------
\* Socket k, which is shared or not for good.
With(k, state, armed, queue, wire) ==
  [state |-> state, shared |-> k.shared, armed |-> armed, queue |-> queue, wire |-> wire]

\* The batch at the head of the queue gets the socket, and writes its first command.
Dispatch(k, state, queue, wire) ==
  IF queue = <<>> THEN With(k, state, k.shared, queue, wire)
  ELSE With(k, state, FALSE, queue, Append(wire, Head(queue)))

Closed(k) == With(k, "closed", FALSE, <<>>, <<>>)

Joined(k, c) == With(k, k.state, k.armed, Append(k.queue, c), k.wire)

Queued(s) == {c \in Callers : \E i \in DOMAIN socket[s].queue : socket[s].queue[i] = c}

Settle(cs, pc) ==
  caller' = [c \in Callers |-> IF c \in cs THEN [pc |-> pc, answers |-> caller[c].answers]
                                          ELSE caller[c]]

\* handleSessionError, closeIdleSession: closed, out of the cache if it is the one
\* there.  The batches behind the one that failed find the socket closed and fail.
Close(s) ==
  /\ socket' = [socket EXCEPT ![s] = Closed(socket[s])]
  /\ cache' = IF cache = s THEN 0 ELSE cache

IsNext(s) == socket[s] = Unused /\ \A t \in 1..(s - 1) : socket[t] # Unused

Open(s, c, shared) ==
  /\ IsNext(s)
  /\ socket' = [socket EXCEPT ![s] =
       [state |-> "connecting", shared |-> shared, armed |-> FALSE,
        queue |-> <<c>>, wire |-> <<>>]]

Wait(c, pc) ==
  /\ caller[c].pc = "idle"
  /\ Settle({c}, pc)

\* getOrCreateSession finds a session in the cache ...
CallCached(c) ==
  /\ Wait(c, "queued")
  /\ cache # 0
  /\ LET k == socket[cache]
     IN socket' = [socket EXCEPT ![cache] =
          IF k.queue = <<>> THEN Dispatch(k, k.state, <<c>>, k.wire) ELSE Joined(k, c)]
  /\ UNCHANGED <<cache, inflight, down>>

\* ... or a connection that is being made ...
CallInFlight(c) ==
  /\ Wait(c, "connecting")
  /\ cache = 0 /\ inflight # 0
  /\ socket' = [socket EXCEPT ![inflight] = Joined(socket[inflight], c)]
  /\ UNCHANGED <<cache, inflight, down>>

\* Variant with a fault: a connection that is being made is not looked for.
CallOpensTwice(c) ==
  /\ Wait(c, "connecting")
  /\ cache = 0
  /\ \E s \in Sockets : Open(s, c, TRUE) /\ inflight' = s
  /\ UNCHANGED <<cache, down>>

\* ... or opens one.
CallOpens(c) ==
  /\ Wait(c, "connecting")
  /\ cache = 0 /\ inflight = 0
  /\ \E s \in Sockets : Open(s, c, TRUE) /\ inflight' = s
  /\ UNCHANGED <<cache, down>>

\* executeStatelessCommands: the caller did not say which router it is.
CallOnce(c) ==
  /\ Wait(c, "connecting")
  /\ \E s \in Sockets : Open(s, c, FALSE)
  /\ UNCHANGED <<cache, inflight, down>>

\* The login is answered.  The entry of the promise is deleted by its key.
Authenticate(s) ==
  /\ socket[s].state = "connecting"
  /\ socket' = [socket EXCEPT ![s] =
       Dispatch(socket[s], "open", socket[s].queue, socket[s].wire)]
  /\ IF socket[s].shared THEN cache' = s /\ inflight' = 0 ELSE UNCHANGED <<cache, inflight>>
  /\ Settle(Queued(s), "queued")
  /\ UNCHANGED down

\* Refused, closed by the router, or not answered within timeoutMs.
ConnectFails(s) ==
  /\ socket[s].state = "connecting"
  /\ Close(s)
  /\ inflight' = IF socket[s].shared THEN 0 ELSE inflight
  /\ Settle(Queued(s), "failed")
  /\ UNCHANGED down

\* The batch at the head goes on, or the one behind it begins.
GoesOn(k) == With(k, k.state, k.armed, k.queue, Append(Tail(k.wire), Head(k.queue)))

HandOver(k) == Dispatch(k, k.state, Tail(k.queue), Tail(k.wire))

\* Variant with a fault: the idle timer is not started again after a batch.
TookUnarmed(k, answers) ==
  IF Len(answers) < BatchSize THEN GoesOn(k)
  ELSE IF ~k.shared THEN Closed(k)
  ELSE IF Len(k.queue) = 1 THEN With(k, k.state, k.armed, <<>>, Tail(k.wire))
  ELSE HandOver(k)

\* Variant with a fault: the batch goes on one command too far.
TookOneMore(k, answers) ==
  IF Len(answers) <= BatchSize THEN GoesOn(k) ELSE HandOver(k)

Took(k, answers) ==
  IF Len(answers) < BatchSize THEN GoesOn(k)
  ELSE IF k.shared THEN HandOver(k) ELSE Closed(k)

\* The answer to a command is complete (!done): the batch goes on with its next
\* command, or is done and the socket is handed to the batch behind it.
Answer(s) ==
  LET c == Head(socket[s].queue)
      answers == Append(caller[c].answers, Head(socket[s].wire))
  IN /\ socket[s].state = "open" /\ socket[s].queue # <<>> /\ socket[s].wire # <<>>
     /\ socket' = [socket EXCEPT ![s] = Took(socket[s], answers)]
     /\ caller' = [caller EXCEPT ![c] =
          [pc |-> IF Len(answers) = BatchSize THEN "ok" ELSE "queued", answers |-> answers]]
     /\ UNCHANGED <<cache, inflight, down>>

\* The socket fails, or RouterOS says !fatal or something that does not parse.
SocketFails(s) ==
  /\ socket[s].state = "open"
  /\ Close(s)
  /\ Settle(Queued(s), "failed")
  /\ UNCHANGED <<inflight, down>>

\* Variant with a fault: the batch that ran out of time fails and leaves the
\* socket to the next.
TimeoutKeepsSocket(s) ==
  /\ socket[s].state \in {"open", "closed"} /\ socket[s].queue # <<>>
  /\ socket' = [socket EXCEPT ![s] =
       Dispatch(socket[s], socket[s].state, Tail(socket[s].queue), socket[s].wire)]
  /\ Settle({Head(socket[s].queue)}, "failed")
  /\ UNCHANGED <<cache, inflight, down>>

\* Variant with a fault: only the batch that ran out of time is told.
TimeoutTellsOne(s) ==
  /\ socket[s].state \in {"open", "closed"} /\ socket[s].queue # <<>>
  /\ Close(s)
  /\ Settle({Head(socket[s].queue)}, "failed")
  /\ UNCHANGED <<inflight, down>>

\* A batch gets no answer within timeoutMs; its socket is given up with it.
CommandTimeout(s) ==
  /\ socket[s].state \in {"open", "closed"} /\ socket[s].queue # <<>>
  /\ Close(s)
  /\ Settle(Queued(s), "failed")
  /\ UNCHANGED <<inflight, down>>

IdleTimeout(s) ==
  /\ socket[s].state = "open" /\ socket[s].armed
  /\ Close(s)
  /\ UNCHANGED <<inflight, caller, down>>

\* clearCache: a batch that runs is not told, and waits for its own timer.
OnModuleDestroy ==
  /\ ~down
  /\ down' = TRUE
  /\ socket' = [s \in Sockets |->
       IF s = cache THEN With(socket[s], "closed", FALSE, socket[s].queue, <<>>)
       ELSE socket[s]]
  /\ cache' = 0 /\ inflight' = 0
  /\ UNCHANGED caller
-----------------------------------------------------------------------------
Call(c) == CallCached(c) \/ CallInFlight(c) \/ CallOpens(c) \/ CallOnce(c)

SessionNext ==
  \/ \E c \in Callers : Call(c)
  \/ \E s \in Sockets :
       \/ Authenticate(s) \/ ConnectFails(s) \/ Answer(s)
       \/ SocketFails(s) \/ CommandTimeout(s) \/ IdleTimeout(s)
  \/ OnModuleDestroy

SessionSpec == SessionInit /\ [][SessionNext]_sessionVars

\* Node fires the timers that were set: of the connection, of the batch, of the
\* idle session.
SessionFairness ==
  \A s \in Sockets :
    /\ WF_sessionVars(Authenticate(s) \/ ConnectFails(s))
    /\ WF_sessionVars(Answer(s) \/ CommandTimeout(s))
    /\ WF_sessionVars(IdleTimeout(s))
-----------------------------------------------------------------------------
(* Properties *)

\* A batch gets the answers to its own commands, in full if it succeeds: answers
\* that come late do not reach the batch that uses the connection next.
AnswersAreOwn ==
  \A c \in Callers :
    /\ \A i \in DOMAIN caller[c].answers : caller[c].answers[i] = c
    /\ caller[c].pc = "ok" => Len(caller[c].answers) = BatchSize

\* The client holds one connection to a router at a time, made or being made,
\* however many requests ask for it at once (until the module is destroyed).
Held == {s \in Sockets : socket[s].shared /\ socket[s].state \in {"connecting", "open"}}

OneConnection == ~down => \A s, t \in Held : s = t

\* Nobody is forgotten: a request that waits for a connection is in the queue of one
\* that is being made, a request that waits for its turn or its answer is in the
\* queue of a socket whose batch has its timer, and a socket that is open is in use
\* or has its idle timer, whatever else fails, is closed or is destroyed meanwhile.
NobodyIsForgotten ==
  /\ \A c \in Callers :
       caller[c].pc \in Unsettled =>
         \E s \in Sockets :
           /\ c \in Queued(s)
           /\ socket[s].state \in IF caller[c].pc = "connecting" THEN {"connecting"}
                                                              ELSE {"open", "closed"}
  /\ \A s \in Sockets :
       socket[s].state = "open" => socket[s].armed \/ socket[s].queue # <<>>

\* Every request is answered: none waits for a connection or for its turn behind
\* a batch that never ends, even if the module is destroyed meanwhile.
EveryCallSettles ==
  \A c \in Callers : (caller[c].pc \in Unsettled) ~> (caller[c].pc \in {"ok", "failed"})

\* No socket stays open: also those that the cache has lost are closed.
SocketsAreReleased == \A s \in Sockets : (socket[s].state = "open") ~> (socket[s].state = "closed")
=============================================================================
