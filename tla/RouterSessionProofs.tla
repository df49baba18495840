------------------------ MODULE RouterSessionProofs ------------------------
(***************************************************************************)
(* Proofs about RouterSession: for any number of requests, sockets and     *)
(* commands in a batch, a batch gets its own answers, all of them if it    *)
(* succeeds, one connection to the router is held, and no request is lost  *)
(* from the queues it waits in.                                            *)
(***************************************************************************)
EXTENDS RouterSession, TLAPS

\* A command on the wire is one of the batch at the head of the queue, and it is
\* the only one; before the login is answered there is none.
WireSound(k) ==
  /\ k.wire = <<>> \/ (k.queue # <<>> /\ k.wire = <<Head(k.queue)>>)
  /\ k.state = "connecting" => k.wire = <<>>

WiresSound == \A s \in Sockets : WireSound(socket[s])

\* A request is in one place of one queue at most ...
OnePlace ==
  \A s, t \in Sockets :
    \A i \in DOMAIN socket[s].queue, j \in DOMAIN socket[t].queue :
      socket[s].queue[i] = socket[t].queue[j] => s = t /\ i = j

\* ... and is there only while its batch is not done.
Runs(d) == d.pc \in Unsettled /\ Len(d.answers) < BatchSize

QueuedRun ==
  \A s \in Sockets : \A i \in DOMAIN socket[s].queue : Runs(caller[socket[s].queue[i]])

IdleHaveNone == \A c \in Callers : caller[c].pc = "idle" => caller[c].answers = <<>>

\* The cache has an open connection, the promise one that is being made.
CacheSound ==
  /\ cache # 0 => socket[cache].state = "open" /\ socket[cache].shared
  /\ inflight # 0 => socket[inflight].state = "connecting" /\ socket[inflight].shared

\* What the client holds it knows of.
HeldIsKnown ==
  ~down =>
    /\ \A s \in Held : IF socket[s].state = "open" THEN cache = s ELSE inflight = s
    /\ cache = 0 \/ inflight = 0

QueuesSound == WiresSound /\ OnePlace /\ QueuedRun

CallersSound == AnswersAreOwn /\ IdleHaveNone

IInv == SessionTypeOK /\ QueuesSound /\ CallersSound /\ CacheSound /\ HeldIsKnown
-----------------------------------------------------------------------------
LEMMA Initially == SessionInit => IInv
<1>. SUFFICES ASSUME SessionInit PROVE IInv
  OBVIOUS
<1>1. Unused \in Socket
  BY DEF Unused, Socket
<1>2. \A c \in Callers : caller[c].pc = "idle" /\ caller[c].answers = <<>>
  BY DEF SessionInit
<1>3. \A s \in Sockets : socket[s].state = "unused" /\ socket[s].queue = <<>> /\ socket[s].wire = <<>>
  BY DEF SessionInit, Unused
<1>4. SessionTypeOK
  <2>1. [pc |-> "idle", answers |-> <<>>] \in Caller
    BY DEF Caller
  <2>2. Len(<<>>) <= BatchSize
    BY SessionAssumption
  <2>3. \A c \in Callers : Len(caller[c].answers) <= BatchSize
    BY <1>2, <2>2
  <2>. QED  BY <1>1, <2>1, <2>3 DEF SessionInit, SessionTypeOK
<1>5. QueuesSound
  BY <1>3 DEF QueuesSound, WiresSound, WireSound, OnePlace, QueuedRun
<1>6. CallersSound
  BY <1>2 DEF CallersSound, AnswersAreOwn, IdleHaveNone
<1>7. CacheSound /\ HeldIsKnown
  BY <1>3 DEF SessionInit, CacheSound, HeldIsKnown, Held
<1>. QED  BY <1>4, <1>5, <1>6, <1>7 DEF IInv

\* One socket changes.
LEMMA SocketBecomes ==
  ASSUME SessionTypeOK, NEW s \in Sockets, NEW k \in Socket, socket' = [socket EXCEPT ![s] = k]
  PROVE  /\ socket' \in [Sockets -> Socket] /\ socket'[s] = k
         /\ \A t \in Sockets \ {s} : socket'[t] = socket[t]
  BY DEF SessionTypeOK

LEMMA SocketTyped ==
  ASSUME SessionTypeOK, NEW s \in Sockets
  PROVE  /\ socket[s] \in Socket /\ socket[s].queue \in Seq(Callers)
         /\ socket[s].wire \in Seq(Callers) /\ socket[s].shared \in BOOLEAN
         /\ socket[s].armed \in BOOLEAN
         /\ socket[s].state \in {"unused", "connecting", "open", "closed"}
  BY DEF SessionTypeOK, Socket

LEMMA Settles ==
  ASSUME SessionTypeOK, NEW cs \in SUBSET Callers,
         NEW pc \in {"ok", "failed"} \cup Unsettled, Settle(cs, pc)
  PROVE  /\ caller' \in [Callers -> Caller]
         /\ \A c \in Callers : caller'[c].answers = caller[c].answers
         /\ \A c \in cs : caller'[c].pc = pc
         /\ \A c \in Callers \ cs : caller'[c] = caller[c]
<1>1. \A c \in Callers : caller[c] \in Caller /\ caller[c].answers \in Seq(Callers)
  BY DEF SessionTypeOK, Caller
<1>2. ASSUME NEW c \in cs
      PROVE  /\ caller'[c] \in Caller /\ caller'[c].pc = pc
             /\ caller'[c].answers = caller[c].answers
  BY <1>1 DEF Settle, Caller
<1>. QED  BY <1>1, <1>2 DEF Settle

\* Callers who are told that they wait or have failed keep their answers.
LEMMA SettledSound ==
  ASSUME SessionTypeOK, CallersSound, NEW cs \in SUBSET Callers,
         NEW pc \in {"failed"} \cup Unsettled, Settle(cs, pc)
  PROVE  CallersSound' /\ \A c \in Callers : Len(caller'[c].answers) <= BatchSize
<1>1. /\ \A c \in Callers : caller'[c].answers = caller[c].answers
      /\ \A c \in cs : caller'[c].pc = pc
      /\ \A c \in Callers \ cs : caller'[c] = caller[c]
  BY Settles
<1>2. pc # "ok" /\ pc # "idle"
  BY DEF Unsettled
<1>3. AnswersAreOwn'
  BY <1>1, <1>2 DEF CallersSound, AnswersAreOwn
<1>4. IdleHaveNone'
  BY <1>1, <1>2 DEF CallersSound, IdleHaveNone
<1>. QED  BY <1>1, <1>3, <1>4 DEF CallersSound, SessionTypeOK
-----------------------------------------------------------------------------
(* A socket is closed *)

LEMMA CloseQueues ==
  ASSUME IInv, NEW s \in Sockets, Close(s),
         \A c \in Callers \ Queued(s) : caller'[c] = caller[c]
  PROVE  /\ socket' \in [Sockets -> Socket] /\ QueuesSound'
         /\ socket'[s].state = "closed"
         /\ \A t \in Sockets \ {s} : socket'[t] = socket[t]
<1>. DEFINE k == Closed(socket[s])
<1>1. k \in Socket /\ k.queue = <<>> /\ k.wire = <<>> /\ k.state = "closed"
  BY SocketTyped DEF Closed, With, Socket, IInv
<1>2. socket' = [socket EXCEPT ![s] = k]
  BY DEF Close
<1>. HIDE DEF k
<1>3. /\ socket' \in [Sockets -> Socket] /\ socket'[s] = k
      /\ \A t \in Sockets \ {s} : socket'[t] = socket[t]
  BY <1>1, <1>2, SocketBecomes DEF IInv
<1>4. WiresSound' /\ OnePlace'
  BY <1>1, <1>3 DEF IInv, QueuesSound, WiresSound, WireSound, OnePlace
<1>5. QueuedRun'
  <2>. SUFFICES ASSUME NEW t \in Sockets \ {s}, NEW i \in DOMAIN socket[t].queue
                PROVE  Runs(caller'[socket[t].queue[i]])
    BY <1>1, <1>3 DEF QueuedRun
  <2>1. socket[t].queue[i] \in Callers
    BY SocketTyped DEF IInv
  <2>2. socket[t].queue[i] \notin Queued(s)
    BY DEF Queued, IInv, QueuesSound, OnePlace
  <2>3. Runs(caller[socket[t].queue[i]])
    BY DEF IInv, QueuesSound, QueuedRun
  <2>4. socket'[t] = socket[t]
    BY <1>3
  <2>. QED  BY <2>1, <2>2, <2>3, <2>4
<1>. QED  BY <1>1, <1>3, <1>4, <1>5 DEF QueuesSound

LEMMA CloseStep ==
  ASSUME IInv, NEW s \in Sockets, Close(s), UNCHANGED down,
         inflight' = (IF socket[s].state = "connecting" /\ socket[s].shared THEN 0 ELSE inflight),
         \/ Settle(Queued(s), "failed")
         \/ UNCHANGED caller
  PROVE  IInv'
<1>1. /\ caller' \in [Callers -> Caller] /\ CallersSound'
      /\ \A c \in Callers : Len(caller'[c].answers) <= BatchSize
      /\ \A c \in Callers \ Queued(s) : caller'[c] = caller[c]
  <2>1. CASE Settle(Queued(s), "failed")
    BY <2>1, Settles, SettledSound DEF IInv, Queued
  <2>2. CASE UNCHANGED caller
    BY <2>2 DEF IInv, SessionTypeOK, CallersSound, AnswersAreOwn, IdleHaveNone
  <2>. QED  BY <2>1, <2>2
<1>2. /\ socket' \in [Sockets -> Socket] /\ QueuesSound' /\ socket'[s].state = "closed"
      /\ \A t \in Sockets \ {s} : socket'[t] = socket[t]
  BY <1>1, CloseQueues
<1>3. cache' = (IF cache = s THEN 0 ELSE cache)
  BY DEF Close
<1>4. /\ cache \in Sockets \cup {0} /\ inflight \in Sockets \cup {0}
      /\ \A t \in Sockets : t # 0
  BY SessionAssumption DEF IInv, SessionTypeOK, Sockets
<1>5. SessionTypeOK'
  BY <1>1, <1>2, <1>3, <1>4 DEF IInv, SessionTypeOK
<1>6. CacheSound'
  BY <1>2, <1>3, <1>4 DEF IInv, CacheSound
<1>7. HeldIsKnown'
  BY <1>2, <1>3, <1>4 DEF IInv, HeldIsKnown, Held, CacheSound
<1>. QED  BY <1>1, <1>2, <1>5, <1>6, <1>7 DEF IInv

-----------------------------------------------------------------------------
(* A request is added to a queue *)

\* The one that joins is in no queue yet.
LEMMA IdleIsNowhere ==
  ASSUME IInv, NEW c \in Callers, caller[c].pc = "idle",
         NEW s \in Sockets, NEW i \in DOMAIN socket[s].queue
  PROVE  socket[s].queue[i] # c
  BY DEF IInv, QueuesSound, QueuedRun, Runs, Unsettled

LEMMA AddQueues ==
  ASSUME IInv, NEW c \in Callers, caller[c].pc = "idle", NEW pc \in Unsettled, Settle({c}, pc),
         NEW s \in Sockets, NEW k \in Socket, socket' = [socket EXCEPT ![s] = k],
         k.queue = Append(socket[s].queue, c), WireSound(k)
  PROVE  QueuesSound'
<1>. DEFINE q == socket[s].queue
            n == Len(q)
<1>1. /\ socket'[s] = k /\ \A t \in Sockets \ {s} : socket'[t] = socket[t]
  BY SocketBecomes DEF IInv
<1>2. q \in Seq(Callers) /\ n \in Nat
  BY SocketTyped DEF IInv
<1>3. /\ DOMAIN k.queue = 1..(n + 1) /\ DOMAIN q = 1..n
      /\ k.queue[n + 1] = c /\ \A i \in 1..n : k.queue[i] = q[i]
  BY <1>2
<1>. HIDE DEF n
<1>4. WiresSound'
  BY <1>1 DEF IInv, QueuesSound, WiresSound
<1>5. OnePlace'
  <2>. SUFFICES ASSUME NEW t \in Sockets, NEW u \in Sockets,
                       NEW i \in DOMAIN socket'[t].queue, NEW j \in DOMAIN socket'[u].queue,
                       socket'[t].queue[i] = socket'[u].queue[j]
                PROVE  t = u /\ i = j
    BY DEF OnePlace
  <2>1. \A v \in Sockets : \A l \in DOMAIN socket'[v].queue :
          \/ l \in DOMAIN socket[v].queue /\ socket'[v].queue[l] = socket[v].queue[l]
          \/ v = s /\ l = n + 1 /\ socket'[v].queue[l] = c
    BY <1>1, <1>2, <1>3
  <2>. QED  BY <2>1, IdleIsNowhere DEF IInv, QueuesSound, OnePlace
<1>6. QueuedRun'
  <2>1. Len(caller[c].answers) = 0 /\ 0 < BatchSize
    BY SessionAssumption DEF IInv, CallersSound, IdleHaveNone
  <2>2. Runs(caller'[c])
    <3>1. {c} \in SUBSET Callers /\ pc \in {"ok", "failed"} \cup Unsettled
      OBVIOUS
    <3>2. \A d \in {c} : caller'[d].pc = pc
      BY <3>1, Settles DEF IInv
    <3>3. \A d \in Callers : caller'[d].answers = caller[d].answers
      BY <3>1, Settles DEF IInv
    <3>. QED  BY <2>1, <3>2, <3>3 DEF Runs
  <2>3. ASSUME NEW v \in Sockets, NEW l \in DOMAIN socket[v].queue
        PROVE  Runs(caller'[socket[v].queue[l]])
    <3>1. socket[v].queue[l] \in Callers \ {c}
      BY SocketTyped, IdleIsNowhere DEF IInv
    <3>2. Runs(caller[socket[v].queue[l]])
      BY DEF IInv, QueuesSound, QueuedRun
    <3>3. \A d \in Callers \ {c} : caller'[d] = caller[d]
      BY Settles DEF IInv
    <3>. QED  BY <3>1, <3>2, <3>3
  <2>4. ASSUME NEW v \in Sockets, NEW l \in DOMAIN socket'[v].queue
        PROVE  Runs(caller'[socket'[v].queue[l]])
    BY <1>1, <1>2, <1>3, <2>2, <2>3
  <2>. QED  BY <2>4 DEF QueuedRun
<1>. QED  BY <1>4, <1>5, <1>6 DEF QueuesSound

\* And the callers, whatever becomes of the socket.
LEMMA AddStep ==
  ASSUME IInv, NEW c \in Callers, caller[c].pc = "idle", NEW pc \in Unsettled, Settle({c}, pc),
         NEW s \in Sockets, NEW k \in Socket, socket' = [socket EXCEPT ![s] = k],
         k.queue = Append(socket[s].queue, c), WireSound(k),
         UNCHANGED <<cache, down>>, inflight' \in Sockets \cup {0},
         CacheSound', HeldIsKnown'
  PROVE  IInv'
<1>1. QueuesSound'
  BY AddQueues
<1>2. socket' \in [Sockets -> Socket]
  BY SocketBecomes DEF IInv
<1>3. /\ caller' \in [Callers -> Caller] /\ CallersSound'
      /\ \A d \in Callers : Len(caller'[d].answers) <= BatchSize
  BY Settles, SettledSound DEF IInv
<1>4. SessionTypeOK'
  BY <1>2, <1>3 DEF IInv, SessionTypeOK
<1>. QED  BY <1>1, <1>3, <1>4 DEF IInv

\* A socket that joins a queue, or is dispatched, stays what it is to the cache.
LEMMA HeldStays ==
  ASSUME IInv, NEW s \in Sockets, NEW k \in Socket, socket' = [socket EXCEPT ![s] = k],
         k.state = socket[s].state, k.shared = socket[s].shared,
         UNCHANGED <<cache, inflight, down>>
  PROVE  CacheSound' /\ HeldIsKnown'
<1>1. \A t \in Sockets : socket'[t].state = socket[t].state /\ socket'[t].shared = socket[t].shared
  BY SocketBecomes DEF IInv
<1>2. cache \in Sockets \cup {0} /\ inflight \in Sockets \cup {0}
  BY DEF IInv, SessionTypeOK
<1>. QED  BY <1>1, <1>2 DEF IInv, CacheSound, HeldIsKnown, Held

LEMMA CallCachedStep == ASSUME IInv, NEW c \in Callers, CallCached(c) PROVE IInv'
<1>. DEFINE old == socket[cache]
            k == IF old.queue = <<>> THEN Dispatch(old, old.state, <<c>>, old.wire)
                 ELSE Joined(old, c)
<1>1. /\ cache \in Sockets /\ caller[c].pc = "idle" /\ Settle({c}, "queued")
      /\ socket' = [socket EXCEPT ![cache] = k] /\ UNCHANGED <<cache, inflight, down>>
  BY DEF CallCached, Wait, IInv, SessionTypeOK
<1>2. /\ old \in Socket /\ old.queue \in Seq(Callers) /\ old.wire \in Seq(Callers)
      /\ old.shared \in BOOLEAN /\ old.armed \in BOOLEAN
      /\ old.state = "open" /\ WireSound(old)
  BY <1>1, SocketTyped, SessionAssumption DEF IInv, CacheSound, QueuesSound, WiresSound, Sockets
<1>3. /\ k \in Socket /\ k.queue = Append(old.queue, c) /\ WireSound(k)
      /\ k.state = old.state /\ k.shared = old.shared
  <2>1. CASE old.queue = <<>>
    <3>1. old.wire = <<>>
      BY <1>2, <2>1 DEF WireSound
    <3>2. k = [state |-> "open", shared |-> old.shared, armed |-> FALSE,
               queue |-> <<c>>, wire |-> <<c>>]
      BY <1>2, <2>1, <3>1 DEF Dispatch, With
    <3>3. <<c>> \in Seq(Callers) /\ Append(old.queue, c) = <<c>> /\ <<c>> # <<>> /\ Head(<<c>>) = c
      BY <2>1
    <3>. HIDE DEF k, old
    <3>. QED  BY <1>2, <3>2, <3>3 DEF Socket, WireSound
  <2>2. CASE old.queue # <<>>
    <3>1. k = [state |-> old.state, shared |-> old.shared, armed |-> old.armed,
               queue |-> Append(old.queue, c), wire |-> old.wire]
      BY <2>2 DEF Joined, With
    <3>2. /\ Append(old.queue, c) \in Seq(Callers) /\ Append(old.queue, c) # <<>>
          /\ Head(Append(old.queue, c)) = Head(old.queue)
      BY <1>2, <2>2
    <3>. HIDE DEF k, old
    <3>. QED  BY <1>2, <3>1, <3>2 DEF Socket, WireSound
  <2>. QED  BY <2>1, <2>2
<1>. HIDE DEF k
<1>4. CacheSound' /\ HeldIsKnown'
  BY <1>1, <1>3, HeldStays
<1>5. inflight' \in Sockets \cup {0}
  BY <1>1 DEF IInv, SessionTypeOK
<1>. QED  BY <1>1, <1>3, <1>4, <1>5, AddStep DEF Unsettled

LEMMA CallInFlightStep == ASSUME IInv, NEW c \in Callers, CallInFlight(c) PROVE IInv'
<1>. DEFINE old == socket[inflight]
            k == Joined(old, c)
<1>1. /\ inflight \in Sockets /\ caller[c].pc = "idle" /\ Settle({c}, "connecting")
      /\ socket' = [socket EXCEPT ![inflight] = k] /\ UNCHANGED <<cache, inflight, down>>
  BY DEF CallInFlight, Wait, IInv, SessionTypeOK
<1>2. /\ old \in Socket /\ old.queue \in Seq(Callers) /\ old.state = "connecting"
      /\ old.wire = <<>>
  BY <1>1, SocketTyped, SessionAssumption
  DEF IInv, CacheSound, QueuesSound, WiresSound, WireSound, Sockets
<1>3. /\ k \in Socket /\ k.queue = Append(old.queue, c) /\ WireSound(k)
      /\ k.state = old.state /\ k.shared = old.shared
  BY <1>2 DEF Joined, With, Socket, WireSound
<1>. HIDE DEF k
<1>4. CacheSound' /\ HeldIsKnown'
  BY <1>1, <1>3, HeldStays
<1>5. inflight' \in Sockets \cup {0}
  BY <1>1 DEF IInv, SessionTypeOK
<1>. QED  BY <1>1, <1>3, <1>4, <1>5, AddStep DEF Unsettled

\* A socket that is opened.
LEMMA OpenStep ==
  ASSUME IInv, NEW c \in Callers, caller[c].pc = "idle", Settle({c}, "connecting"),
         NEW s \in Sockets, NEW shared \in BOOLEAN, Open(s, c, shared),
         UNCHANGED <<cache, down>>,
         \/ shared /\ cache = 0 /\ inflight = 0 /\ inflight' = s
         \/ ~shared /\ UNCHANGED inflight
  PROVE  IInv'
<1>. DEFINE k == [state |-> "connecting", shared |-> shared, armed |-> FALSE,
                  queue |-> <<c>>, wire |-> <<>>]
<1>1. socket[s] = Unused /\ socket' = [socket EXCEPT ![s] = k]
  BY DEF Open, IsNext
<1>2. /\ k \in Socket /\ k.queue = <<c>> /\ k.wire = <<>> /\ k.state = "connecting"
      /\ k.shared = shared
  BY DEF Socket
<1>. HIDE DEF k
<1>3. socket[s].queue = <<>> /\ socket[s].state = "unused"
  BY <1>1 DEF Unused
<1>4. /\ socket'[s] = k /\ \A t \in Sockets \ {s} : socket'[t] = socket[t]
  BY <1>1, <1>2, SocketBecomes DEF IInv
<1>5. k.queue = Append(socket[s].queue, c) /\ WireSound(k)
  BY <1>2, <1>3 DEF WireSound
<1>6. /\ cache \in Sockets \cup {0} /\ inflight \in Sockets \cup {0} /\ s # 0
  BY SessionAssumption DEF IInv, SessionTypeOK, Sockets
<1>7. CacheSound'
  BY <1>2, <1>3, <1>4, <1>6 DEF IInv, CacheSound
<1>8. HeldIsKnown'
  <2>. SUFFICES ASSUME ~down PROVE HeldIsKnown'
    BY DEF HeldIsKnown
  <2>1. \A t \in Held' :
          \/ t = s /\ shared
          \/ t \in Held /\ t # s /\ socket'[t] = socket[t]
    BY <1>2, <1>4 DEF Held
  <2>2. \A t \in Held : IF socket[t].state = "open" THEN cache = t ELSE inflight = t
    BY DEF IInv, HeldIsKnown
  <2>3. \A t \in Held : t # 0
    BY <1>6, SessionAssumption DEF Held, Sockets
  <2>4. CASE shared /\ cache = 0 /\ inflight = 0 /\ inflight' = s
    BY <1>2, <1>4, <2>1, <2>2, <2>3, <2>4 DEF HeldIsKnown
  <2>5. CASE ~shared /\ UNCHANGED inflight
    BY <2>1, <2>2, <2>5 DEF IInv, HeldIsKnown
  <2>. QED  BY <2>4, <2>5
<1>9. inflight' \in Sockets \cup {0}
  BY <1>6
<1>. QED  BY <1>1, <1>2, <1>5, <1>7, <1>8, <1>9, AddStep DEF Unsettled

LEMMA CallOpensStep == ASSUME IInv, NEW c \in Callers, CallOpens(c) PROVE IInv'
  BY OpenStep DEF CallOpens, Wait

LEMMA CallOnceStep == ASSUME IInv, NEW c \in Callers, CallOnce(c) PROVE IInv'
  BY OpenStep DEF CallOnce, Wait
-----------------------------------------------------------------------------
(* The login is answered *)

\* A socket with nothing on the wire is given to the head of a queue.
LEMMA Dispatched ==
  ASSUME NEW k \in Socket, NEW state \in {"open", "closed"}, NEW queue \in Seq(Callers)
  PROVE  /\ Dispatch(k, state, queue, <<>>) \in Socket
         /\ Dispatch(k, state, queue, <<>>).queue = queue
         /\ Dispatch(k, state, queue, <<>>).state = state
         /\ Dispatch(k, state, queue, <<>>).shared = k.shared
         /\ WireSound(Dispatch(k, state, queue, <<>>))
<1>1. k.shared \in BOOLEAN
  BY DEF Socket
<1>2. CASE queue = <<>>
  <2>. DEFINE d == With(k, state, k.shared, queue, <<>>)
  <2>1. /\ d \in Socket /\ d.queue = queue /\ d.state = state /\ d.shared = k.shared
        /\ d.wire = <<>>
    BY <1>1 DEF With, Socket
  <2>2. Dispatch(k, state, queue, <<>>) = d
    BY <1>2 DEF Dispatch
  <2>. HIDE DEF d
  <2>. QED  BY <2>1, <2>2 DEF WireSound
<1>3. CASE queue # <<>>
  <2>. DEFINE w == <<Head(queue)>>
              d == With(k, state, FALSE, queue, w)
  <2>1. w \in Seq(Callers) /\ Append(<<>>, Head(queue)) = w
    BY <1>3
  <2>2. w = <<Head(queue)>>
    OBVIOUS
  <2>. HIDE DEF w
  <2>3. /\ d \in Socket /\ d.queue = queue /\ d.state = state /\ d.shared = k.shared
        /\ d.wire = w
    BY <1>1, <2>1 DEF With, Socket
  <2>4. Dispatch(k, state, queue, <<>>) = d
    BY <1>3, <2>1 DEF Dispatch
  <2>. HIDE DEF d
  <2>. QED  BY <1>3, <2>2, <2>3, <2>4 DEF WireSound
<1>. QED  BY <1>2, <1>3

LEMMA AuthenticateStep == ASSUME IInv, NEW s \in Sockets, Authenticate(s) PROVE IInv'
<1>. DEFINE old == socket[s]
            k == Dispatch(old, "open", old.queue, old.wire)
<1>1. /\ old.state = "connecting" /\ socket' = [socket EXCEPT ![s] = k]
      /\ Settle(Queued(s), "queued") /\ UNCHANGED down
      /\ IF old.shared THEN cache' = s /\ inflight' = 0 ELSE UNCHANGED <<cache, inflight>>
  BY DEF Authenticate
<1>2. old \in Socket /\ old.queue \in Seq(Callers) /\ old.shared \in BOOLEAN /\ WireSound(old)
  BY SocketTyped DEF IInv, QueuesSound, WiresSound
<1>3. old.wire = <<>>
  BY <1>1, <1>2 DEF WireSound
<1>. HIDE DEF old
<1>4. /\ k \in Socket /\ k.queue = old.queue /\ k.state = "open" /\ k.shared = old.shared
      /\ WireSound(k)
  BY <1>2, <1>3, Dispatched
<1>. HIDE DEF k
<1>5. /\ socket' \in [Sockets -> Socket] /\ socket'[s] = k
      /\ \A t \in Sockets \ {s} : socket'[t] = socket[t]
  BY <1>1, <1>4, SocketBecomes DEF IInv
<1>6. \A t \in Sockets : socket'[t].queue = socket[t].queue
  BY <1>4, <1>5 DEF old
<1>7. Queued(s) \in SUBSET Callers
  BY DEF Queued
<1>8. /\ caller' \in [Callers -> Caller] /\ CallersSound'
      /\ \A d \in Callers : Len(caller'[d].answers) <= BatchSize
  BY <1>1, <1>7, Settles, SettledSound DEF IInv, Unsettled
<1>9. WiresSound'
  BY <1>4, <1>5 DEF IInv, QueuesSound, WiresSound
<1>10. OnePlace'
  BY <1>6 DEF IInv, QueuesSound, OnePlace
<1>11. QueuedRun'
  <2>1. \A d \in Callers : Runs(caller[d]) => Runs(caller'[d])
    <3>1. /\ \A d \in Callers : caller'[d].answers = caller[d].answers
          /\ \A d \in Queued(s) : caller'[d].pc = "queued"
          /\ \A d \in Callers \ Queued(s) : caller'[d] = caller[d]
      BY <1>1, <1>7, Settles DEF IInv, Unsettled
    <3>. QED  BY <3>1 DEF Runs, Unsettled
  <2>2. \A t \in Sockets : \A i \in DOMAIN socket[t].queue : socket[t].queue[i] \in Callers
    BY SocketTyped DEF IInv
  <2>. QED  BY <1>6, <2>1, <2>2 DEF IInv, QueuesSound, QueuedRun
<1>12. /\ cache \in Sockets \cup {0} /\ inflight \in Sockets \cup {0} /\ s # 0
  BY SessionAssumption DEF IInv, SessionTypeOK, Sockets
<1>13. CacheSound'
  BY <1>1, <1>2, <1>4, <1>5, <1>12 DEF IInv, CacheSound, old
<1>14. HeldIsKnown'
  <2>. SUFFICES ASSUME ~down PROVE HeldIsKnown'
    BY <1>1 DEF HeldIsKnown
  <2>1. \A t \in Held' \ {s} : t \in Held /\ socket'[t] = socket[t]
    BY <1>5 DEF Held
  <2>2. /\ \A t \in Held : IF socket[t].state = "open" THEN cache = t ELSE inflight = t
        /\ cache = 0 \/ inflight = 0
    BY DEF IInv, HeldIsKnown
  <2>3. CASE old.shared
    <3>1. s \in Held
      BY <1>1, <2>3 DEF Held, old
    <3>2. inflight = s /\ cache = 0
      BY <1>1, <1>12, <2>2, <3>1 DEF old
    <3>3. \A t \in Held : t # 0
      BY SessionAssumption DEF Held, Sockets
    <3>4. \A t \in Held : t = s
      BY <1>12, <2>2, <3>2, <3>3
    <3>5. Held' \subseteq {s}
      BY <2>1, <3>4
    <3>. QED  BY <1>1, <1>4, <1>5, <2>3, <3>5 DEF HeldIsKnown
  <2>4. CASE ~old.shared
    <3>1. s \notin Held'
      BY <1>4, <1>5, <2>4 DEF Held
    <3>. QED  BY <1>1, <2>1, <2>2, <2>4, <3>1 DEF HeldIsKnown
  <2>. QED  BY <2>3, <2>4
<1>15. SessionTypeOK'
  BY <1>1, <1>2, <1>5, <1>8, <1>12 DEF IInv, SessionTypeOK
<1>. QED  BY <1>8, <1>9, <1>10, <1>11, <1>13, <1>14, <1>15 DEF IInv, QueuesSound
-----------------------------------------------------------------------------
(* A command is answered *)

\* The answer is taken for the batch at the head of the queue, which sent the
\* command: the next command goes out, or the batch behind gets the socket, or the
\* socket of a single batch is closed.
LEMMA TookSocket ==
  ASSUME NEW k \in Socket, NEW c \in Callers, k.state = "open", k.queue # <<>>,
         Head(k.queue) = c, k.wire = <<c>>,
         NEW answers \in Seq(Callers)
  PROVE  LET d == Took(k, answers)
         IN  /\ d \in Socket /\ WireSound(d) /\ d.shared = k.shared
             /\ \/ Len(answers) < BatchSize /\ d.queue = k.queue /\ d.state = "open"
                \/ /\ ~(Len(answers) < BatchSize) /\ k.shared
                   /\ d.queue = Tail(k.queue) /\ d.state = "open"
                \/ ~(Len(answers) < BatchSize) /\ ~k.shared /\ d.queue = <<>>
<1>1. /\ k.shared \in BOOLEAN /\ k.armed \in BOOLEAN
      /\ k.queue \in Seq(Callers) /\ Tail(k.queue) \in Seq(Callers)
  BY DEF Socket
<1>2. Tail(k.wire) = <<>>
  OBVIOUS
<1>3. CASE Len(answers) < BatchSize
  <2>. DEFINE w == <<c>>
              d == With(k, k.state, k.armed, k.queue, w)
  <2>1. w \in Seq(Callers) /\ Append(Tail(k.wire), Head(k.queue)) = w
    BY <1>2
  <2>2. w = <<Head(k.queue)>>
    OBVIOUS
  <2>. HIDE DEF w
  <2>3. /\ d \in Socket /\ d.queue = k.queue /\ d.state = "open" /\ d.shared = k.shared
        /\ d.wire = w
    BY <1>1, <2>1 DEF With, Socket
  <2>4. Took(k, answers) = d
    BY <1>3, <2>1 DEF Took, GoesOn
  <2>. HIDE DEF d
  <2>. QED  BY <1>3, <2>2, <2>3, <2>4 DEF WireSound
<1>4. CASE ~(Len(answers) < BatchSize) /\ k.shared
  <2>1. Took(k, answers) = Dispatch(k, "open", Tail(k.queue), <<>>)
    BY <1>2, <1>4 DEF Took, HandOver
  <2>. DEFINE d == Dispatch(k, "open", Tail(k.queue), <<>>)
  <2>2. /\ d \in Socket /\ d.queue = Tail(k.queue) /\ d.state = "open"
        /\ d.shared = k.shared /\ WireSound(d)
    BY <1>1, Dispatched
  <2>3. Took(k, answers) = d
    BY <2>1
  <2>. HIDE DEF d
  <2>. QED  BY <1>4, <2>2, <2>3
<1>5. CASE ~(Len(answers) < BatchSize) /\ ~k.shared
  <2>. DEFINE d == Closed(k)
  <2>1. /\ d \in Socket /\ d.queue = <<>> /\ d.wire = <<>> /\ d.state = "closed"
        /\ d.shared = k.shared
    BY <1>1 DEF Closed, With, Socket
  <2>2. Took(k, answers) = d
    BY <1>5 DEF Took
  <2>. HIDE DEF d
  <2>. QED  BY <1>5, <2>1, <2>2 DEF WireSound
<1>. QED  BY <1>1, <1>3, <1>4, <1>5

LEMMA AnswerStep == ASSUME IInv, NEW s \in Sockets, Answer(s) PROVE IInv'
<1>. DEFINE old == socket[s]
            c == Head(old.queue)
            had == caller[c].answers
            answers == Append(had, Head(old.wire))
            pc == IF Len(answers) = BatchSize THEN "ok" ELSE "queued"
            d == [pc |-> pc, answers |-> answers]
            k == Took(old, answers)
<1>1. /\ old.state = "open" /\ old.queue # <<>> /\ old.wire # <<>>
      /\ socket' = [socket EXCEPT ![s] = k] /\ caller' = [caller EXCEPT ![c] = d]
      /\ UNCHANGED <<cache, inflight, down>>
  BY DEF Answer
<1>2. /\ old \in Socket /\ old.queue \in Seq(Callers) /\ old.shared \in BOOLEAN
      /\ WireSound(old)
  BY SocketTyped DEF IInv, QueuesSound, WiresSound
<1>3. /\ c \in Callers /\ old.wire = <<c>> /\ Head(old.wire) = c
      /\ 1 \in DOMAIN old.queue /\ old.queue[1] = c
  BY <1>1, <1>2 DEF WireSound
<1>4. /\ Runs(caller[c]) /\ caller[c] \in Caller /\ had \in Seq(Callers)
      /\ \A i \in DOMAIN had : had[i] = c
  BY <1>3 DEF IInv, QueuesSound, QueuedRun, SessionTypeOK, Caller, CallersSound, AnswersAreOwn
<1>5. Len(had) < BatchSize
  BY <1>4 DEF Runs
<1>. HIDE DEF old, c, had
<1>6. /\ answers \in Seq(Callers) /\ Len(answers) = Len(had) + 1 /\ Len(answers) <= BatchSize
      /\ \A i \in DOMAIN answers : answers[i] = c
  BY <1>3, <1>4, <1>5, SessionAssumption
<1>. HIDE DEF answers
<1>7. /\ k \in Socket /\ WireSound(k) /\ k.shared = old.shared
      /\ \/ pc = "queued" /\ k.queue = old.queue /\ k.state = "open"
         \/ pc = "ok" /\ old.shared /\ k.queue = Tail(old.queue) /\ k.state = "open"
         \/ pc = "ok" /\ ~old.shared /\ k.queue = <<>>
  <2>1. /\ k \in Socket /\ WireSound(k) /\ k.shared = old.shared
        /\ \/ Len(answers) < BatchSize /\ k.queue = old.queue /\ k.state = "open"
           \/ /\ ~(Len(answers) < BatchSize) /\ old.shared
              /\ k.queue = Tail(old.queue) /\ k.state = "open"
           \/ ~(Len(answers) < BatchSize) /\ ~old.shared /\ k.queue = <<>>
    BY <1>1, <1>2, <1>3, <1>6, TookSocket DEF c
  <2>2. Len(answers) \in Nat /\ BatchSize \in Nat
    BY <1>6, SessionAssumption
  <2>. QED  BY <1>6, <2>1, <2>2
<1>. HIDE DEF k
<1>8. /\ d \in Caller /\ d.pc = pc /\ d.answers = answers
      /\ pc = "queued" => Runs(d)
  <2>1. pc = "queued" => Len(answers) < BatchSize
    BY <1>6, SessionAssumption
  <2>. QED  BY <1>6, <2>1 DEF Caller, Runs, Unsettled
<1>9. pc = "ok" => Len(answers) = BatchSize
  OBVIOUS
<1>10. pc # "idle"
  OBVIOUS
<1>. HIDE DEF d, pc
<1>11. /\ caller' \in [Callers -> Caller] /\ caller'[c] = d
       /\ \A b \in Callers \ {c} : caller'[b] = caller[b]
  BY <1>1, <1>3, <1>8 DEF IInv, SessionTypeOK
<1>12. /\ socket' \in [Sockets -> Socket] /\ socket'[s] = k
       /\ \A t \in Sockets \ {s} : socket'[t] = socket[t]
  BY <1>1, <1>7, SocketBecomes DEF IInv
<1>13. CallersSound' /\ \A b \in Callers : Len(caller'[b].answers) <= BatchSize
  BY <1>6, <1>8, <1>9, <1>10, <1>11
  DEF IInv, CallersSound, AnswersAreOwn, IdleHaveNone, SessionTypeOK
<1>14. WiresSound'
  BY <1>7, <1>12 DEF IInv, QueuesSound, WiresSound
<1>15. \A t \in Sockets : socket[t].queue \in Seq(Callers)
  BY SocketTyped DEF IInv
\* Where a request stands now, it stood before, one place further back perhaps.
<1>16. \/ pc = "queued" /\ \A t \in Sockets : socket'[t].queue = socket[t].queue
       \/ /\ pc = "ok"
          /\ \A t \in Sockets \ {s} : socket'[t].queue = socket[t].queue
          /\ \A i \in DOMAIN socket'[s].queue :
               /\ i + 1 \in DOMAIN socket[s].queue /\ i \in Nat \ {0}
               /\ socket'[s].queue[i] = socket[s].queue[i + 1]
  <2>1. socket[s].queue = old.queue
    BY DEF old
  <2>2. CASE pc = "queued" /\ k.queue = old.queue
    BY <1>12, <2>1, <2>2
  <2>3. CASE pc = "ok" /\ k.queue = Tail(old.queue)
    <3>1. \A i \in DOMAIN k.queue :
            /\ i + 1 \in DOMAIN old.queue /\ i \in Nat \ {0}
            /\ k.queue[i] = old.queue[i + 1]
      BY <1>1, <1>2, <2>3
    <3>. QED  BY <1>12, <2>1, <2>3, <3>1
  <2>4. CASE pc = "ok" /\ k.queue = <<>>
    BY <1>12, <2>4
  <2>. QED  BY <1>7, <2>2, <2>3, <2>4
<1>17. OnePlace'
  <2>1. OnePlace /\ \A t \in Sockets : \A i \in DOMAIN socket[t].queue : i \in Nat
    BY <1>15 DEF IInv, QueuesSound
  <2>2. CASE pc = "queued" /\ \A t \in Sockets : socket'[t].queue = socket[t].queue
    BY <2>1, <2>2 DEF OnePlace
  <2>3. CASE ~(pc = "queued" /\ \A t \in Sockets : socket'[t].queue = socket[t].queue)
    <3>. SUFFICES ASSUME NEW t \in Sockets, NEW u \in Sockets,
                         NEW i \in DOMAIN socket'[t].queue, NEW j \in DOMAIN socket'[u].queue,
                         socket'[t].queue[i] = socket'[u].queue[j]
                  PROVE  t = u /\ i = j
      BY DEF OnePlace
    <3>1. CASE t = s /\ u = s
      BY <1>16, <2>1, <2>3, <3>1 DEF OnePlace
    <3>2. CASE t = s /\ u # s
      BY <1>16, <2>1, <2>3, <3>2 DEF OnePlace
    <3>3. CASE t # s /\ u = s
      BY <1>16, <2>1, <2>3, <3>3 DEF OnePlace
    <3>4. CASE t # s /\ u # s
      BY <1>16, <2>1, <2>3, <3>4 DEF OnePlace
    <3>. QED  BY <3>1, <3>2, <3>3, <3>4
  <2>. QED  BY <2>2, <2>3
<1>18. QueuedRun'
  <2>. SUFFICES ASSUME NEW t \in Sockets, NEW i \in DOMAIN socket'[t].queue
                PROVE  Runs(caller'[socket'[t].queue[i]])
    BY DEF QueuedRun
  <2>1. PICK j \in DOMAIN socket[t].queue :
          /\ socket'[t].queue[i] = socket[t].queue[j]
          /\ pc = "ok" => t # s \/ j # 1
    BY <1>16
  <2>2. socket[t].queue[j] \in Callers /\ Runs(caller[socket[t].queue[j]])
    BY <1>15 DEF IInv, QueuesSound, QueuedRun
  <2>3. CASE socket[t].queue[j] # c
    BY <1>11, <2>1, <2>2, <2>3
  <2>4. CASE socket[t].queue[j] = c
    <3>1. t = s /\ j = 1
      BY <1>3, <2>4 DEF IInv, QueuesSound, OnePlace, old
    <3>2. pc = "queued"
      BY <1>16, <2>1, <3>1
    <3>. QED  BY <1>8, <1>11, <2>1, <2>4, <3>2
  <2>. QED  BY <2>3, <2>4
<1>19. /\ cache \in Sockets \cup {0} /\ inflight \in Sockets \cup {0}
  BY DEF IInv, SessionTypeOK
<1>20. CacheSound'
  BY <1>1, <1>2, <1>7, <1>12, <1>19 DEF IInv, CacheSound, old
<1>21. HeldIsKnown'
  <2>1. \A t \in Held' : t \in Held /\ socket'[t].state = socket[t].state
    BY <1>1, <1>7, <1>12 DEF Held, old
  <2>. QED  BY <1>1, <2>1 DEF IInv, HeldIsKnown
<1>22. SessionTypeOK'
  BY <1>1, <1>11, <1>12, <1>13 DEF IInv, SessionTypeOK
<1>. QED  BY <1>13, <1>14, <1>17, <1>18, <1>20, <1>21, <1>22 DEF IInv, QueuesSound
-----------------------------------------------------------------------------
(* The module is destroyed *)

LEMMA OnModuleDestroyStep == ASSUME IInv, OnModuleDestroy PROVE IInv'
<1>. DEFINE Gone(k) == With(k, "closed", FALSE, k.queue, <<>>)
<1>1. /\ down' = TRUE /\ cache' = 0 /\ inflight' = 0 /\ UNCHANGED caller
      /\ socket' = [s \in Sockets |-> IF s = cache THEN Gone(socket[s]) ELSE socket[s]]
  BY DEF OnModuleDestroy
<1>2. ASSUME NEW s \in Sockets
      PROVE  /\ socket'[s] \in Socket /\ socket'[s].queue = socket[s].queue
             /\ WireSound(socket'[s])
  <2>. DEFINE k == Gone(socket[s])
  <2>1. /\ k \in Socket /\ k.queue = socket[s].queue /\ k.wire = <<>> /\ k.state = "closed"
    BY SocketTyped DEF With, Socket, IInv
  <2>2. socket'[s] = k \/ socket'[s] = socket[s]
    BY <1>1
  <2>3. socket[s] \in Socket /\ WireSound(socket[s])
    BY SocketTyped DEF IInv, QueuesSound, WiresSound
  <2>. HIDE DEF k
  <2>. QED  BY <2>1, <2>2, <2>3 DEF WireSound
<1>3. QueuesSound'
  <2>1. WiresSound'
    BY <1>2 DEF WiresSound
  <2>2. OnePlace'
    BY <1>2 DEF IInv, QueuesSound, OnePlace
  <2>3. QueuedRun'
    BY <1>1, <1>2 DEF IInv, QueuesSound, QueuedRun
  <2>. QED  BY <2>1, <2>2, <2>3 DEF QueuesSound
<1>4. socket' \in [Sockets -> Socket]
  <2>. HIDE DEF Gone
  <2>. QED  BY <1>1, <1>2
<1>5. SessionTypeOK'
  BY <1>1, <1>4 DEF IInv, SessionTypeOK
<1>6. CallersSound' /\ CacheSound' /\ HeldIsKnown'
  BY <1>1 DEF IInv, CallersSound, AnswersAreOwn, IdleHaveNone, CacheSound, HeldIsKnown
<1>. QED  BY <1>3, <1>5, <1>6 DEF IInv
-----------------------------------------------------------------------------
LEMMA Step == IInv /\ [SessionNext]_sessionVars => IInv'
<1>. SUFFICES ASSUME IInv, [SessionNext]_sessionVars PROVE IInv'
  OBVIOUS
<1>1. ASSUME NEW c \in Callers, Call(c) PROVE IInv'
  BY <1>1, CallCachedStep, CallInFlightStep, CallOpensStep, CallOnceStep DEF Call
<1>2. ASSUME NEW s \in Sockets, Authenticate(s) PROVE IInv'
  BY <1>2, AuthenticateStep
<1>3. ASSUME NEW s \in Sockets, ConnectFails(s) PROVE IInv'
  BY <1>3, CloseStep DEF ConnectFails
<1>4. ASSUME NEW s \in Sockets, Answer(s) PROVE IInv'
  BY <1>4, AnswerStep
<1>5. ASSUME NEW s \in Sockets, SocketFails(s) PROVE IInv'
  BY <1>5, CloseStep DEF SocketFails
<1>6. ASSUME NEW s \in Sockets, CommandTimeout(s) PROVE IInv'
  BY <1>6, CloseStep DEF CommandTimeout
<1>7. ASSUME NEW s \in Sockets, IdleTimeout(s) PROVE IInv'
  BY <1>7, CloseStep DEF IdleTimeout
<1>8. CASE OnModuleDestroy
  BY <1>8, OnModuleDestroyStep
<1>9. CASE UNCHANGED sessionVars
  BY <1>9 DEF sessionVars, IInv, SessionTypeOK, QueuesSound, WiresSound, OnePlace, QueuedRun,
              CallersSound, AnswersAreOwn, IdleHaveNone, CacheSound, HeldIsKnown, Held
<1>. QED  BY <1>1, <1>2, <1>3, <1>4, <1>5, <1>6, <1>7, <1>8, <1>9 DEF SessionNext

\* The invariant behind the theorems below: what is on the wire was sent by the
\* batch at the head of the queue, and the client knows the connections it holds.
THEOREM Invariance == SessionSpec => []IInv
  BY Initially, Step, PTL DEF SessionSpec

\* The sockets, the queues and the requests of the client keep their types, and no
\* batch takes more answers than it has commands.
THEOREM TypeCorrect == SessionSpec => []SessionTypeOK
<1>1. IInv => SessionTypeOK
  BY DEF IInv
<1>. QED  BY <1>1, Invariance, PTL

\* A batch gets the answers to its own commands and all of them if it succeeds,
\* for any number of requests, sockets and commands.
THEOREM OwnAnswers == SessionSpec => []AnswersAreOwn
<1>1. IInv => AnswersAreOwn
  BY DEF IInv, CallersSound
<1>. QED  BY <1>1, Invariance, PTL

\* The client holds one connection to a router at a time, however many requests
\* ask for it at once.
THEOREM HoldsOne == SessionSpec => []OneConnection
<1>1. IInv => OneConnection
  BY SessionAssumption DEF IInv, HeldIsKnown, OneConnection, Held, Sockets
<1>. QED  BY <1>1, Invariance, PTL
-----------------------------------------------------------------------------
(* Nobody is forgotten *)

\* A socket is used or will be closed, and one that is not shared has one batch.
InUse(k) ==
  /\ k.state = "open" => k.armed \/ k.queue # <<>>
  /\ k.state = "connecting" => k.queue # <<>>
  /\ k.armed => k.queue = <<>>
  /\ ~k.shared => \A i \in DOMAIN k.queue : i = 1

\* The request that waits on the socket, and for what.
Holds(k, c) == \E i \in DOMAIN k.queue : k.queue[i] = c

For(pc) == IF pc = "connecting" THEN {"connecting"} ELSE {"open", "closed"}

Awaits(c) ==
  caller[c].pc \in Unsettled =>
    \E s \in Sockets : Holds(socket[s], c) /\ socket[s].state \in For(caller[c].pc)

UseInv == (\A c \in Callers : Awaits(c)) /\ (\A s \in Sockets : InUse(socket[s]))

\* One socket changes: those who wait on it and are not told anything stay on it.
LEMMA WaitersStay ==
  ASSUME IInv, UseInv, NEW s \in Sockets, NEW k \in Socket, InUse(k),
         socket' = [socket EXCEPT ![s] = k],
         NEW cs \in SUBSET Callers,
         \A c \in Callers \ cs : caller'[c] = caller[c],
         \A c \in Queued(s) \ cs : Holds(k, c) /\ k.state = socket[s].state,
         \A c \in cs : caller'[c].pc \in Unsettled => Holds(k, c) /\ k.state \in For(caller'[c].pc)
  PROVE  UseInv'
<1>1. socket'[s] = k /\ \A t \in Sockets \ {s} : socket'[t] = socket[t]
  BY SocketBecomes DEF IInv
<1>2. \A t \in Sockets : InUse(socket'[t])
  BY <1>1 DEF UseInv
<1>3. ASSUME NEW c \in cs, caller'[c].pc \in Unsettled
      PROVE  Holds(socket'[s], c) /\ socket'[s].state \in For(caller'[c].pc)
  BY <1>1, <1>3
<1>4. ASSUME NEW c \in Callers \ cs, caller'[c].pc \in Unsettled
      PROVE  \E t \in Sockets : Holds(socket'[t], c) /\ socket'[t].state \in For(caller'[c].pc)
  <2>1. PICK t \in Sockets : Holds(socket[t], c) /\ socket[t].state \in For(caller[c].pc)
    BY <1>4 DEF UseInv, Awaits
  <2>2. CASE t = s
    <3>1. c \in Queued(s)
      BY <2>1, <2>2 DEF Queued, Holds
    <3>. QED  BY <1>1, <1>4, <2>1, <2>2, <3>1
  <2>3. CASE t # s
    BY <1>1, <1>4, <2>1, <2>3
  <2>. QED  BY <2>2, <2>3
<1>5. \A c \in Callers : Awaits(c)'
  BY <1>3, <1>4 DEF Awaits
<1>. QED  BY <1>2, <1>5 DEF UseInv

\* A socket with a queue that one more has joined.
LEMMA JoinedUse ==
  ASSUME IInv, UseInv, NEW c \in Callers, caller[c].pc = "idle", NEW pc \in Unsettled,
         Settle({c}, pc),
         NEW s \in Sockets, NEW k \in Socket, socket' = [socket EXCEPT ![s] = k],
         k.queue = Append(socket[s].queue, c), InUse(k), k.state \in For(pc),
         socket[s].queue # <<>> => k.state = socket[s].state
  PROVE  UseInv'
<1>. DEFINE q == socket[s].queue
            n == Len(q)
            cs == {c}
<1>1. q \in Seq(Callers) /\ n \in Nat
  BY SocketTyped DEF IInv
<1>2. /\ DOMAIN k.queue = 1..(n + 1) /\ DOMAIN q = 1..n
      /\ k.queue[n + 1] = c /\ \A i \in 1..n : k.queue[i] = q[i]
  BY <1>1
<1>3. Holds(k, c)
  BY <1>1, <1>2 DEF Holds
<1>4. \A d \in Queued(s) : Holds(k, d) /\ k.state = socket[s].state
  BY <1>1, <1>2 DEF Queued, Holds
<1>5. cs \in SUBSET Callers /\ pc \in {"ok", "failed"} \cup Unsettled
  OBVIOUS
<1>6. /\ \A d \in cs : caller'[d].pc = pc
      /\ \A d \in Callers \ cs : caller'[d] = caller[d]
  BY <1>5, Settles DEF IInv
<1>7. \A d \in cs : caller'[d].pc \in Unsettled => Holds(k, d) /\ k.state \in For(caller'[d].pc)
  BY <1>3, <1>6
<1>8. \A d \in Queued(s) \ cs : Holds(k, d) /\ k.state = socket[s].state
  BY <1>4
<1>. HIDE DEF q, n, cs
<1>. QED  BY <1>5, <1>6, <1>7, <1>8, WaitersStay

LEMMA CallCachedUse == ASSUME IInv, UseInv, NEW c \in Callers, CallCached(c) PROVE UseInv'
<1>. DEFINE old == socket[cache]
            k == IF old.queue = <<>> THEN Dispatch(old, old.state, <<c>>, old.wire)
                 ELSE Joined(old, c)
<1>1. /\ cache \in Sockets /\ caller[c].pc = "idle" /\ Settle({c}, "queued")
      /\ socket' = [socket EXCEPT ![cache] = k]
  BY DEF CallCached, Wait, IInv, SessionTypeOK
<1>2. /\ old \in Socket /\ old.queue \in Seq(Callers) /\ old.wire \in Seq(Callers)
      /\ old.shared /\ old.armed \in BOOLEAN /\ old.shared \in BOOLEAN
      /\ old.state = "open" /\ WireSound(old) /\ InUse(old)
  BY <1>1, SocketTyped, SessionAssumption
  DEF IInv, CacheSound, QueuesSound, WiresSound, Sockets, UseInv
<1>3. /\ k \in Socket /\ k.queue = Append(old.queue, c) /\ k.state = "open" /\ InUse(k)
  <2>1. CASE old.queue = <<>>
    <3>1. old.wire = <<>>
      BY <1>2, <2>1 DEF WireSound
    <3>2. k = [state |-> "open", shared |-> old.shared, armed |-> FALSE,
               queue |-> <<c>>, wire |-> <<c>>]
      BY <1>2, <2>1, <3>1 DEF Dispatch, With
    <3>3. <<c>> \in Seq(Callers) /\ Append(old.queue, c) = <<c>> /\ <<c>> # <<>>
      BY <2>1
    <3>. HIDE DEF k, old
    <3>. QED  BY <1>2, <3>2, <3>3 DEF Socket, InUse
  <2>2. CASE old.queue # <<>>
    <3>1. k = [state |-> old.state, shared |-> old.shared, armed |-> old.armed,
               queue |-> Append(old.queue, c), wire |-> old.wire]
      BY <2>2 DEF Joined, With
    <3>. HIDE DEF k, old
    <3>2. Append(old.queue, c) \in Seq(Callers) /\ Append(old.queue, c) # <<>>
      <4>1. old.queue \in Seq(Callers)
        BY <1>2
      <4>. HIDE DEF old
      <4>. QED  BY <4>1
    <3>. QED  BY <1>2, <2>2, <3>1, <3>2 DEF Socket, InUse
  <2>. QED  BY <2>1, <2>2
<1>. HIDE DEF k
<1>4. k.state \in For("queued")
  BY <1>3 DEF For
<1>. QED  BY <1>1, <1>2, <1>3, <1>4, JoinedUse DEF Unsettled

LEMMA CallInFlightUse == ASSUME IInv, UseInv, NEW c \in Callers, CallInFlight(c) PROVE UseInv'
<1>. DEFINE old == socket[inflight]
            k == Joined(old, c)
<1>1. /\ inflight \in Sockets /\ caller[c].pc = "idle" /\ Settle({c}, "connecting")
      /\ socket' = [socket EXCEPT ![inflight] = k]
  BY DEF CallInFlight, Wait, IInv, SessionTypeOK
<1>2. /\ old \in Socket /\ old.queue \in Seq(Callers) /\ old.wire \in Seq(Callers)
      /\ old.shared /\ old.state = "connecting" /\ InUse(old)
  BY <1>1, SocketTyped, SessionAssumption DEF IInv, CacheSound, Sockets, UseInv
<1>3. /\ k \in Socket /\ k.queue = Append(old.queue, c) /\ k.state = "connecting"
      /\ k.shared /\ k.armed = old.armed
  BY <1>2 DEF Joined, With, Socket
<1>. HIDE DEF k
<1>4. InUse(k)
  BY <1>2, <1>3 DEF InUse
<1>5. k.state \in For("connecting")
  BY <1>3 DEF For
<1>. QED  BY <1>1, <1>2, <1>3, <1>4, <1>5, JoinedUse DEF Unsettled

LEMMA OpenUse ==
  ASSUME IInv, UseInv, NEW c \in Callers, caller[c].pc = "idle", Settle({c}, "connecting"),
         NEW s \in Sockets, NEW shared \in BOOLEAN, Open(s, c, shared)
  PROVE  UseInv'
<1>. DEFINE k == [state |-> "connecting", shared |-> shared, armed |-> FALSE,
                  queue |-> <<c>>, wire |-> <<>>]
<1>1. socket[s] = Unused /\ socket' = [socket EXCEPT ![s] = k]
  BY DEF Open, IsNext
<1>2. /\ k \in Socket /\ k.queue = <<c>> /\ k.state = "connecting" /\ ~k.armed
  BY DEF Socket
<1>. HIDE DEF k
<1>3. socket[s].queue = <<>>
  BY <1>1 DEF Unused
<1>4. k.queue = Append(socket[s].queue, c)
  BY <1>2, <1>3
<1>5. InUse(k) /\ k.state \in For("connecting")
  BY <1>2 DEF InUse, For
<1>. QED  BY <1>1, <1>2, <1>3, <1>4, <1>5, JoinedUse DEF Unsettled

LEMMA AuthenticateUse == ASSUME IInv, UseInv, NEW s \in Sockets, Authenticate(s) PROVE UseInv'
<1>. DEFINE old == socket[s]
            k == Dispatch(old, "open", old.queue, old.wire)
<1>1. /\ old.state = "connecting" /\ socket' = [socket EXCEPT ![s] = k]
      /\ Settle(Queued(s), "queued")
  BY DEF Authenticate
<1>2. /\ old \in Socket /\ old.queue \in Seq(Callers) /\ old.wire = <<>>
      /\ old.queue # <<>> /\ InUse(old)
  BY <1>1, SocketTyped DEF IInv, QueuesSound, WiresSound, WireSound, UseInv, InUse
<1>3. /\ k \in Socket /\ k.queue = old.queue /\ k.state = "open" /\ k.shared = old.shared
  BY <1>2, Dispatched
<1>4. InUse(k)
  <2>1. k.armed = FALSE
    BY <1>2 DEF Dispatch, With
  <2>. HIDE DEF k, old
  <2>. QED  BY <1>2, <1>3, <2>1 DEF InUse
<1>5. Queued(s) \in SUBSET Callers /\ \A c \in Queued(s) : Holds(k, c)
  BY <1>3 DEF Queued, Holds
<1>. HIDE DEF k, old
<1>6. /\ \A c \in Queued(s) : caller'[c].pc = "queued"
      /\ \A c \in Callers \ Queued(s) : caller'[c] = caller[c]
  BY <1>1, <1>5, Settles DEF IInv, Unsettled
<1>7. k.state \in For("queued")
  BY <1>3 DEF For
<1>. QED  BY <1>1, <1>3, <1>4, <1>5, <1>6, <1>7, WaitersStay

\* All who wait on a socket that is closed are told; or none waits.
LEMMA CloseUse ==
  ASSUME IInv, UseInv, NEW s \in Sockets, Close(s),
         \/ Settle(Queued(s), "failed")
         \/ UNCHANGED caller /\ socket[s].queue = <<>>
  PROVE  UseInv'
<1>. DEFINE k == Closed(socket[s])
<1>1. k \in Socket /\ k.queue = <<>> /\ k.state = "closed" /\ ~k.armed
  BY SocketTyped DEF Closed, With, Socket, IInv
<1>2. socket' = [socket EXCEPT ![s] = k]
  BY DEF Close
<1>. HIDE DEF k
<1>3. InUse(k)
  BY <1>1 DEF InUse
<1>4. Queued(s) \in SUBSET Callers
  BY DEF Queued
<1>5. CASE Settle(Queued(s), "failed")
  <2>1. /\ \A c \in Queued(s) : caller'[c].pc = "failed"
        /\ \A c \in Callers \ Queued(s) : caller'[c] = caller[c]
    BY <1>4, <1>5, Settles DEF IInv, Unsettled
  <2>2. \A c \in Queued(s) : caller'[c].pc \notin Unsettled
    BY <2>1 DEF Unsettled
  <2>. QED  BY <1>1, <1>2, <1>3, <1>4, <2>1, <2>2, WaitersStay
<1>6. CASE UNCHANGED caller /\ socket[s].queue = <<>>
  <2>1. Queued(s) = {}
    BY <1>6 DEF Queued
  <2>. QED  BY <1>1, <1>2, <1>3, <1>4, <1>6, <2>1, WaitersStay
<1>. QED  BY <1>5, <1>6

LEMMA AnswerUse == ASSUME IInv, UseInv, NEW s \in Sockets, Answer(s) PROVE UseInv'
<1>. DEFINE old == socket[s]
            c == Head(old.queue)
            had == caller[c].answers
            answers == Append(had, Head(old.wire))
            pc == IF Len(answers) = BatchSize THEN "ok" ELSE "queued"
            k == Took(old, answers)
            cs == {c}
<1>1. /\ old.state = "open" /\ old.queue # <<>> /\ old.wire # <<>>
      /\ socket' = [socket EXCEPT ![s] = k]
      /\ caller' = [caller EXCEPT ![c] = [pc |-> pc, answers |-> answers]]
  BY DEF Answer
<1>2. /\ old \in Socket /\ old.queue \in Seq(Callers) /\ WireSound(old) /\ InUse(old)
      /\ old.shared \in BOOLEAN /\ ~old.armed
  BY <1>1, SocketTyped DEF IInv, QueuesSound, WiresSound, UseInv, InUse
<1>3. c \in Callers /\ old.wire = <<c>> /\ 1 \in DOMAIN old.queue /\ old.queue[1] = c
  BY <1>1, <1>2 DEF WireSound
<1>4. Runs(caller[c]) /\ had \in Seq(Callers)
  BY <1>3 DEF IInv, QueuesSound, QueuedRun, SessionTypeOK, Caller
<1>. HIDE DEF old, c, had
<1>5. /\ answers \in Seq(Callers) /\ Len(answers) <= BatchSize
      /\ Len(answers) \in Nat /\ BatchSize \in Nat
  <2>1. Len(had) < BatchSize
    BY <1>4 DEF Runs, had
  <2>. QED  BY <1>3, <1>4, <2>1, SessionAssumption
<1>. HIDE DEF answers
<1>6. /\ k \in Socket /\ k.shared = old.shared
      /\ \/ Len(answers) < BatchSize /\ k.queue = old.queue /\ k.state = "open"
         \/ /\ ~(Len(answers) < BatchSize) /\ old.shared
            /\ k.queue = Tail(old.queue) /\ k.state = "open"
         \/ ~(Len(answers) < BatchSize) /\ ~old.shared /\ k.queue = <<>>
  BY <1>1, <1>2, <1>3, <1>5, TookSocket DEF c
<1>7. InUse(k)
  <2>1. CASE Len(answers) < BatchSize
    <3>1. k.armed = old.armed
      BY <2>1 DEF Took, GoesOn, With
    <3>. HIDE DEF k
    <3>. QED  BY <1>1, <1>2, <1>6, <2>1, <3>1 DEF InUse
  <2>2. CASE ~(Len(answers) < BatchSize) /\ old.shared
    <3>1. k.armed <=> Tail(old.queue) = <<>>
      BY <2>2 DEF Took, HandOver, Dispatch, With
    <3>. HIDE DEF k
    <3>. QED  BY <1>1, <1>2, <1>6, <2>2, <3>1 DEF InUse
  <2>3. CASE ~(Len(answers) < BatchSize) /\ ~old.shared
    <3>1. k.state = "closed" /\ k.armed = FALSE
      BY <2>3 DEF Took, Closed, With
    <3>. HIDE DEF k
    <3>. QED  BY <1>6, <2>3, <3>1 DEF InUse
  <2>. QED  BY <2>1, <2>2, <2>3
<1>. HIDE DEF k
<1>8. /\ caller'[c].pc = pc
      /\ \A b \in Callers \ cs : caller'[b] = caller[b]
  BY <1>1, <1>3 DEF IInv, SessionTypeOK
\* Who is behind the head of the queue stays in it, if anyone is.
<1>9. \A d \in Queued(s) \ cs : Holds(k, d) /\ k.state = socket[s].state
  <2>. SUFFICES ASSUME NEW i \in DOMAIN old.queue, old.queue[i] # c
                PROVE  Holds(k, old.queue[i]) /\ k.state = "open"
    BY <1>1 DEF Queued, old
  <2>1. i # 1 /\ i \in 1..Len(old.queue)
    BY <1>2, <1>3
  <2>2. CASE k.queue = old.queue /\ k.state = "open"
    BY <2>2 DEF Holds
  <2>3. CASE k.queue = Tail(old.queue) /\ k.state = "open"
    <3>1. i - 1 \in DOMAIN Tail(old.queue) /\ Tail(old.queue)[i - 1] = old.queue[i]
      BY <1>1, <1>2, <2>1
    <3>. QED  BY <2>3, <3>1 DEF Holds
  <2>4. CASE ~old.shared
    BY <1>2, <2>1, <2>4 DEF InUse
  <2>. QED  BY <1>6, <2>2, <2>3, <2>4
<1>10. ASSUME pc \in Unsettled PROVE Holds(k, c) /\ k.state \in For(pc)
  <2>1. pc = "queued" /\ Len(answers) < BatchSize
    BY <1>5, <1>10 DEF Unsettled
  <2>. QED  BY <1>3, <1>6, <2>1 DEF Holds, For
<1>11. \A d \in cs : caller'[d].pc \in Unsettled => Holds(k, d) /\ k.state \in For(caller'[d].pc)
  <2>. HIDE DEF pc
  <2>. QED  BY <1>8, <1>10
<1>12. cs \in SUBSET Callers
  BY <1>3
<1>. HIDE DEF cs
<1>. QED  BY <1>1, <1>6, <1>7, <1>8, <1>9, <1>11, <1>12, WaitersStay

\* Those who wait on the cached socket find it closed, and still wait on it.
LEMMA OnModuleDestroyUse == ASSUME IInv, UseInv, OnModuleDestroy PROVE UseInv'
<1>. DEFINE Gone(k) == With(k, "closed", FALSE, k.queue, <<>>)
<1>1. /\ UNCHANGED caller
      /\ socket' = [s \in Sockets |-> IF s = cache THEN Gone(socket[s]) ELSE socket[s]]
  BY DEF OnModuleDestroy
<1>2. cache \in Sockets => socket[cache].state = "open"
  BY SessionAssumption DEF IInv, CacheSound, Sockets
<1>3. ASSUME NEW s \in Sockets
      PROVE  /\ socket'[s].queue = socket[s].queue /\ InUse(socket'[s])
             /\ \/ socket'[s].state = socket[s].state
                \/ socket[s].state = "open" /\ socket'[s].state = "closed"
  <2>1. InUse(socket[s])
    BY DEF UseInv
  <2>2. CASE s = cache
    <3>1. /\ socket'[s].queue = socket[s].queue /\ socket'[s].state = "closed"
          /\ socket'[s].armed = FALSE /\ socket'[s].shared = socket[s].shared
      BY <1>1, <2>2 DEF With
    <3>. QED  BY <1>2, <2>1, <2>2, <3>1 DEF InUse
  <2>3. CASE s # cache
    <3>1. socket'[s] = socket[s]
      BY <1>1, <2>3
    <3>. QED  BY <2>1, <3>1
  <2>. QED  BY <2>2, <2>3
<1>4. ASSUME NEW c \in Callers, NEW s \in Sockets,
             Holds(socket[s], c), socket[s].state \in For(caller[c].pc)
      PROVE  Holds(socket'[s], c) /\ socket'[s].state \in For(caller[c].pc)
  BY <1>3, <1>4 DEF Holds, For
<1>5. \A c \in Callers : Awaits(c)'
  BY <1>1, <1>4 DEF UseInv, Awaits
<1>. QED  BY <1>3, <1>5 DEF UseInv

LEMMA UseStep == IInv /\ UseInv /\ [SessionNext]_sessionVars => UseInv'
<1>. SUFFICES ASSUME IInv, UseInv, [SessionNext]_sessionVars PROVE UseInv'
  OBVIOUS
<1>1. ASSUME NEW c \in Callers, Call(c) PROVE UseInv'
  <2>1. CASE CallOpens(c)
    BY <2>1, OpenUse DEF CallOpens, Wait
  <2>2. CASE CallOnce(c)
    BY <2>2, OpenUse DEF CallOnce, Wait
  <2>. QED  BY <1>1, <2>1, <2>2, CallCachedUse, CallInFlightUse DEF Call
<1>2. ASSUME NEW s \in Sockets,
             ConnectFails(s) \/ SocketFails(s) \/ CommandTimeout(s)
      PROVE  UseInv'
  BY <1>2, CloseUse DEF ConnectFails, SocketFails, CommandTimeout
<1>3. ASSUME NEW s \in Sockets, IdleTimeout(s) PROVE UseInv'
  <2>1. socket[s].queue = <<>>
    BY <1>3 DEF IdleTimeout, UseInv, InUse
  <2>. QED  BY <1>3, <2>1, CloseUse DEF IdleTimeout
<1>4. ASSUME NEW s \in Sockets, Authenticate(s) \/ Answer(s) PROVE UseInv'
  BY <1>4, AuthenticateUse, AnswerUse
<1>5. CASE OnModuleDestroy
  BY <1>5, OnModuleDestroyUse
<1>6. CASE UNCHANGED sessionVars
  BY <1>6 DEF sessionVars, UseInv, Awaits
<1>. QED  BY <1>1, <1>2, <1>3, <1>4, <1>5, <1>6 DEF SessionNext

\* However sockets fail, are closed or destroyed while requests wait for the
\* connection, for their turn or for an answer, each of them stays where a timer or an
\* answer will find it; and no socket stays open that nobody uses or will close.
THEOREM NoneForgotten == SessionSpec => []NobodyIsForgotten
<1>1. SessionInit => UseInv
  <2>. SUFFICES ASSUME SessionInit PROVE UseInv
    OBVIOUS
  <2>1. \A c \in Callers : caller[c].pc \notin Unsettled
    BY DEF SessionInit, Unsettled
  <2>2. \A s \in Sockets : socket[s] = Unused
    BY DEF SessionInit
  <2>3. InUse(Unused)
    BY DEF InUse, Unused
  <2>. QED  BY <2>1, <2>2, <2>3 DEF UseInv, Awaits
<1>2. UseInv => NobodyIsForgotten
  BY DEF UseInv, InUse, Awaits, Holds, For, NobodyIsForgotten, Queued
<1>. QED  BY <1>1, <1>2, UseStep, Invariance, PTL DEF SessionSpec
=============================================================================
