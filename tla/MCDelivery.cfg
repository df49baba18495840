SPECIFICATION MCSpec
CONSTANTS
  h1 = h1
  Handlers = {h1}
  Attempts = 2
  Sends = 2
  FallbackSends = 1
  MaxJobs = 1
  MaxSession = 2
  MaxFaults = 3
  MaxFlight = 2
  c1 = c1
  c2 = c2
  c3 = c3
  Callers = {c1, c2, c3}
  MaxSockets = 3
  BatchSize = 2
INVARIANTS TypeOK SessionTypeOK AnswersAreOwn OneConnection
  AcknowledgedIsEnded NobodyIsForgotten
PROPERTIES LateRequestSparesNewSession DisconnectCarriesThrough EveryJobEnds
  EveryCallSettles SocketsAreReleased
CHECK_DEADLOCK FALSE
