SPECIFICATION ServingSpec
CONSTANTS
  Conns = {c1, c2}
  Streams <- ServedStreams
  BufSize = 3
  FirstSize = 2
  MaxHead = 8
  MaxBody = 2
  MaxStalls = 1
  Slow = FALSE
  Names = {"a", "b"}
  Late = TRUE
  MaxLookups = 2
  MaxPayload = 2
  MaxFrames = 3
  AppCloses = TRUE
  Modules = {a, b}
  Sockets = {s1, s2, s3}
  None = None
  MaxDelay = 4
  MaxCalls = 6
  MaxFd = 3
  Announces = FALSE
  MaxConnections = 4
  MaxDepth = 8
SYMMETRY ConnSymmetry
INVARIANTS
  TypesOK
  RequestsWhole NoCompleteHeadWaits BuffersBounded
  FindsItsOwn
  MessagesWhole
  StatusIsTheSockets
  ReportedHear NeverClosesTheDead
PROPERTY HonestReturn
CHECK_DEADLOCK FALSE
