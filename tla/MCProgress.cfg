SPECIFICATION FairSpec
CONSTANTS
  Known = {"ann", "bob"}
  Unknown = {"nemo"}
  MaxCopies = 3
  Spoken = TRUE
  Flights = 2
  Records = {1, 2}
  MaxRecords = 3
  MaxWrites = 2
  Reader = "head"
  HandshakeBlocks = FALSE
  WriteBlocks = TRUE
  PeerFails = TRUE
  PipeSize = 2
  MaxOutput = 3
  TimeLimit = 3
  Conns = {c1}
  Modules = {a}
  Sockets = {s1, s2, s3}
  None = None
INVARIANTS
  SpeaksForItself NoPublishedChild ChildIsItsUser
  TransportExact WatchedToTheEnd
PROPERTIES TransportGoesOn ProgramReaped LoopReturns Reconnects
CHECK_DEADLOCK FALSE
