SPECIFICATION FairSpec
CONSTANTS
  QueueSize = 3
  MaxWrite = 4
  MaxBytes = 10
  MaxChunks = 3
  Handlers = {"respond", "file", "static", "defer", "write"}
INVARIANTS IndInv TypeOK
PROPERTIES InOrderDelivery DoneResponsesClose
