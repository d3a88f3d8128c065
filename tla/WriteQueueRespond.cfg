SPECIFICATION Spec
CONSTANTS
  QueueSize = 2
  MaxWrite = 3
  MaxBytes = 8
  MaxChunks = 2
  Handlers = {"respond", "file"}
INVARIANT ResponseComplete
