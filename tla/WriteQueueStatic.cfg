SPECIFICATION Spec
CONSTANTS
  QueueSize = 2
  MaxWrite = 3
  MaxBytes = 6
  MaxChunks = 2
  Handlers = {"static"}
INVARIANT ResponseComplete
