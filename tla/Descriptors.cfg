SPECIFICATION Spec
CONSTANTS
  Fds = {2, 3, 4}
  Srv = 1
  MaxSockets = 4
  Does = {"respond", "defer", "proxy", "attach", "nomem"}
INVARIANTS
  TypeOK
  WatchedIsOwn
  OpenIsOwned
  PairsAreMutual
  DisconnectOnce
  GenerationsTellApart
PROPERTY
  PairsCloseTogether
