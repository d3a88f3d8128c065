SPECIFICATION Spec
CONSTANTS
  Fds = {2, 3}
  Srv = 1
  MaxSockets = 2
  Does = {"defer"}
PROPERTY
  StaleHandleIsNoOp
