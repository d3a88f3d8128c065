SPECIFICATION Spec
CONSTANTS
  Fds = {2, 3}
  Srv = 1
  MaxSockets = 3
  Does = {"proxy"}
INVARIANT
  DisconnectFires
