SPECIFICATION Spec
CONSTANTS
  Softwares = {s1}
  Formulae = {}
  Clients = {c1, c2}
  Workers = {1, 2}
  UserActions = {"install", "uninstall"}
  Workload = {"enqueue", "stream", "cancel"}
  Faults = {"custom", "prepare"}
  MaxQueue = 3
  MaxItems = 1
  MaxStreams = 2
INVARIANT QueueInv
INVARIANT SerialScripts
INVARIANT QueueOneByOne
INVARIANT SuccessIsOnHost
SYMMETRY Symmetry
CHECK_DEADLOCK FALSE
