SPECIFICATION FairSpec
CONSTANTS
  Softwares = {s1}
  Formulae = {}
  Clients = {c1}
  Workers = {1, 2}
  UserActions = {"uninstall"}
  Workload = {"reconcile", "stream", "enqueue"}
  Faults = {"timeout", "db"}
  MaxQueue = 3
  MaxItems = 1
  MaxStreams = 1
PROPERTY PendingProgress
PROPERTY JobsEnd
PROPERTY SyncEnds
CHECK_DEADLOCK FALSE
