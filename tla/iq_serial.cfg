SPECIFICATION Spec
CONSTANTS
  Softwares = {s1}
  Formulae = {f1}
  Clients = {c1, c2}
  Workers = {1, 2}
  UserActions = {"install", "uninstall"}
  Workload = {"enqueue", "brew", "retry", "switch", "legacy", "prune"}
  Faults = {"gate", "db"}
  MaxQueue = 1
  MaxItems = 2
  MaxStreams = 0
PROPERTY IsSerialQueue
PROPERTY RowsLeaveWithCause
CHECK_DEADLOCK FALSE
