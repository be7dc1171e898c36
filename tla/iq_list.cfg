SPECIFICATION Spec
CONSTANTS
  Softwares = {s1}
  Formulae = {}
  Clients = {c1}
  Workers = {1, 2}
  UserActions = {"install", "uninstall"}
  Workload = {"enqueue", "dismiss", "cancel", "brewsync"}
  Faults = {"prepare", "script", "timeout"}
  MaxQueue = 3
  MaxItems = 2
  MaxStreams = 0
INVARIANT OneWorker
INVARIANT NoLostWakeup
INVARIANT RunningRowsHaveWorker
INVARIANT FailedRowsMatchJob
PROPERTY EndsOnce
PROPERTY RowsLeaveWithCause
CHECK_DEADLOCK FALSE
