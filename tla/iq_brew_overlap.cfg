SPECIFICATION Spec
CONSTANTS
  Softwares = {s1}
  Formulae = {f1}
  Clients = {c1}
  Workers = {1, 2}
  UserActions = {"install", "uninstall"}
  Workload = {"brew", "stream"}
  Faults = {}
  MaxQueue = 3
  MaxItems = 1
  MaxStreams = 1
INVARIANT NoOverlappingPackageJobs
CHECK_DEADLOCK FALSE
