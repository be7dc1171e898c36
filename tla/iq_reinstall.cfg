SPECIFICATION Spec
CONSTANTS
  Softwares = {s1}
  Formulae = {}
  Clients = {c1}
  Workers = {1, 2}
  UserActions = {"install", "uninstall"}
  Workload = {"enqueue"}
  Faults = {}
  MaxQueue = 3
  MaxItems = 2
  MaxStreams = 0
PROPERTY UserItemsKept
CHECK_DEADLOCK FALSE
