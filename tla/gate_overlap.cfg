SPECIFICATION GateSpec
CONSTANTS
  Softwares = {s1}
  Formulae = {}
  Clients = {c1}
  Workers = {1}
  UserActions = {"install"}
  Workload = {"enqueue"}
  Faults = {"gate"}
  MaxQueue = 3
  MaxItems = 1
  MaxStreams = 0
  Background = {b1}
  Streamed = {}
  Direct = {}
  SetupFaults = {}
  MaxStops = 0
INVARIANT SetupsDoNotOverlap
CHECK_DEADLOCK FALSE
