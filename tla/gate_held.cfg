SPECIFICATION GateSpec
CONSTANTS
  Softwares = {s1}
  Formulae = {}
  Clients = {c1}
  Workers = {1}
  UserActions = {"install"}
  Workload = {"enqueue"}
  Faults = {"gate", "script"}
  MaxQueue = 3
  MaxItems = 1
  MaxStreams = 0
  Background = {b1}
  Streamed = {v1}
  Direct = {}
  SetupFaults = {"client", "start"}
  MaxStops = 1
INVARIANT HeldDuringScript
CHECK_DEADLOCK FALSE
