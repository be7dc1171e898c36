SPECIFICATION FairGateSpec
CONSTANTS
  Softwares = {}
  Formulae = {f1}
  Clients = {c1}
  Workers = {1}
  UserActions = {"install"}
  Workload = {"brew", "reconcile"}
  Faults = {"gate"}
  MaxQueue = 3
  MaxItems = 1
  MaxStreams = 0
  Background = {b1}
  Streamed = {v1}
  Direct = {r1}
  SetupFaults = {"client", "start"}
  MaxStops = 1
INVARIANT GateTypeOK
INVARIANT GateNotLeftShut
PROPERTY QueueStaysOut
PROPERTY PendingProgress
PROPERTY SetupsEnd
CHECK_DEADLOCK FALSE
