CONSTANTS
  Keys = {k1}
  Principals = {alice}
  Bodies = {b1}
  Simulations = {s1}
  NoSimulation = NoSimulation
  Executions = {e1}
  NoExecution = NoExecution
  Requests = {r1, r2}
  Observers = {o1}
  Flows = {}
  NoFlow = NoFlow
  Capability = Capability
  KeysExpire = FALSE
  OthersExecute = FALSE
  MaxFaults = 2
SPECIFICATION FairSpec
PROPERTIES
  PreparedGetsAccepted
  SettledGetsVerified
