CONSTANTS
  Keys = {k1}
  Principals = {alice}
  Bodies = {b1}
  Simulations = {s1}
  NoSimulation = NoSimulation
  Executions = {e1}
  NoExecution = NoExecution
  Requests = {r1}
  Observers = {o1}
  Flows = {f1}
  NoFlow = NoFlow
  Capability = Capability
  KeysExpire = FALSE
  OthersExecute = FALSE
  MaxFaults = 1
  MaxFlowFaults = 1
  Tabs = {t1}
  TabOf <- OneTab
  KeyOf <- OnePlan
  NoBody = NoBody
  MayWithdraw = TRUE
SPECIFICATION FairFlowSpec
PROPERTIES
  TakenExecutionRecorded
