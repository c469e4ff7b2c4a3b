CONSTANTS
  Keys = {k1}
  Principals = {alice}
  Bodies = {b1, b2}
  Simulations = {s1}
  NoSimulation = NoSimulation
  Executions = {e1}
  NoExecution = NoExecution
  Requests = {r1, r2}
  Observers = {o1}
  Flows = {f1}
  NoFlow = NoFlow
  Capability = Capability
  KeysExpire = FALSE
  OthersExecute = FALSE
  MaxFaults = 0
  MaxFlowFaults = 1
  Tabs = {t1}
  TabOf <- OneTab
  KeyOf <- OnePlan
  NoBody = NoBody
  MayWithdraw = TRUE
SPECIFICATION FlowSpec
SYMMETRY FlowSymmetry
INVARIANTS
  FlowInvariant
  PostedAsReviewed
PROPERTIES
  FlowMonotone
  ImplementsJournal
