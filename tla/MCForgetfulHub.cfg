CONSTANTS
  Keys = {k1}
  Principals = {alice}
  Bodies = {b1}
  Simulations = {s1}
  NoSimulation = NoSimulation
  Executions = {e1, e2}
  NoExecution = NoExecution
  Requests = {r1, r2}
  Observers = {o1}
  Flows = {}
  NoFlow = NoFlow
  Capability = Capability
  KeysExpire = TRUE
  OthersExecute = TRUE
  MaxFaults = 2
SPECIFICATION Spec
SYMMETRY Symmetry
INVARIANTS
  SubmissionInvariant
  RepliesDurable
  VerifiedMeansSettled
CHECK_DEADLOCK FALSE
