CONSTANTS
  Keys = {k1}
  Principals = {alice, bob}
  Bodies = {b1, b2}
  Simulations = {s1, s2}
  NoSimulation = NoSimulation
  Executions = {e1, e2}
  NoExecution = NoExecution
  Requests = {r1, r2}
  Observers = {o1}
  Flows = {}
  NoFlow = NoFlow
  Capability = Capability
  KeysExpire = FALSE
  OthersExecute = FALSE
  MaxFaults = 2
SPECIFICATION Spec
SYMMETRY Symmetry
INVARIANTS
  JournalCoherent
  BroadcastJournaled
  FailedMeansUnsettled
PROPERTIES
  JournalMonotone
  ImplementsLifecycle
