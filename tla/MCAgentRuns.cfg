CONSTANTS
  Parts = {"attempts", "memory"}
  i1 = i1
  i2 = i2
  w1 = w1
  w2 = w2
  NoRun = NoRun
  Inputs = {i1, i2}
  Proposed = {i2}
  Workers = {w1, w2}
  RunIds = {r1, r2, r3}
  MaxAttempts = 3
  MaxFaults = 1
  MaxForgotten = 1
SYMMETRY Interchangeable
SPECIFICATION PartsSpec
INVARIANTS
  SpendBounded
  RunInvariant
PROPERTIES
  ReviewKept
  SummaryAdvances
