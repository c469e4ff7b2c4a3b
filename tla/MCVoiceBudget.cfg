CONSTANTS
  Users = {u1, u2, u3}
  Project = Project
  Requests = {r1, r2}
  Capabilities = {"transcription", "readback"}
  Offerings <- OneAtATime
  Sizes = {1, 2}
  DayTicks = 2
  MonthDays = 2
  Redeem = 1
  Session = 3
  RequestLimit = 2
  UserLimit <- PerUser
  ProjectLimit <- PerProject
  ProjectSessions = 2
  FirstTick = 2
  LastTick = 6
  MaxLag = 1
  MaxCalls = 3
SPECIFICATION Spec
SYMMETRY Interchangeable
INVARIANTS
  BudgetsKept
  StreamsLeased
PROPERTIES
  MinuteGuard
