CONSTANTS
  Parts = {"capture", "narration", "tools"}
  None = None
  MaxSessions = 2
  MaxTurns = 2
  MaxJobs = 2
  MaxToolFaults = 1
  Handlers = {h1, h2}
  Runners = {p1, p2}
  Subjects = {alice, bob}
  NoSubject = NoSubject
  Recordings = {audio1, audio2}
  NoRecording = NoRecording
  MaxFaults = 2
SPECIFICATION PartsSpec
SYMMETRY Interchangeable
INVARIANTS
  CaptureOwned
  SpokenOnce
  DeployedOnce
PROPERTIES
  WordsDelivered
  NeverRetryable
CHECK_DEADLOCK FALSE
