CONSTANTS
  Parts = {"tab", "agents", "voice", "capture"}
  owner = owner
  guest = guest
  t1 = t1
  s1 = s1
  d1 = d1
  a1 = a1
  k1 = k1
  c1 = c1
  c2 = c2
  NoUser = NoUser
  NoToken = NoToken
  NoDoc = NoDoc
  NoCall = NoCall
  i1 = i1
  w1 = w1
  w2 = w2
  r1 = r1
  r2 = r2
  NoRun = NoRun
  u1 = u1
  u2 = u2
  Project = Project
  None = None
SPECIFICATION Spec
PROPERTIES
  EveryCallEnds
  ReviewEnds
  RequestsEnd
  SessionsEnd
CHECK_DEADLOCK FALSE
