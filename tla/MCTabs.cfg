CONSTANTS
  Parts = {"invites", "drafts"}
  owner = owner
  guest = guest
  t1 = t1
  t2 = t2
  s1 = s1
  s2 = s2
  d1 = d1
  d2 = d2
  a1 = a1
  a2 = a2
  k1 = k1
  k2 = k2
  r1 = r1
  c1 = c1
  c2 = c2
  NoUser = NoUser
  NoToken = NoToken
  NoDoc = NoDoc
  NoCall = NoCall
  Tabs = {t1, t2}
  Users = {owner, guest}
  Seats = {s1, s2}
  Walleted = {s1, s2}
  Tokens = {k1, k2}
  Docs = {d1, d2}
  Devices = {a1, a2}
  Runs = {r1}
  Calls = {c1, c2}
  OwnerOf <- MCOwnerOf
  SeatTab <- MCSeatTab
  DocSeats <- MCDocSeats
  DocPayer <- MCDocPayer
  DeviceUser <- MCDeviceUser
  DeviceTab <- MCDeviceTab
  RunDevice <- MCRunDevice
  StrayUrls = TRUE
  MaxRevision = 2
  MaxLost = 1
SPECIFICATION PartsSpec
SYMMETRY Interchangeable
INVARIANTS
  SeatsCoherent
  FrozenSource
PROPERTIES
  NoLostUpdate
