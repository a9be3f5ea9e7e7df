SPECIFICATION MCSpec
CONSTANTS
  u1 = u1
  r1 = r1
  r2 = r2
  i1 = i1
  i2 = i2
  p = p
  q = q
  Absent = Absent
  Missing = Missing
  Others = {u1}
  Prefix = {r1, r2}
  Form = {"plain", "odd", "broken"}
  MaxGroups = 2
  MaxHandlers = 2
  MaxInits = 2
  MaxByHand = 2
  Install = {i1, i2}
  Foreign = {u1}
  Run = {p, q}
  Entries <- MCEntries
  Servers <- MCServers
  Left <- MCLeft
  Registered <- MCRegistered
  MaxRuns = 2
  MaxEdits = 1
  MaxFaults = 1
SYMMETRY Symmetry
INVARIANTS
  InitIsWarranted
PROPERTIES
  ApprovalsAreKept
  WiringIsKept
CHECK_DEADLOCK FALSE
