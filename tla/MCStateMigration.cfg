\* Two runs of the command, a daemon, an agent without a pid file, a crash and a power loss.
SPECIFICATION MCSpec
CONSTANTS
  Migrator = {m1, m2}
  Proc = {daemon, agent}
  Owner = {daemon}
  Commits = {c1, c2}
  ValueOnly = {c2}
  HandFile = {h1}
  Fork = Fork
  LegacyConfig = LegacyConfig
  Copy = Copy
  Absent = Absent
  Torn = Torn
  Free = Free
  p1 = p1
  p2 = p2
  p3 = p3
  r1 = r1
  r2 = r2
  r3 = r3
  Nil = Nil
  Process = {p1, p2, p3}
  Row = {r1, r2}
  Start <- Released
  MaxOpens = 4
  MaxCorruptions = 0
  MaxCrashes = 1
  MaxPowerLosses = 1
SYMMETRY Symmetry
CHECK_DEADLOCK FALSE
INVARIANTS NoWriteLost NothingClobbered OpenedIsSound
PROPERTIES RemovalsHaveACause
