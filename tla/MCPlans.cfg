\* Three processes that create, claim, end and sweep, with failures; the others as they are.
SPECIFICATION MCSpec
CONSTANTS
  Nil = Nil
  x = x
  y = y
  main = main
  dev = dev
  feat = feat
  n1 = n1
  s1 = s1
  Agents = {a1, a2, a3}
  Ids = {x, y}
  Steps = {t1}
  Notes = {}
  Decisions = {}
  Ops = {"create", "step", "end", "sweep"}
  CanFail = TRUE
  Id = {x, y}
  Project = {n1}
  Proc = {x, y}
  Types = {"file", "time"}
  Limits = {2}
  Cap = 1
  MaxActive = 2
  None = None
  Unset = Unset
  Session = {x, y, n1}
  Branch = {main, dev, feat}
  Task = {x, y, n1}
  PlanName = {n1}
  Synth <- SynthGoal
  Scan = 2
  Retention = 2
  MaxTime = 3
  MaxStored = 3
  MaxCreates = 2
  MaxCount = 7
SYMMETRY Symmetry
CHECK_DEADLOCK FALSE
PROPERTIES NotesNeedARace
INVARIANTS PlansSafe GoalsAreHonest OvershootIsBounded
