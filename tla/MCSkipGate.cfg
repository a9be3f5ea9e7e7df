\* Two hooks with one recall pass and every kind of writer; the memory tool; a Stop.
SPECIFICATION MCSpec
CONSTANTS
  Key = {k1, k2}
  Passes = 1
  SkipTTL = 2
  FtsTTL = 1
  MaxEntries = 1
  MaxWrites = 2
  MaxTime = 4
  MaxVersion = 2
  A = A
  i1 = i1
  i2 = i2
  f1 = f1
  f2 = f2
  t1 = t1
  t2 = t2
  c1 = c1
  Nil = Nil
  Missing = Missing
  Global = Global
  Unmapped = Unmapped
  Unset = Unset
  Garbled = Garbled
  p = p
  g = g
  r1 = r1
  Session = {s1}
  Path = {p}
  Gate = {g}
  ReadOnly = {}
  Config = {c1}
  PathRules <- StopPathRules
  Rule = {r1}
  RuleGates <- NamesNothing
  RulePaths <- NamesNothing
  Tool <- StopTool
  Evaluator = {w1}
  MaxWarnings = 1
  MaxRecording = 1
  MaxCalls = 2
  MaxTree = 1
  MaxRevision = 2
  Agent = {a1}
  Id = {i1, i2}
  Project = {A}
  Category = {c1}
  Shareable = {c1}
  Text = {t1, t2}
  Meta = {m1}
  Stem <- SameStem
  Clashing = {}
  Planned = {}
  FreeFile = {}
  Home <- NoHome
  FileBytes = 0
  MaxFiles = 0
  AggregateBytes = 0
  MaxRowRevision = 3
SYMMETRY Symmetry
CHECK_DEADLOCK FALSE
INVARIANTS HeardIsServed GenerationIsServed EditsMeetWhatWasSeen JournalTellsPlace ChangesCountedOnce
PROPERTIES PassIsCurrent
