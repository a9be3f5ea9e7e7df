\* Two entities, an opted-out row and a conflict set: twins, shadow associations,
\* aliases and resolutions.
SPECIFICATION Spec
CONSTANTS
  A = A
  B = B
  e1 = e1
  e2 = e2
  e3 = e3
  x1 = x1
  x2 = x2
  x3 = x3
  v1 = v1
  v2 = v2
  u1 = u1
  u2 = u2
  s1 = s1
  Nil = Nil
  Global = Global
  RowId = {1, 2, 3}
  Project = {A}
  Entity = {e1, e2}
  Text = {x1}
  Vol = {v1}
  Account = {u1, u2}
  ServerSet = {}
  Clean <- CleanIdentity
  Repair <- NoRepair
  Contribs <- TwoContributors
  Scopes = {A}
  LocalText = {x1}
  OptOuts = {1}
  Rescopes <- NoRescope
  MaxVersion = 2
  MaxSeq = 4
  MaxJournal = 1
INVARIANTS OneEntityPerRow
PROPERTIES NothingVanishes
