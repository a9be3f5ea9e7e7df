\* Two projects fed by streams of their own, one of them renamed; anchors repaired,
\* and a cleaning that rewrites.
SPECIFICATION Spec
CONSTANTS
  A = A
  B = B
  e1 = e1
  e2 = e2
  e3 = e3
  x1 = x1
  x2 = x2
  x3 = x3
  v1 = v1
  v2 = v2
  u1 = u1
  u2 = u2
  s1 = s1
  Nil = Nil
  Global = Global
  RowId = {1, 2}
  Project = {A, B}
  Entity = {e1}
  Text = {x1, x3}
  Vol = {v1}
  Account = {u1}
  ServerSet = {}
  Clean <- CleanRewriting
  Repair <- RepairX1
  Contribs <- OneContributor
  Scopes = {A}
  LocalText = {x1}
  OptOuts = {}
  Rescopes <- RenameAToB
  MaxVersion = 2
  MaxSeq = 2
  MaxJournal = 1
PROPERTIES ProjectBoundary
