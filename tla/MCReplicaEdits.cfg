\* One entity, and every local writer at work on its row.
SPECIFICATION Spec
CONSTANTS
  A = A
  B = B
  e1 = e1
  e2 = e2
  e3 = e3
  x1 = x1
  x2 = x2
  x3 = x3
  v1 = v1
  v2 = v2
  u1 = u1
  u2 = u2
  s1 = s1
  Nil = Nil
  Global = Global
  RowId = {1, 2}
  Project = {A}
  Entity = {e1}
  Text = {x1, x2}
  Vol = {v1, v2}
  Account = {u1}
  ServerSet = {}
  Clean <- CleanIdentity
  Repair <- NoRepair
  Contribs <- OneContributor
  Scopes = {A}
  LocalText = {x1, x2}
  OptOuts = {}
  Rescopes <- NoRescope
  MaxVersion = 2
  MaxSeq = 2
  MaxJournal = 2
SYMMETRY Payloads
INVARIANTS RecordedHashIsCanonical
PROPERTIES ChangesTravel PendingIntentSurvives EntriesAreEarned
