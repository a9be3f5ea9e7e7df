\* Two MCP servers start at the same time.
SPECIFICATION MCSpec
CONSTANTS
  d = d
  e = e
  f = f
  Nil = Nil
  Events = {1, 2}
  Process = {e, f}
  Daemon = {}
  Overlap = TRUE
INVARIANTS OneServes
