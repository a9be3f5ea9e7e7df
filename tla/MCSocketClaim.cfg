\* The daemon d and two MCP servers, whose starts do not overlap; and the relays.
SPECIFICATION MCFairSpec
CONSTANTS
  d = d
  e = e
  f = f
  Nil = Nil
  Events = {1, 2}
  Process = {d, e, f}
  Daemon = {d}
  Overlap = FALSE
INVARIANTS OneServes ClaimIsKept EventsAreAccountedFor
PROPERTIES SocketGetsServed EveryRelayEnds
