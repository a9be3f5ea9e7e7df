------------------------------ MODULE MCWiring ------------------------------
(***************************************************************************)
(* `waykeep init` for either client.  The two share no file, so a behaviour *)
(* is one of CodexTrust or of ClientInit, whose runs meet over either the   *)
(* hooks of settings.json or the servers of both files; `part` tells which. *)
(***************************************************************************)
EXTENDS CodexTrust, ClientInit, TLC

CONSTANTS u1, r1, r2, i1, i2, p, q

VARIABLE part

-----------------------------------------------------------------------------
\* Of the user's, ours, of both, without handlers.
MCEntries == {{}, {u1}, {i1}, {i1, u1}}

\* One of the user's that launches an install of ours, and one that init wrote;
\* for the other install that is another's.
MCServers == {Missing, [at |-> Missing, form |-> "wrapper"], [at |-> i1, form |-> "exact"]}

\* Any entry under either event.
HooksLeft ==
  {Missing} \cup {[Empty EXCEPT !.hooks = [wired |-> w, retired |-> r]] :
                   w \in {{}} \cup {{e} : e \in MCEntries}, r \in {{}} \cup {{e} : e \in MCEntries}}

\* An inert block of one of the installs, or none.
ServersLeft == {Missing, [Empty EXCEPT !.server = [at |-> i1, form |-> "exact"]]}

Unregistered == [n \in Name |-> Missing]

MCLeft == HooksLeft \cup ServersLeft
MCRegistered == [Name -> MCServers]

-----------------------------------------------------------------------------
\* Any form of config.toml, or two edits by hand, with groups of one handler
\* and one install.
OneHandler == \A i \in DOMAIN hooks' : Len(hooks'[i]) <= 1
OneRelay ==
  /\ stage' # "idle" => plan'.relay = r1
  /\ \A i \in DOMAIN hooks' : \A c \in Range(hooks'[i]) : IsWaykeep(c) => c.relay = r1

\* An older install is that of one relay.
MCInit ==
  /\ TrustInit /\ WireInit
  /\ \A i \in DOMAIN hooks : [relay |-> r2, route |-> "legacy"] \notin Range(hooks[i])
  /\ \/ part \in {"codex", "forms", "edits"} /\ settings = Missing /\ registry = Unregistered
     \/ part = "hooks" /\ hooks = <<>> /\ settings \in HooksLeft /\ registry = Unregistered
     \/ part = "servers" /\ hooks = <<>> /\ settings \in ServersLeft
  /\ part # "forms" => config = "plain"

MCNext ==
  \/ /\ part \in {"codex", "forms", "edits"} /\ TrustNext
     /\ part # "edits" => byHand' <= 1
     /\ part # "forms" => config' = "plain"
     /\ part # "codex" => OneHandler /\ OneRelay
     /\ UNCHANGED <<part, wire>>
  \/ /\ part = "hooks" /\ faults' = 0
     /\ (\E o \in Run : Step(o)) \/ EditSettings
     /\ UNCHANGED <<part, trust>>
  \/ /\ part = "servers"
     /\ (\E o \in Run : Step(o)) \/ EditRegistry
     /\ UNCHANGED <<part, trust>>

MCSpec == MCInit /\ [][MCNext]_<<part, trust, wire>>

Symmetry == Permutations(Run)
=============================================================================
