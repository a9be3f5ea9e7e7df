---------------------------- MODULE MCSocketClaim ----------------------------
(***************************************************************************)
(* The socket: who serves it (SocketClaim: the daemon and two MCP servers), *)
(* and the relays that use it (HookRelay: two events of every kind in       *)
(* pairs).  The two share no state here, and a behaviour is one of either.  *)
(***************************************************************************)
EXTENDS SocketClaim, HookRelay

CONSTANTS d, e, f

VARIABLE part   \* "claim" or "relay"

-----------------------------------------------------------------------------
C(hook) == [relay |-> "c", hook |-> hook, large |-> FALSE]
TooLarge == [relay |-> "c", hook |-> "sync", large |-> TRUE]
Sh(hook) == [relay |-> "sh", hook |-> hook, large |-> FALSE]

\* Each client hook under each relay, and a body too large for the compiled one.
Pairs ==
  {<<C("sync"), C("governance")>>, <<C("async"), Sh("sync")>>, <<TooLarge, C("standalone")>>,
   <<Sh("sync"), Sh("governance")>>, <<Sh("async"), Sh("standalone")>>}

-----------------------------------------------------------------------------
\* No relay runs.
RelayRests == kind = <<C("sync"), C("sync")>> /\ socket = FALSE /\ RelayInit

MCInit ==
  \/ part = "claim" /\ Init /\ RelayRests
  \/ part = "relay" /\ Init /\ kind \in Pairs /\ RelayInit

ClaimPart == part = "claim" /\ Next /\ UNCHANGED <<part, relayVars>>
RelayPart == part = "relay" /\ RelayNext /\ UNCHANGED <<part, vars>>

MCSpec == MCInit /\ [][ClaimPart \/ RelayPart]_<<part, vars, relayVars>>

\* The fairness of both (SocketClaim!FairSpec, HookRelay!RelayFairness).
MCFairSpec ==
  /\ MCSpec
  /\ \A p \in Process : WF_vars(Acquire(p) \/ Bring(p) \/ Release(p))
  /\ \A p \in Daemon : SF_vars(Retry(p)) /\ SF_vars(BindSocket(p)) /\ SF_vars(Secured(p))
  /\ \A v \in Events : WF_relayVars(part = "relay" /\ RelayStep(v))

-----------------------------------------------------------------------------

(* Every relay ends, whatever the daemon does (the relay's timeouts).         *)
EveryRelayEnds == \A v \in Events : part = "relay" ~> pc[v] = "done"
=============================================================================
