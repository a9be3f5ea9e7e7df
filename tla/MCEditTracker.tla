--------------------------- MODULE MCEditTracker ---------------------------
(***************************************************************************)
(* What hook processes and the daemon do to the files of a session: the     *)
(* tracker (EditTracker), among hooks or between a hook and the daemon, and *)
(* the rollout (ToolDemux).  They share no state, and a behaviour is one of *)
(* them.                                                                    *)
(***************************************************************************)
EXTENDS EditTracker, ToolDemux

CONSTANTS l1, s1

VARIABLE part

-----------------------------------------------------------------------------
\* The daemon serves one hook, another goes to the file by itself.
D == INSTANCE EditTracker WITH Served <- {s1}

\* A command, then a patch whose record holds a two-byte character: torn lines,
\* a lagging offset, and either hooks that are delivered twice or never ...
Statuses == <<"failed", "completed">>

\* ... or a claim that fails, a daemon that dies and a file that grows old.
U == INSTANCE ToolDemux WITH MaxDeliveries <- 1, MaxErrors <- 1, MaxCrashes <- 1

ASSUME U!ToolDemuxAssumption

-----------------------------------------------------------------------------
MCInit ==
  \/ part = "hooks" /\ Init /\ DemuxInit /\ ~born
  \/ part = "served" /\ D!Init /\ DemuxInit /\ ~born
  \/ part \in {"rollout", "faults"} /\ Init /\ DemuxInit

MCNext ==
  \/ part = "hooks" /\ Next /\ UNCHANGED <<part, demux>>
  \/ part = "served" /\ D!Next /\ UNCHANGED <<part, demux>> /\ \A p \in Hook \ {l1} : pc'[p] = "idle"
  \/ part = "rollout" /\ DemuxNext /\ recent' /\ UNCHANGED <<part, vars>>
  \/ part = "faults" /\ U!DemuxNext /\ UNCHANGED <<part, vars>>

MCSpec == MCInit /\ [][MCNext]_<<part, vars, demux>>

\* The fairness of each; what the other part could do is not owed.
ByTheHooks(p) == part = "hooks" /\ Step(p)
GivingUp(p) == part = "hooks" /\ GiveUp(p)
ByTheServed == part = "served" /\ D!Step(l1)
ServedGivesUp == part = "served" /\ D!GiveUp(l1)
RolloutSeen == part \in {"rollout", "faults"} /\ FirstSight
RolloutTicks == part \in {"rollout", "faults"} /\ Tick
LoopGoesOn == \E l \in DOMAIN loops : RouteLine(l) \/ LineHandled(l)
HandlerEnds == \E h \in hooks : HookHandled(h)

MCFairSpec ==
  /\ MCSpec
  /\ \A p \in Hook : WF_vars(ByTheHooks(p)) /\ SF_vars(GivingUp(p))
  /\ WF_vars(ByTheServed) /\ SF_vars(ServedGivesUp)
  /\ WF_demux(RolloutSeen) /\ WF_demux(RolloutTicks) /\ WF_demux(LoopGoesOn) /\ WF_demux(HandlerEnds)
============================================================================
