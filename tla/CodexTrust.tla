----------------------------- MODULE CodexTrust -----------------------------
(***************************************************************************)
(* `waykeep init` and the trust of Codex hooks.  Codex runs a hook of      *)
(* hooks.json only after the user has approved it, and pins the approval   *)
(* in config.toml to the hook's POSITION and to a hash of its command that *)
(* only Codex can compute.  Init rewrites hooks.json, prunes approvals     *)
(* that can no longer match, and records in a shadow file the command it   *)
(* left at each position.  `waykeep doctor` reports as trusted an approved *)
(* position whose command the shadow attests.                              *)
(*                                                                         *)
(* One event of hooks.json, PostToolUse, whose route init may keep or      *)
(* migrate.  A group is a sequence of commands, the file a sequence of     *)
(* groups.                                                                 *)
(***************************************************************************)
EXTENDS Naturals, Sequences, FiniteSets, SequencesExt

CONSTANTS
  Others,    \* commands of other tools
  Prefix,    \* relay prefixes of the installs init may run from
  Form,      \* what config.toml may be, see config
  Absent,
  MaxGroups, MaxHandlers,   \* bounds: the size of the file
  MaxInits, MaxByHand       \* bounds: runs of init, edits by hand

PostRoute == {"canonical", "legacy"}
Ours == [relay : Prefix, route : PostRoute]
Command == Others \cup Ours
Pos == (1..MaxGroups) \X (1..MaxHandlers)

Approval == [hash : Command \cup {Absent}, disabled : BOOLEAN]
Shadow == [Pos -> Command \cup {Absent}]

ASSUME TrustAssumption ==
  /\ {MaxGroups, MaxHandlers, MaxInits, MaxByHand} \subseteq Nat
  /\ Form \subseteq {"plain", "odd", "broken"}
  /\ Absent \notin Command /\ Absent \notin Approval /\ Absent \notin Shadow

VARIABLES
  hooks,    \* hooks.json
  config,   \* config.toml is "plain", "odd" (with a line that only looks like
            \* an approval), or "broken" (not TOML)
  state,    \* state[p]: the approval of position p, or Absent
  shadow,   \* the trust shadow: shadow[p] is a command or Absent; Absent if absent
  stage,    \* where init stands
  plan,     \* what init has read and decided
  inits, byHand,
  how       \* ghost: how[p] tells when the approval of p was given

trustFiles == <<hooks, config, state, shadow>>
trust == <<trustFiles, stage, plan, inits, byHand, how>>

-----------------------------------------------------------------------------
(* hooks.json and config.toml.                                             *)

CommandAt(file, p) ==
  IF p[1] \in DOMAIN file /\ p[2] \in DOMAIN file[p[1]] THEN file[p[1]][p[2]] ELSE Absent

IsWaykeep(c) == c \in Ours

\* The elements of s at the indices in S, which stay in order.
Selected(s, S) ==
  LET Nth(k) == CHOOSE i \in S : Cardinality({j \in S : j <= i}) = k
  IN [k \in 1..Cardinality(S) |-> s[Nth(k)]]

Strangers(group) == Selected(group, {h \in DOMAIN group : ~IsWaykeep(group[h])})

AllOurs(group) == group # <<>> /\ \A h \in DOMAIN group : IsWaykeep(group[h])

Off(st, p) == st[p] # Absent /\ st[p].disabled

\* trusted: an approval that is not switched off
Live(st, p) == st[p] # Absent /\ ~Off(st, p) /\ st[p].hash # Absent

\* The shadow does not attest the command at p.
Unattested(file, sh, p) == sh # Absent /\ IsWaykeep(CommandAt(file, p)) /\ sh[p] # CommandAt(file, p)

\* trustedCommandsIn, countTrustedHooksIn
Reported(file, st, sh) ==
  {p \in Pos : Live(st, p) /\ CommandAt(file, p) # Absent /\ ~Unattested(file, sh, p)}

\* What Codex does: the hash it pinned is that of the command.
Runs(p) == Live(state, p) /\ state[p].hash = CommandAt(hooks, p)

-----------------------------------------------------------------------------
(* What init computes.                                                     *)

\* The groups that are all ours, and the other groups without what is ours in them.
OurGroups(file) == {i \in DOMAIN file : AllOurs(file[i])}

Replaced(file, cmd) == [i \in DOMAIN file |-> IF AllOurs(file[i]) THEN <<cmd>> ELSE Strangers(file[i])]

KeptGroups(file) == {i \in DOMAIN file : \A j \in OurGroups(file) : i \in OurGroups(file) => i <= j}

\* Fault: a first group of ours goes in front of the others.
MergeInFront(file, cmd) ==
  (IF OurGroups(file) = {} THEN <<<<cmd>>>> ELSE <<>>) \o Selected(Replaced(file, cmd), KeptGroups(file))

\* mergeCodexHooks: the first group that is all ours is replaced where it is,
\* others are dropped, a mixed group keeps its strangers.
Merge(file, cmd) ==
  Selected(Replaced(file, cmd), KeptGroups(file)) \o (IF OurGroups(file) = {} THEN <<<<cmd>>>> ELSE <<>>)

\* postToolRouteFor: the deprecated route stays where approving it again is
\* what a new one would cost.
RouteFor(file, st, sh, relay, migrate) ==
  LET candidate == [relay |-> relay, route |-> "legacy"]
  IN IF ~migrate /\ \E p \in Reported(file, st, sh) : CommandAt(file, p) = candidate
     THEN "legacy" ELSE "canonical"

\* Fault: only what this run changes is pruned.
InvalidatedByDelta(file, merged, st, sh) ==
  {p \in Pos : st[p] # Absent /\ ~Off(st, p) /\ CommandAt(merged, p) # CommandAt(file, p)}

\* An approval at p is not of what comes to be there, or not known to be.
Doubtful(file, merged, sh, p) == CommandAt(merged, p) # CommandAt(file, p) \/ Unattested(merged, sh, p)

\* The approvals that can never match again, and those of ours the shadow does
\* not attest; what the user switched off stays as it is.
Invalidated(file, merged, st, sh) ==
  {p \in Pos : st[p] # Absent /\ ~Off(st, p) /\ Doubtful(file, merged, sh, p)}

OurCommand(file, st, sh, relay, migrate) ==
  [relay |-> relay, route |-> RouteFor(file, st, sh, relay, migrate)]

PlanFor(file, conf, st, sh, relay, migrate) ==
  LET merged == Merge(file, OurCommand(file, st, sh, relay, migrate))
  IN [was |-> file, merged |-> merged, config |-> conf, state |-> st, relay |-> relay,
      migrate |-> migrate, gone |-> Invalidated(file, merged, st, sh)]

TrustPlan(relay, migrate) == PlanFor(hooks, config, state, shadow, relay, migrate)

-----------------------------------------------------------------------------
InBounds(file) == Len(file) <= MaxGroups /\ \A i \in DOMAIN file : Len(file[i]) <= MaxHandlers

\* What an install from before the shadow, or none, left.
Layouts ==
  {l \in {<<>>} \cup UNION {{<<<<f>>>>, <<<<old>>>>, <<<<f>>, <<old>>>>, <<<<old>>, <<f>>>>,
                             <<<<old, f>>>>, <<<<old>>, <<f>>, <<old>>>>} :
                            f \in Others, old \in [relay : Prefix, route : {"legacy"}]} : InBounds(l)}

TrustInit ==
  /\ hooks \in Layouts
  /\ config \in Form
  /\ state = [p \in Pos |-> Absent]
  /\ shadow = Absent
  /\ stage = "idle" /\ plan = Absent
  /\ inits = 0 /\ byHand = 0
  /\ how = [p \in Pos |-> "none"]

Read(relay, migrate) ==
  /\ stage = "idle" /\ inits < MaxInits
  /\ InBounds(TrustPlan(relay, migrate).merged)
  /\ plan' = TrustPlan(relay, migrate)
  /\ stage' = "config"
  /\ inits' = inits + 1
  /\ UNCHANGED <<trustFiles, byHand, how>>

\* config.toml first, if there is an approval to prune or the MCP server to
\* add.  A file that is not TOML, or that the prune would change in any other
\* way, is left as it is.
Pruned(st) == [p \in Pos |-> IF p \in plan.gone THEN Absent ELSE st[p]]

\* Ghost: an approval of what init replaces, or cannot vouch for, stays if it is
\* switched off or if config.toml is left alone.
ToBeKept(p) ==
  Doubtful(plan.was, plan.merged, shadow, p) /\ (Off(plan.state, p) \/ plan.config # "plain")

WriteConfig ==
  /\ stage = "config"
  /\ \/ /\ plan.config = "plain" \/ (plan.config = "odd" /\ plan.gone = {})
        /\ state' = Pruned(plan.state)
        /\ config' = plan.config
     \/ /\ plan.config # "plain" \/ plan.gone = {}
        /\ UNCHANGED <<state, config>>
  /\ how' = [p \in Pos |-> IF state'[p] # state[p] THEN "overwritten"
                          ELSE IF ToBeKept(p) THEN "kept" ELSE how[p]]
  /\ stage' = "hooks"
  /\ UNCHANGED <<hooks, shadow, plan, inits, byHand>>

WriteHooks ==
  /\ stage = "hooks"
  /\ hooks' = plan.merged
  /\ stage' = "shadow"
  /\ UNCHANGED <<config, state, shadow, plan, inits, byHand, how>>

\* Best effort.
WriteShadow ==
  /\ stage = "shadow"
  /\ \/ shadow' = [p \in Pos |-> CommandAt(plan.merged, p)]
     \/ UNCHANGED shadow
  /\ stage' = "done"
  /\ UNCHANGED <<hooks, config, state, plan, inits, byHand, how>>

Done ==
  /\ stage = "done"
  /\ stage' = "idle" /\ plan' = Absent
  /\ UNCHANGED <<trustFiles, inits, byHand, how>>

\* A failed write ends init where it stands, as a kill does.
StopInit ==
  /\ stage \in {"config", "hooks", "shadow"}
  /\ stage' = "idle" /\ plan' = Absent
  /\ UNCHANGED <<trustFiles, inits, byHand, how>>

-----------------------------------------------------------------------------
(* Codex, which needs a config.toml that parses, and the user.             *)

Approve(p) ==
  /\ config # "broken" /\ CommandAt(hooks, p) # Absent /\ ~Runs(p)
  /\ ~Off(state, p)
  /\ state' = [state EXCEPT ![p] = [hash |-> CommandAt(hooks, p), disabled |-> FALSE]]
  /\ how' = [how EXCEPT ![p] = CASE stage # "idle" -> "during init"
                                 [] stage = "idle" /\ shadow = Absent -> "before"
                                 [] stage = "idle" /\ shadow # Absent ->
                                      IF shadow[p] = CommandAt(hooks, p) THEN "reviewed" ELSE "unattested"]
  /\ UNCHANGED <<hooks, config, shadow, stage, plan, inits, byHand>>

\* enabled = false, and back
Switched(approval) ==
  IF approval = Absent THEN [hash |-> Absent, disabled |-> TRUE]
  ELSE [approval EXCEPT !.disabled = ~@]

Toggle(p) ==
  /\ config # "broken" /\ CommandAt(hooks, p) # Absent
  /\ byHand < MaxByHand /\ byHand' = byHand + 1
  /\ state' = [state EXCEPT ![p] = Switched(@)]
  /\ UNCHANGED <<hooks, config, shadow, stage, plan, inits, how>>

\* hooks.json by hand: a group is put in front, taken out or swapped with the
\* next, or a command is replaced.
EditHooks ==
  /\ byHand < MaxByHand /\ byHand' = byHand + 1
  /\ \/ \E f \in Others : hooks' = <<<<f>>>> \o hooks
     \/ \E i \in DOMAIN hooks : hooks' = Selected(hooks, DOMAIN hooks \ {i})
     \/ \E i \in DOMAIN hooks : /\ i + 1 \in DOMAIN hooks
                                /\ hooks' = [hooks EXCEPT ![i] = hooks[i + 1], ![i + 1] = hooks[i]]
     \/ \E i \in DOMAIN hooks, c \in Command : \E h \in DOMAIN hooks[i] : hooks' = [hooks EXCEPT ![i][h] = c]
  /\ InBounds(hooks') /\ hooks' # hooks
  /\ UNCHANGED <<config, state, shadow, stage, plan, inits, how>>

EditConfig ==
  /\ byHand < MaxByHand /\ byHand' = byHand + 1
  /\ config' \in Form \ {config}
  /\ UNCHANGED <<hooks, state, shadow, stage, plan, inits, how>>

-----------------------------------------------------------------------------
TrustNext ==
  \/ \E r \in Prefix, migrate \in BOOLEAN : Read(r, migrate)
  \/ WriteConfig \/ WriteHooks \/ WriteShadow \/ Done \/ StopInit
  \/ \E p \in Pos : Approve(p) \/ Toggle(p)
  \/ EditHooks \/ EditConfig

TrustSpec == TrustInit /\ [][TrustNext]_trust

-----------------------------------------------------------------------------
Approvals == [Pos -> Approval \cup {Absent}]

(* Every variable has its type. *)
TrustTypeOK ==
  /\ hooks \in Seq(Seq(Command)) /\ InBounds(hooks)
  /\ config \in Form
  /\ state \in Approvals
  /\ shadow \in Shadow \cup {Absent}
  /\ stage \in {"idle", "config", "hooks", "shadow", "done"}
  /\ stage = "idle" => plan = Absent
  /\ stage # "idle" =>
       /\ plan.was \in Seq(Seq(Command)) /\ plan.merged \in Seq(Seq(Command)) /\ InBounds(plan.merged)
       /\ plan.config \in Form /\ plan.state \in Approvals
       /\ plan.relay \in Prefix /\ plan.migrate \in BOOLEAN
  /\ how \in [Pos -> {"none", "before", "during init", "unattested", "reviewed", "overwritten", "kept"}]
  /\ inits \in 0..MaxInits /\ byHand \in 0..MaxByHand

\* A hook of ours that is reported as trusted and that Codex skips was approved
\* before there was a shadow, while it attested another command, or while init
\* was at work; or init has kept the approval of what it replaced.
FalseTrustHasACause ==
  (stage = "idle" /\ shadow # Absent) =>
    \A p \in Reported(hooks, state, shadow) :
      IsWaykeep(CommandAt(hooks, p)) => Runs(p) \/ how[p] # "reviewed"

\* No layout of which init owns one group, and no more than that group, loses
\* the approval of another tool's hook to a run of it.
Tidy(file) ==
  /\ \A i \in DOMAIN file : \/ AllOurs(file[i]) /\ Len(file[i]) = 1
                            \/ \A h \in DOMAIN file[i] : ~IsWaykeep(file[i][h])
  /\ \A i, j \in OurGroups(file) : i = j

InitStep == WriteConfig \/ WriteHooks

ForeignTrustStays ==
  [][(InitStep /\ Tidy(plan.was)) =>
       \A p \in Pos : (Runs(p) /\ ~IsWaykeep(CommandAt(hooks, p)) /\ plan.was = hooks /\ plan.state[p] = state[p])
                        => Runs(p)']_trust

\* A run of init that is not asked to migrate costs no approval of a hook that
\* the same install wrote.
ReinitKeepsTrust ==
  [][(InitStep /\ Tidy(plan.was) /\ ~plan.migrate) =>
       \A p \in Pos : /\ p \in Reported(hooks, state, shadow) /\ Runs(p)
                      /\ IsWaykeep(CommandAt(hooks, p)) /\ CommandAt(hooks, p).relay = plan.relay
                      /\ plan.was = hooks /\ plan.state[p] = state[p]
                      => Runs(p)']_trust

\* What the user switched off stays switched off, unless Codex recorded that
\* after init had read the file.
DisabledNeedsARace ==
  [][\A p \in Pos : (InitStep /\ Off(state, p) /\ state'[p] # state[p])
                      => plan.state[p] # state[p]]_trust

\* A second run of init changes nothing of a file init keeps tidy.
InitIsIdempotent ==
  (stage = "done" /\ hooks = plan.merged /\ state = Pruned(plan.state) /\ Tidy(plan.was)) =>
    LET again == TrustPlan(plan.relay, plan.migrate)
    IN again.merged = hooks /\ again.gone = {}

\* Relays that Codex skips though they are reported have one of the known
\* causes, and a second init finds nothing to do.
InitIsWarranted == FalseTrustHasACause /\ InitIsIdempotent

\* What a run costs in approvals and switches.
ApprovalsAreKept == ForeignTrustStays /\ ReinitKeepsTrust /\ DisabledNeedsARace
=============================================================================
