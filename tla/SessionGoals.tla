---------------------------- MODULE SessionGoals ----------------------------
(***************************************************************************)
(* What a project's sessions are for.  Each compaction and each end of a   *)
(* session stores a snapshot with the task the user stated last and the    *)
(* goal of the project.  A session that states none inherits one from an   *)
(* earlier snapshot, its own or another session's.  The briefing at a      *)
(* session's start shows the goals in three tiers: Now, the task before a  *)
(* compaction; Feature, what the branch is for; Project, the plan.         *)
(*                                                                         *)
(* A hook reads the store, and then writes it: the hooks of two sessions   *)
(* interleave between the two.  Time is in ticks of which a tick is short  *)
(* of SNAPSHOT_FALLBACK_MINUTES and Scan of them GOAL_SCAN_HOURS.          *)
(***************************************************************************)
EXTENDS Naturals, Sequences, FiniteSets

CONSTANTS
  Session,
  Branch,     \* branches HEAD may be on
  Task,       \* goals a user states, none of them a session-management phrase
  PlanName,
  Synth,      \* Synth[b]: the goal made of the name of branch b, or Unset
  Unset,
  Scan,       \* GOAL_SCAN_HOURS
  Retention,  \* SNAPSHOT_RETENTION_HOURS
  MaxTime,    \* bound: ticks
  MaxStored   \* bound: snapshots ever stored

ASSUME GoalsAssumption ==
  /\ {Scan, Retention, MaxTime, MaxStored} \subseteq Nat
  /\ 0 < Scan /\ Scan <= Retention
  /\ Unset \notin Nat
  /\ Unset \notin Session \cup Branch \cup Task \cup PlanName
  /\ DOMAIN Synth = Branch

VARIABLES
  now, head,   \* the time, and the branch HEAD is on, or Unset: git does not tell
  planName,    \* the name of the active plan, or Unset
  snaps,       \* compaction_snapshots: snaps[i] is the i-th stored, if it is there
  place,       \* place[s]: where session s stands
  draft,       \* draft[s]: what a hook of s has resolved and not yet stored
  closed,      \* the sessions with an ended_at, by ended_at
  briefed,       \* the briefing, in the state after the step that compiles it
  stored,      \* snapshots stored so far
  stated       \* ghost: the tasks snapshots took from a transcript

world == <<now, head, planName>>
goals == <<world, snaps, place, draft, closed, briefed, stored, stated>>

Place == {"off", "on", "compacting", "compacted", "ending", "closing"}
\* The sessions with a hook between its read and its INSERT.
Resolving == {s \in Session : place[s] \in {"compacting", "ending"}}

Source == {"transcript", "plan", "branch"}

\* GOAL_MAX_CARRY_COUNT
MaxCarry == 2

Maybe(S) == S \cup {Unset}

\* Whatever git did not tell of, at a snapshot or now, is no mismatch.
OnBranch(b) == b = head \/ b = Unset \/ head = Unset

-----------------------------------------------------------------------------
(* What a hook resolves before it stores a snapshot.                       *)

InScan(i) == snaps[i].at + Scan > now

\* ORDER BY captured_at DESC LIMIT 1
Latest(is) == CHOOSE i \in is : \A j \in is : j <= i

WithGoal(ss) == {i \in DOMAIN snaps : snaps[i].of \in ss /\ snaps[i].goal # Unset /\ InScan(i)}

WithProjectGoal == {i \in DOMAIN snaps : snaps[i].pgoal # Unset}

\* Fault: whose task it was is not asked.
InheritsFromAnyone(s, t, own) ==
  LET from == WithGoal(Session)
  IN IF t = Unset /\ from # {}
     THEN [goal |-> snaps[Latest(from)].goal, branch |-> snaps[Latest(from)].branch,
           carry |-> snaps[Latest(from)].carry + 1, goalAt |-> snaps[Latest(from)].goalAt]
     ELSE [goal |-> t, branch |-> head, carry |-> 0, goalAt |-> Unset]

\* resolveInitialGoal: the task t the transcript ends with, else that of a
\* snapshot; `own` is set at a compaction, when the session's own snapshots come first.
\* A time of Unset is stamped when the snapshot is stored.
InitialGoal(s, t, own) ==
  LET mine == IF own THEN WithGoal({s}) ELSE {}
      from == IF mine # {} THEN mine ELSE WithGoal(Session)
      prev == snaps[Latest(from)]
  IN CASE t # Unset -> [goal |-> t, branch |-> head, carry |-> 0, goalAt |-> Unset]
       [] t = Unset /\ from # {} ->
            [goal |-> prev.goal, branch |-> IF prev.branch = Unset THEN head ELSE prev.branch,
             carry |-> prev.carry + 1, goalAt |-> prev.goalAt]
       [] OTHER -> [goal |-> Unset, branch |-> head, carry |-> 0, goalAt |-> Unset]

\* synthesizeBranchGoal
BranchGoal == IF head = Unset THEN Unset ELSE Synth[head]

\* resolveProjectGoal: the plan p the transcript creates, else the goal of a
\* snapshot, else the active plan, else a goal made of the branch
SourcedGoal(p) ==
  LET recent == {i \in WithProjectGoal : InScan(i)}
      prev == snaps[Latest(recent)]
  IN CASE p # Unset -> [pgoal |-> p, psource |-> "transcript"]
       [] p = Unset /\ recent # {} -> [pgoal |-> prev.pgoal, psource |-> prev.psource]
       [] p = Unset /\ recent = {} /\ planName # Unset -> [pgoal |-> planName, psource |-> "plan"]
       [] OTHER -> [pgoal |-> BranchGoal, psource |-> IF BranchGoal = Unset THEN Unset ELSE "branch"]

\* The clock of a project goal goes on while its text is that of the last one.
PClock(pgoal) ==
  LET prev == snaps[Latest(WithProjectGoal)]
  IN IF pgoal # Unset /\ WithProjectGoal # {} /\ prev.pgoal = pgoal THEN prev.pAt ELSE Unset

\* `seen` is a ghost: the snapshots stored when the hook read them.
Resolved(s, t, p, own) ==
  LET ig == InitialGoal(s, t, own)
      pg == SourcedGoal(p)
  IN [goal |-> ig.goal, branch |-> ig.branch, carry |-> ig.carry, goalAt |-> ig.goalAt,
      pgoal |-> pg.pgoal, psource |-> pg.psource, pAt |-> PClock(pg.pgoal), seen |-> stored]

-----------------------------------------------------------------------------
GoalsInit ==
  /\ now = 0
  /\ head \in Maybe(Branch)
  /\ planName = Unset
  /\ snaps = <<>>
  /\ place = [s \in Session |-> "off"]
  /\ draft = [s \in Session |-> Unset]
  /\ closed = <<>>
  /\ briefed = Unset
  /\ stored = 0
  /\ stated = {}

\* The plan and HEAD change as user and agents work; git fails, or is too slow.
ChangePlan(p) ==
  /\ planName # p
  /\ planName' = p
  /\ briefed' = Unset
  /\ UNCHANGED <<now, head, snaps, place, draft, closed, stored, stated>>

Checkout(b) ==
  /\ head # b
  /\ head' = b
  /\ briefed' = Unset
  /\ UNCHANGED <<now, planName, snaps, place, draft, closed, stored, stated>>

\* A hook takes seconds, and is killed by the client if it takes longer.
Tick ==
  /\ now < MaxTime
  /\ Resolving = {}
  /\ now' = now + 1
  /\ briefed' = Unset
  /\ UNCHANGED <<head, planName, snaps, place, draft, closed, stored, stated>>

-----------------------------------------------------------------------------
(* The PreCompact and SessionEnd hooks, on a transcript that ends with the *)
(* task t, or Unset, and creates the plan p, or Unset.                     *)

RoomToStore == stored + Cardinality(Resolving) < MaxStored

Compact(s, t, p) ==
  /\ place[s] = "on"
  /\ RoomToStore
  /\ draft' = [draft EXCEPT ![s] = Resolved(s, t, p, TRUE)]
  /\ place' = [place EXCEPT ![s] = "compacting"]
  /\ briefed' = Unset
  /\ UNCHANGED <<world, snaps, closed, stored, stated>>

End(s, t, p) ==
  /\ place[s] = "on"
  /\ RoomToStore
  /\ draft' = [draft EXCEPT ![s] = Resolved(s, t, p, FALSE)]
  /\ place' = [place EXCEPT ![s] = "ending"]
  /\ briefed' = Unset
  /\ UNCHANGED <<world, snaps, closed, stored, stated>>

\* The INSERT: a time of Unset is stamped now.  Ghosts: `seen` is the hook's,
\* `final` says that a session's end took the snapshot.
Stamped(s) ==
  LET d == draft[s]
  IN [of |-> s, at |-> now, goal |-> d.goal, branch |-> d.branch, carry |-> d.carry,
      goalAt |-> IF d.goal # Unset /\ d.goalAt = Unset THEN now ELSE d.goalAt,
      pgoal |-> d.pgoal, psource |-> d.psource,
      pAt |-> IF d.pgoal # Unset /\ d.pAt = Unset THEN now ELSE d.pAt,
      seen |-> d.seen, final |-> place[s] = "ending"]

\* A snapshot with neither goal is stored if the transcript has files.
Store(s) ==
  /\ place[s] \in {"compacting", "ending"}
  /\ \/ /\ stored' = stored + 1
        /\ snaps' = [i \in DOMAIN snaps \cup {stored + 1} |-> IF i = stored + 1 THEN Stamped(s) ELSE snaps[i]]
     \/ draft[s].goal = Unset /\ draft[s].pgoal = Unset /\ UNCHANGED <<snaps, stored>>
  /\ stated' = IF draft[s].goal # Unset /\ draft[s].carry = 0
               THEN stated \cup {[of |-> s, goal |-> draft[s].goal, branch |-> draft[s].branch, at |-> now]}
               ELSE stated
  /\ place' = [place EXCEPT ![s] = IF place[s] = "compacting" THEN "compacted" ELSE "closing"]
  /\ draft' = [draft EXCEPT ![s] = Unset]
  /\ briefed' = Unset
  /\ UNCHANGED <<world, closed>>

\* The rest of SessionEnd: UPDATE sessions ... WHERE ended_at IS NULL, and
\* the snapshots out of retention are deleted.
Close(s) ==
  /\ place[s] = "closing"
  /\ closed' = IF \E i \in DOMAIN closed : closed[i] = s THEN closed ELSE Append(closed, s)
  /\ snaps' = [i \in {j \in DOMAIN snaps : snaps[j].at + Retention >= now} |-> snaps[i]]
  /\ place' = [place EXCEPT ![s] = "off"]
  /\ briefed' = Unset
  /\ UNCHANGED <<world, draft, stored, stated>>

\* A hook killed before its INSERT, or between it and the close.
Die(s) ==
  /\ place[s] \in {"compacting", "ending", "closing"}
  /\ place' = [place EXCEPT ![s] = "off"]
  /\ draft' = [draft EXCEPT ![s] = Unset]
  /\ briefed' = Unset
  /\ UNCHANGED <<world, snaps, closed, stored, stated>>

-----------------------------------------------------------------------------
(* The SessionStart hook and its briefing.                                 *)

\* A client that does not name the type of the start is taken to have
\* compacted when a snapshot of the project is fresh.
Kind(type) ==
  IF type # Unset THEN type
  ELSE IF \E i \in DOMAIN snaps : snaps[i].at = now THEN "compact" ELSE "startup"

Loaded(s) ==
  LET own == {i \in DOMAIN snaps : snaps[i].of = s}
      fresh == {i \in DOMAIN snaps : snaps[i].at = now}
  IN CASE own # {} -> snaps[Latest(own)]
       [] own = {} /\ fresh # {} -> snaps[Latest(fresh)]
       [] OTHER -> Unset

\* evaluateCarriedGoal.  Left out: the gates that compare words, with those of
\* done steps and of commits, which show less; and what is shown for a snapshot
\* without a task, a message of the transcript too short to be stored as one.
NowTier(s, type) ==
  LET snap == Loaded(s)
  IN IF /\ Kind(type) = "compact" /\ snap # Unset
        /\ snap.of = s /\ snap.goal # Unset
        /\ OnBranch(snap.branch)
        /\ snap.carry < MaxCarry
     THEN [goal |-> snap.goal, goalAt |-> snap.goalAt, at |-> snap.at, final |-> snap.final]
     ELSE Unset

\* evaluateFeatureGoal; goal_branch is that of the snapshot's task.
FeatureTier ==
  LET rows == {i \in WithProjectGoal : snaps[i].psource = "branch" /\ InScan(i)}
      row == snaps[Latest(rows)]
  IN IF rows # {} /\ OnBranch(row.branch) THEN [goal |-> row.pgoal, goalAt |-> row.pAt] ELSE Unset

ProjectTier ==
  LET rows == {i \in WithProjectGoal : snaps[i].psource # "branch"}
      row == snaps[Latest(rows)]
  IN IF rows # {} THEN [goal |-> row.pgoal, goalAt |-> row.pAt] ELSE Unset

\* The session whose summary a fresh start is given.
Previous(type) ==
  IF Kind(type) = "compact" \/ closed = <<>> THEN Unset ELSE closed[Len(closed)]

StartTypes(s) == IF place[s] = "compacted" THEN {"compact", Unset} ELSE {"startup", Unset}

Start(s, type) ==
  /\ place[s] \in {"off", "compacted"} /\ type \in StartTypes(s)
  /\ place' = [place EXCEPT ![s] = "on"]
  /\ briefed' = [to |-> s, now |-> NowTier(s, type), feature |-> FeatureTier,
               project |-> ProjectTier, previous |-> Previous(type)]
  /\ UNCHANGED <<world, snaps, draft, closed, stored, stated>>

-----------------------------------------------------------------------------
\* The steps of some sessions, tasks, plans and branches.
GoalSteps(S, T, P, B) ==
  \/ \E s \in S, t \in Maybe(T), p \in Maybe(P) : Compact(s, t, p) \/ End(s, t, p)
  \/ \E p \in Maybe(P) : ChangePlan(p)
  \/ \E b \in B : Checkout(b)
  \/ Tick
  \/ \E s \in S : Store(s) \/ Close(s) \/ Die(s)
  \/ \E s \in S : \E type \in StartTypes(s) : Start(s, type)

GoalsNext == GoalSteps(Session, Task, PlanName, Maybe(Branch))

GoalsSpec == GoalsInit /\ [][GoalsNext]_goals

-----------------------------------------------------------------------------
Ticks == 0..MaxTime
Goals == PlanName \cup {Synth[b] : b \in Branch}

Snapshot ==
  [of : Session, at : Ticks, goal : Maybe(Task), branch : Maybe(Branch), carry : Nat, goalAt : Maybe(Ticks),
   pgoal : Maybe(Goals), psource : Maybe(Source), pAt : Maybe(Ticks), seen : Nat, final : BOOLEAN]

Draft ==
  [goal : Maybe(Task), branch : Maybe(Branch), carry : Nat, goalAt : Maybe(Ticks),
   pgoal : Maybe(Goals), psource : Maybe(Source), pAt : Maybe(Ticks), seen : Nat]

(* Every variable has its type, and rows are numbered as they are stored.     *)
GoalsTypeOK ==
  /\ now \in Ticks /\ head \in Maybe(Branch) /\ planName \in Maybe(PlanName)
  /\ stored \in Nat /\ DOMAIN snaps \subseteq 1..stored /\ \A i \in DOMAIN snaps : snaps[i] \in Snapshot
  /\ snaps = [i \in DOMAIN snaps |-> snaps[i]]
  /\ place \in [Session -> Place]
  /\ draft \in [Session -> Maybe(Draft)] /\ \A s \in Resolving : draft[s] \in Draft
  /\ closed \in Seq(Session)
  /\ stated \in SUBSET [of : Session, goal : Task, branch : Maybe(Branch), at : Ticks]

\* A snapshot's task, with its branch and its age, is as some session stated
\* it: inheritance, however often, neither ages nor refreshes nor moves it; only
\* a task stated when git did not answer gets the branch it is inherited on.
AgeIsHonest ==
  \A i \in DOMAIN snaps : snaps[i].goal # Unset =>
    \E f \in stated : /\ f.goal = snaps[i].goal
                      /\ f.branch \in {snaps[i].branch, Unset}
                      /\ f.at = snaps[i].goalAt

\* The task a session goes on with after a compaction was stated on the branch
\* HEAD is on, so far as git told then and tells now, less than GOAL_SCAN_HOURS
\* before the snapshot.
NowIsCurrent ==
  (briefed # Unset /\ briefed.now # Unset) =>
    \E f \in stated : /\ f.goal = briefed.now.goal
                      /\ OnBranch(f.branch)
                      /\ f.at = briefed.now.goalAt
                      /\ f.at + Scan > briefed.now.at

\* A session that stated a task lately is not given that of another session,
\* unless its last snapshot is one that an end of it took.
OwnTaskFirst ==
  (briefed # Unset /\ briefed.now # Unset) =>
    LET mine == {f \in stated : f.of = briefed.to}
    IN \/ briefed.now.final
       \/ \A f \in mine : f.at + Scan <= briefed.now.at
       \/ \E f \in mine : f.goal = briefed.now.goal

\* While the project's goal stays the same so does its clock, over gaps longer
\* than any window, unless two sessions took a snapshot at once.
ClockNeedsARace ==
  \A j \in WithProjectGoal :
    LET before == {i \in WithProjectGoal : i < j}
        prev == snaps[Latest(before)]
    IN (before # {} /\ prev.pgoal = snaps[j].pgoal) =>
         snaps[j].pAt = prev.pAt \/ snaps[j].seen < Latest(before)

\* What a briefing says of a goal is so: whose it is, for which branch, and since when.
GoalsAreHonest == AgeIsHonest /\ NowIsCurrent /\ OwnTaskFirst /\ ClockNeedsARace
=============================================================================
