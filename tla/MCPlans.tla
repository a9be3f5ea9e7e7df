------------------------------ MODULE MCPlans ------------------------------
(***************************************************************************)
(* What is to be done: plans (Plans), the goals that sessions hand on      *)
(* (SessionGoals) and reminders (Reminders).  The snapshots of goals know   *)
(* a plan by its name only; they share no state here, and a behaviour is    *)
(* one of them.  The same model values stand for agents and notes, and for  *)
(* plans, decisions, sessions, tasks, reminders and processes.              *)
(***************************************************************************)
EXTENDS Plans, Reminders, SessionGoals, TLC

CONSTANTS x, y, main, dev, feat, n1, s1

VARIABLE part

-----------------------------------------------------------------------------
\* The agents of Plans create, claim, end and sweep; here two of them at a time
\* take notes and decisions on a plan and complete it.
N == INSTANCE Plans WITH
  Notes <- {n1, s1}, Decisions <- {x, y}, Ops <- {"create", "step", "note", "decide", "complete"}

TwoOnOne ==
  /\ Cardinality({a \in Agents : pc'[a] # "idle"}) <= 2
  /\ Cardinality({p \in Ids : status'[p] # "none"}) <= 1

\* One of the branches has a name that makes a goal.
SynthGoal == [b \in Branch |-> IF b = feat THEN s1 ELSE Unset]

\* A part of the sessions keeps to a time and to a number of snapshots.
Keep(time, rows) == now' <= time /\ stored' + Cardinality(Resolving') <= rows

\* Two sessions and two tasks on one branch; one session on two branches, and
\* with a git that may not answer; two sessions and the goal of the project.
OneBranch == GoalSteps({x, y}, {x, y}, {}, {main}) /\ Keep(1, 3)
TwoBranches == GoalSteps({n1}, {n1}, {}, {main, dev}) /\ Keep(2, 3)
SilentGit == GoalSteps({n1}, {n1}, {}, {main, dev, Unset}) /\ Keep(1, 2)
ProjectGoal == GoalSteps({x, y}, {}, {n1}, {feat}) /\ Keep(3, 2)

-----------------------------------------------------------------------------
MCInit ==
  /\ Init /\ ReminderInit /\ GoalsInit
  /\ \/ part \in {"plans", "notes", "one branch", "reminders"} /\ head = main
     \/ part = "two branches" /\ head \in {main, dev}
     \/ part = "silent git" /\ head \in {main, Unset}
     \/ part = "project" /\ head = feat

MCNext ==
  \/ part = "plans" /\ Next /\ UNCHANGED <<part, goals, reminders>>
  \/ part = "notes" /\ N!Next /\ TwoOnOne /\ UNCHANGED <<part, goals, reminders>>
  \/ part = "one branch" /\ OneBranch /\ UNCHANGED <<part, vars, reminders>>
  \/ part = "two branches" /\ TwoBranches /\ UNCHANGED <<part, vars, reminders>>
  \/ part = "silent git" /\ SilentGit /\ UNCHANGED <<part, vars, reminders>>
  \/ part = "project" /\ ProjectGoal /\ UNCHANGED <<part, vars, reminders>>
  \/ part = "reminders" /\ ReminderNext /\ UNCHANGED <<part, vars, goals>>

MCSpec == MCInit /\ [][MCNext]_<<part, vars, goals, reminders>>

Symmetry == Permutations(Agents) \cup Permutations(Ids)
=============================================================================
