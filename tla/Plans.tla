------------------------------- MODULE Plans -------------------------------
(***************************************************************************)
(* The plans of one project: rows that several processes (an MCP server    *)
(* for each agent, short-lived hooks) read and write, one statement at a   *)
(* time and hardly ever in one transaction.                                *)
(***************************************************************************)
EXTENDS FiniteSets, Naturals

CONSTANTS
  Agents,     \* the processes
  Ids,        \* the ids a create may draw
  Steps,      \* the steps of every plan
  Notes,      \* what a note may say, each written once
  Decisions,  \* permanent decisions, each taken once
  Nil,
  Ops,        \* what the processes do
  CanFail     \* whether a process may die, or a store fail, between statements

ASSUME PlansAssumption ==
  /\ CanFail \in BOOLEAN /\ Nil \notin Ids \cup Steps /\ IsFiniteSet(Agents)
  /\ Ops \subseteq {"create", "step", "decide", "note", "complete", "end", "sweep"}

VARIABLES
  status,     \* of each plan
  step,       \* the status of each step
  notes,      \* the notes of each step
  permanent,  \* the decisions of each plan
  older,      \* which plans were updated before a plan
  stale,      \* plans not updated for PLAN_UNTOUCHED_ARCHIVE_HOURS
  memories,   \* decisions that have graduated
  pc, on, of, \* where each process stands: its next statement, plan and step
  seen,       \* the notes it has read
  todo,       \* the decisions it has still to store
  swept,      \* the plans it has selected to archive
  \* Ghosts.
  holder,     \* who was told ok about a claim and has not been overruled
  missed,     \* plans created since a process archived
  raced,      \* two creates have overlapped
  written,    \* every note there was
  fresh,      \* notes added to the step since a process read
  late,       \* decisions taken when their plan was no longer active
  cut         \* plans whose completion did not get to its end

plan == <<status, older, stale>>
stepping == <<step, holder>>
noting == <<notes, seen, written, fresh>>
deciding == <<permanent, memories, todo, late, cut>>
creating == <<missed, raced>>
at == <<pc, on, of>>
vars == <<plan, stepping, noting, deciding, creating, at, swept>>

StepStatus == {"pending", "in_progress", "done", "blocked"}

Active == {p \in Ids : status[p] = "active"}
Exists(p) == status[p] # "none"

\* getActive: the active plan that was updated last.
Newest(p) == p \in Active /\ Active \ {p} \subseteq older[p]

\* UPDATE plans SET updated_at
Touched(p) ==
  /\ older' = [q \in Ids |-> IF q = p THEN Ids \ {p} ELSE older[q] \ {p}]
  /\ stale' = stale \ {p}

Goes(a, to) == pc' = [pc EXCEPT ![a] = to]

\* A process has its plan, and perhaps its step, and goes on to its statement.
Begins(a, op, p, s) ==
  /\ op \in Ops /\ pc[a] = "idle" /\ Goes(a, op)
  /\ on' = [on EXCEPT ![a] = p] /\ of' = [of EXCEPT ![a] = s]
  /\ UNCHANGED <<plan, stepping, noting, deciding, creating, swept>>

-----------------------------------------------------------------------------
(* create                                                                  *)

\* archiveActive, in a statement of its own.
MakeWay(a, id, gone, touched) ==
  /\ "create" \in Ops /\ pc[a] = "idle" /\ ~Exists(id) /\ \A b \in Agents : on[b] # id
  /\ status' = [p \in Ids |-> IF p \in gone THEN "abandoned" ELSE status[p]]
  /\ stale' = stale \ touched
  /\ Goes(a, "insert") /\ on' = [on EXCEPT ![a] = id]
  /\ missed' = [missed EXCEPT ![a] = {}]
  /\ UNCHANGED <<stepping, noting, deciding, older, of, swept, raced>>

Archive(a, id) == MakeWay(a, id, Active, Active)

\* The plan and its steps, in one transaction.
Insert(a) ==
  /\ pc[a] = "insert" /\ Goes(a, "idle") /\ on' = [on EXCEPT ![a] = Nil]
  /\ status' = [status EXCEPT ![on[a]] = "active"] /\ Touched(on[a])
  /\ step' = [step EXCEPT ![on[a]] = [s \in Steps |-> "pending"]]
  /\ missed' = [b \in Agents |-> IF pc[b] = "insert" /\ b # a THEN missed[b] \cup {on[a]} ELSE missed[b]]
  /\ raced' = (raced \/ missed[a] # {})
  /\ UNCHANGED <<noting, deciding, of, swept, holder>>

-----------------------------------------------------------------------------
(* step                                                                    *)

ChooseStep(a, s) == \E p \in Ids : Newest(p) /\ Begins(a, "step", p, s)

\* Fault: a claim is an update like the others.
ClaimAny(a) ==
  /\ pc[a] = "step" /\ Exists(on[a])
  /\ step' = [step EXCEPT ![on[a]][of[a]] = "in_progress"]
  /\ holder' = [holder EXCEPT ![on[a]][of[a]] = @ \cup {a}]
  /\ Goes(a, "touch")
  /\ UNCHANGED <<plan, noting, deciding, creating, on, of, swept>>

\* in_progress only takes a step that is pending, in the statement itself.
Claim(a) ==
  /\ pc[a] = "step"
  /\ \/ /\ Exists(on[a]) /\ step[on[a]][of[a]] = "pending"
        /\ step' = [step EXCEPT ![on[a]][of[a]] = "in_progress"]
        /\ holder' = [holder EXCEPT ![on[a]][of[a]] = @ \cup {a}]
        /\ Goes(a, "touch") /\ UNCHANGED <<on, of>>
     \/ /\ ~Exists(on[a]) \/ step[on[a]][of[a]] # "pending"
        /\ Goes(a, "idle") /\ on' = [on EXCEPT ![a] = Nil] /\ of' = [of EXCEPT ![a] = Nil]
        /\ UNCHANGED <<step, holder>>
  /\ UNCHANGED <<plan, noting, deciding, creating, swept>>

\* Any other status is written whatever the step is, and ends every claim.
SetStep(a, to) ==
  /\ pc[a] = "step" /\ to # "in_progress" /\ Exists(on[a])
  /\ step' = [step EXCEPT ![on[a]][of[a]] = to]
  /\ holder' = [holder EXCEPT ![on[a]][of[a]] = {}]
  /\ Goes(a, "touch")
  /\ UNCHANGED <<plan, noting, deciding, creating, on, of, swept>>

\* An outcome or a blocker without a status.
Describe(a) ==
  /\ pc[a] = "step" /\ Exists(on[a]) /\ Goes(a, "touch")
  /\ UNCHANGED <<plan, stepping, noting, deciding, creating, on, of, swept>>

\* The last statement of step, decide, note and end.
Touch(a) ==
  /\ pc[a] = "touch" /\ Touched(on[a])
  /\ Goes(a, "idle") /\ on' = [on EXCEPT ![a] = Nil] /\ of' = [of EXCEPT ![a] = Nil]
  /\ UNCHANGED <<stepping, noting, deciding, creating, status, swept>>

-----------------------------------------------------------------------------
(* note: the tool names the step; the hooks take the one in progress.      *)

ChooseNote(a, s) == \E p \in Ids : Newest(p) /\ Begins(a, "note", p, s)

Checkpoint(a) ==
  \E p \in Ids, s \in Steps : Newest(p) /\ step[p][s] = "in_progress" /\ Begins(a, "note", p, s)

\* Fault: the step is looked up, its notes are not.
ReadNothing(a) ==
  /\ pc[a] = "note" /\ \E to \in {"append", "replace"} : Goes(a, to)
  /\ seen' = [seen EXCEPT ![a] = {}] /\ fresh' = [fresh EXCEPT ![a] = {}]
  /\ UNCHANGED <<plan, stepping, deciding, creating, notes, on, of, swept, written>>

\* addNote reads the step again.
ReadNotes(a) ==
  /\ pc[a] = "note" /\ \E to \in {"append", "replace"} : Goes(a, to)
  /\ seen' = [seen EXCEPT ![a] = notes[on[a]][of[a]]] /\ fresh' = [fresh EXCEPT ![a] = {}]
  /\ UNCHANGED <<plan, stepping, deciding, creating, notes, on, of, swept, written>>

\* UPDATE plan_steps SET notes, of whatever row is there.
WriteNotes(a, n) ==
  /\ pc[a] \in {"append", "replace"} /\ Goes(a, "touch")
  /\ n \notin written /\ written' = written \cup {n}
  /\ notes' = [notes EXCEPT ![on[a]][of[a]] = IF pc[a] = "replace" THEN {n} ELSE seen[a] \cup {n}]
  /\ fresh' = [b \in Agents |->
       IF b # a /\ pc[b] = "append" /\ on[b] = on[a] /\ of[b] = of[a]
       THEN fresh[b] \cup (notes'[on[a]][of[a]] \ notes[on[a]][of[a]])
       ELSE fresh[b]]
  /\ seen' = [seen EXCEPT ![a] = {}]
  /\ UNCHANGED <<plan, stepping, deciding, creating, on, of, swept>>

-----------------------------------------------------------------------------
(* decide and complete                                                     *)

ChooseDecide(a) == \E p \in Ids : Newest(p) /\ Begins(a, "decide", p, Nil)

AddDecision(a, d) ==
  /\ pc[a] = "decide" /\ Goes(a, "touch")
  /\ \A p \in Ids : d \notin permanent[p]
  /\ permanent' = [permanent EXCEPT ![on[a]] = @ \cup {d}]
  /\ late' = IF on[a] \in Active THEN late ELSE late \cup {d}
  /\ UNCHANGED <<plan, stepping, noting, creating, memories, on, of, todo, swept, cut>>

ChooseComplete(a) == \E p \in Ids : Newest(p) /\ Begins(a, "complete", p, Nil)

\* The status first, then the decisions.
Complete(a) ==
  /\ pc[a] = "complete" /\ Goes(a, "collect")
  /\ status' = [status EXCEPT ![on[a]] = "completed"] /\ Touched(on[a])
  /\ UNCHANGED <<stepping, noting, deciding, creating, on, of, swept>>

Collect(a) ==
  /\ pc[a] = "collect" /\ Goes(a, "graduate")
  /\ todo' = [todo EXCEPT ![a] = permanent[on[a]]]
  /\ UNCHANGED <<plan, stepping, noting, creating, permanent, memories, on, of, swept, late, cut>>

Graduate(a) ==
  /\ pc[a] = "graduate"
  /\ \/ /\ \E d \in todo[a] : memories' = memories \cup {d} /\ todo' = [todo EXCEPT ![a] = @ \ {d}]
        /\ UNCHANGED <<pc, on>>
     \/ /\ todo[a] = {} /\ Goes(a, "idle") /\ on' = [on EXCEPT ![a] = Nil]
        /\ UNCHANGED <<memories, todo>>
  /\ UNCHANGED <<plan, stepping, noting, creating, permanent, of, swept, late, cut>>

-----------------------------------------------------------------------------
(* The session's end and the maintenance.                                  *)

ChooseEnd(a) == \E p \in Ids : Newest(p) /\ Begins(a, "end", p, Nil)

\* blockInProgressSteps, whoever holds the steps.
BlockInProgress(a) ==
  /\ pc[a] = "end"
  /\ LET hit == {s \in Steps : step[on[a]][s] = "in_progress"} IN
       /\ step' = [step EXCEPT ![on[a]] = [s \in Steps |-> IF s \in hit THEN "blocked" ELSE @[s]]]
       /\ holder' = [holder EXCEPT ![on[a]] = [s \in Steps |-> IF s \in hit THEN {} ELSE @[s]]]
       /\ \/ hit # {} /\ Goes(a, "touch") /\ UNCHANGED on
          \/ hit = {} /\ Goes(a, "idle") /\ on' = [on EXCEPT ![a] = Nil]
  /\ UNCHANGED <<plan, noting, deciding, creating, of, swept>>

Untouched(p) == p \in Active \cap stale /\ \A s \in Steps : step[p][s] = "pending"

\* archiveUntouchedPlans: one query, then an update for each by its id.
SelectUntouched(a) ==
  /\ "sweep" \in Ops /\ pc[a] = "idle" /\ {p \in Ids : Untouched(p)} # {}
  /\ swept' = [swept EXCEPT ![a] = {p \in Ids : Untouched(p)}] /\ Goes(a, "sweep")
  /\ UNCHANGED <<plan, stepping, noting, deciding, creating, on, of>>

ArchiveOne(a) ==
  /\ pc[a] = "sweep"
  /\ \E p \in swept[a] :
       /\ status' = [status EXCEPT ![p] = "abandoned"] /\ Touched(p)
       /\ swept' = [swept EXCEPT ![a] = @ \ {p}]
       /\ IF swept[a] = {p} THEN Goes(a, "idle") ELSE UNCHANGED pc
  /\ UNCHANGED <<stepping, noting, deciding, creating, on, of>>

-----------------------------------------------------------------------------
(* The environment.                                                        *)

\* Hours go by in which nobody is in the middle of anything with the plan.
Age(p) ==
  /\ "sweep" \in Ops /\ p \in Active \ stale /\ \A a \in Agents : on[a] # p
  /\ stale' = stale \cup {p}
  /\ UNCHANGED <<stepping, noting, deciding, creating, at, status, older, swept>>

\* A process dies, or a statement fails, with what it did so far done.
Fail(a) ==
  /\ CanFail /\ pc[a] # "idle" /\ Goes(a, "idle")
  /\ on' = [on EXCEPT ![a] = Nil] /\ of' = [of EXCEPT ![a] = Nil]
  /\ seen' = [seen EXCEPT ![a] = {}] /\ todo' = [todo EXCEPT ![a] = {}] /\ swept' = [swept EXCEPT ![a] = {}]
  /\ cut' = IF pc[a] \in {"collect", "graduate"} THEN cut \cup {on[a]} ELSE cut
  /\ UNCHANGED <<plan, stepping, creating, notes, permanent, memories, written, fresh, late>>

-----------------------------------------------------------------------------

Init ==
  /\ status = [p \in Ids |-> "none"] /\ step = [p \in Ids |-> [s \in Steps |-> "pending"]]
  /\ notes = [p \in Ids |-> [s \in Steps |-> {}]] /\ permanent = [p \in Ids |-> {}]
  /\ older = [p \in Ids |-> {}] /\ stale = {} /\ memories = {}
  /\ pc = [a \in Agents |-> "idle"] /\ on = [a \in Agents |-> Nil] /\ of = [a \in Agents |-> Nil]
  /\ seen = [a \in Agents |-> {}] /\ todo = [a \in Agents |-> {}] /\ swept = [a \in Agents |-> {}]
  /\ holder = [p \in Ids |-> [s \in Steps |-> {}]]
  /\ missed = [a \in Agents |-> {}] /\ raced = FALSE /\ written = {} /\ fresh = [a \in Agents |-> {}]
  /\ late = {} /\ cut = {}

Tool(a) ==
  \/ \E id \in Ids : Archive(a, id)
  \/ \E s \in Steps : ChooseStep(a, s) \/ ChooseNote(a, s)
  \/ ChooseDecide(a) \/ ChooseComplete(a)
  \/ Insert(a) \/ Claim(a) \/ (\E to \in StepStatus : SetStep(a, to)) \/ Describe(a)
  \/ ReadNotes(a) \/ \E n \in Notes : WriteNotes(a, n)
  \/ \E d \in Decisions : AddDecision(a, d)
  \/ Complete(a) \/ Collect(a) \/ Graduate(a) \/ Touch(a)

HookWork(a) == Checkpoint(a) \/ ChooseEnd(a) \/ BlockInProgress(a) \/ SelectUntouched(a) \/ ArchiveOne(a)

Next == (\E a \in Agents : Tool(a) \/ HookWork(a) \/ Fail(a)) \/ \E p \in Ids : Age(p)

Spec == Init /\ [][Next]_vars
-----------------------------------------------------------------------------

(* Every variable has its type; a process has a plan exactly while it is     *)
(* between the first and the last statement of an operation on one.          *)
TypeOK ==
  /\ status \in [Ids -> {"none", "active", "completed", "abandoned"}]
  /\ step \in [Ids -> [Steps -> StepStatus]]
  /\ notes \in [Ids -> [Steps -> SUBSET Notes]] /\ permanent \in [Ids -> SUBSET Decisions]
  /\ older \in [Ids -> SUBSET Ids] /\ stale \subseteq Active /\ memories \subseteq Decisions
  /\ pc \in [Agents -> {"idle", "insert", "step", "touch", "note", "append", "replace", "decide", "complete",
                        "collect", "graduate", "end", "sweep"}]
  /\ on \in [Agents -> Ids \cup {Nil}] /\ of \in [Agents -> Steps \cup {Nil}]
  /\ \A a \in Agents : /\ on[a] = Nil <=> pc[a] \in {"idle", "sweep"}
                       /\ pc[a] \in {"step", "note", "append", "replace"} => of[a] # Nil
  /\ seen \in [Agents -> SUBSET Notes] /\ todo \in [Agents -> SUBSET Decisions]
  /\ swept \in [Agents -> SUBSET Ids]

(* Of all agents that were told they have a step, one has it ("prevents two   *)
(* teammates claiming the same step", plan-repository.ts updateStep).         *)
OneClaim == \A p \in Ids, s \in Steps : Cardinality(holder[p][s]) <= 1

(* Two plans are active only when two creates have overlapped.                *)
TwoActiveNeedARace == ~raced => \A p, q \in Active : p = q

(* A note is lost only by a replace, or by a writer that read the notes       *)
(* before it was written.                                                     *)
NotesNeedARace ==
  [][\A p \in Ids, s \in Steps : notes[p][s] \subseteq notes'[p][s] \/
       \E a \in Agents : /\ on[a] = p /\ of[a] = s
                         /\ \/ pc[a] = "replace"
                            \/ pc[a] = "append" /\ notes[p][s] \ notes'[p][s] \subseteq fresh[a]]_vars

(* A permanent decision that was taken while its plan was active is a memory  *)
(* once the plan is completed, unless the completion was cut short.           *)
Graduating(p) == \E a \in Agents : on[a] = p /\ pc[a] \in {"collect", "graduate"}

DecisionsGraduate ==
  \A p \in Ids : status[p] = "completed" /\ ~Graduating(p) /\ p \notin cut => permanent[p] \subseteq memories \cup late

(* Claims, active plans and decisions are as agents that work on a plan      *)
(* together rely on.                                                         *)
PlansSafe == OneClaim /\ TwoActiveNeedARace /\ DecisionsGraduate
=============================================================================
