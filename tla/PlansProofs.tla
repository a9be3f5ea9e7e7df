---------------------------- MODULE PlansProofs ----------------------------
(***************************************************************************)
(* What holds of the plans of a project for any number of processes, plans,*)
(* steps and decisions, and whatever fails; of the reminders, how far one  *)
(* may fire past its limit; and of the goals that sessions hand on, that   *)
(* what a briefing says of one is so.                                      *)
(***************************************************************************)
EXTENDS Plans, Reminders, SessionGoals, FiniteSetTheorems, WellFoundedInduction, TLAPS

\* Types, of what the invariants below speak of.
PlanTyped ==
  /\ status \in [Ids -> {"none", "active", "completed", "abandoned"}]
  /\ permanent \in [Ids -> SUBSET Decisions]

StepTyped == step \in [Ids -> [Steps -> StepStatus]] /\ holder \in [Ids -> [Steps -> SUBSET Agents]]

PcTyped ==
  /\ pc \in [Agents -> {"idle", "insert", "step", "touch", "note", "append", "replace", "decide", "complete",
                        "collect", "graduate", "end", "sweep"}]
  /\ on \in [Agents -> Ids \cup {Nil}] /\ of \in [Agents -> Steps \cup {Nil}]

\* A process has a plan, and a step, when its statement needs one.
PlanAtHand ==
  \A a \in Agents : /\ on[a] = Nil <=> pc[a] \in {"idle", "sweep"}
                    /\ pc[a] = "step" => of[a] # Nil

SetsTyped ==
  todo \in [Agents -> SUBSET Decisions] /\ swept \in [Agents -> SUBSET Ids] /\ missed \in [Agents -> SUBSET Ids]

Typed == PlanTyped /\ StepTyped /\ PcTyped /\ PlanAtHand /\ SetsTyped

\* A plan that a process is about to insert is not there and is nobody else's.
Inserted ==
  \A a \in Agents :
    /\ pc[a] = "insert" => ~Exists(on[a]) /\ \A b \in Agents \ {a} : on[b] # on[a]
    /\ pc[a] \notin {"insert", "idle", "sweep"} => Exists(on[a])
    /\ \A p \in swept[a] : Exists(p)

\* A step that is not in progress has no holder.
Held ==
  \A p \in Ids, s \in Steps :
    /\ step[p][s] # "in_progress" => holder[p][s] = {}
    /\ ~Exists(p) => holder[p][s] = {}
    /\ holder[p][s] = {} \/ \E a \in Agents : holder[p][s] = {a}

\* What has become active since a process archived is what it missed.
Archived ==
  /\ \A a \in Agents : pc[a] = "insert" => Active \subseteq missed[a]
  /\ TwoActiveNeedARace

\* A decision of a completed plan is stored, or late, or somebody will store it.
Stored ==
  \A p \in Ids : status[p] = "completed" /\ p \notin cut =>
    \A d \in permanent[p] :
      \/ d \in memories \cup late
      \/ \E a \in Agents : on[a] = p /\ (pc[a] = "collect" \/ (pc[a] = "graduate" /\ d \in todo[a]))

(* The steps of Next, with the seven that begin an operation as one.         *)
LEMMA Cases ==
  ASSUME [Next]_vars
  PROVE  \/ \E a \in Agents, id \in Ids : Archive(a, id)
         \/ \E a \in Agents, op \in Ops, p \in Ids, s \in Steps \cup {Nil} :
              /\ Begins(a, op, p, s) /\ Newest(p) /\ op # "sweep" /\ op # "create"
              /\ s = Nil => op \notin {"step", "note"}
         \/ \E a \in Agents : \/ Insert(a) \/ Claim(a) \/ \E to \in StepStatus : SetStep(a, to)
                              \/ Describe(a) \/ ReadNotes(a) \/ \E n \in Notes : WriteNotes(a, n)
                              \/ \E d \in Decisions : AddDecision(a, d)
                              \/ Complete(a) \/ Collect(a) \/ Graduate(a) \/ Touch(a)
                              \/ BlockInProgress(a) \/ SelectUntouched(a) \/ ArchiveOne(a) \/ Fail(a)
         \/ \E p \in Ids : Age(p)
         \/ UNCHANGED vars
<1>1. ASSUME NEW a \in Agents, NEW s \in Steps, ChooseStep(a, s) \/ ChooseNote(a, s)
      PROVE  \E op \in Ops, p \in Ids, t \in Steps \cup {Nil} :
               /\ Begins(a, op, p, t) /\ Newest(p) /\ op # "sweep" /\ op # "create"
               /\ t = Nil => op \notin {"step", "note"}
  BY <1>1, PlansAssumption DEF ChooseStep, ChooseNote, Begins
<1>2. ASSUME NEW a \in Agents, ChooseDecide(a) \/ ChooseComplete(a) \/ ChooseEnd(a)
      PROVE  \E op \in Ops, p \in Ids, t \in Steps \cup {Nil} :
               /\ Begins(a, op, p, t) /\ Newest(p) /\ op # "sweep" /\ op # "create"
               /\ t = Nil => op \notin {"step", "note"}
  BY <1>2 DEF ChooseDecide, ChooseComplete, ChooseEnd, Begins
<1>3. ASSUME NEW a \in Agents, Checkpoint(a)
      PROVE  \E op \in Ops, p \in Ids, t \in Steps \cup {Nil} :
               /\ Begins(a, op, p, t) /\ Newest(p) /\ op # "sweep" /\ op # "create"
               /\ t = Nil => op \notin {"step", "note"}
  <2>1. PICK p \in Ids, s \in Steps : Newest(p) /\ Begins(a, "note", p, s)
    BY <1>3 DEF Checkpoint
  <2>2. "note" \in Ops /\ s # Nil
    BY <2>1, PlansAssumption DEF Begins
  <2> QED
    BY <2>1, <2>2
<1> QED
  BY <1>1, <1>2, <1>3 DEF Next, Tool, HookWork

(* A project without plans.                                                  *)
LEMMA PlansInit == Init => Typed /\ Inserted /\ Held /\ Archived /\ Stored
<1> SUFFICES ASSUME Init PROVE Typed /\ Inserted /\ Held /\ Archived /\ Stored
  OBVIOUS
<1>1. PlanTyped /\ StepTyped
  BY DEF Init, PlanTyped, StepTyped, StepStatus
<1>2. PcTyped /\ PlanAtHand /\ SetsTyped
  BY DEF Init, PcTyped, PlanAtHand, SetsTyped
<1>3. Inserted /\ Held
  BY DEF Init, Inserted, Held
<1>4. Archived /\ Stored
  BY DEF Init, Archived, Stored, TwoActiveNeedARace, Active
<1> QED
  BY <1>1, <1>2, <1>3, <1>4 DEF Typed

(* Every step keeps the types.                                               *)
LEMMA PlanTypedStep == PlanTyped /\ [Next]_vars => PlanTyped'
<1> SUFFICES ASSUME PlanTyped, [Next]_vars PROVE PlanTyped'
  OBVIOUS
<1>1. ASSUME NEW a \in Agents, NEW id \in Ids, Archive(a, id) PROVE PlanTyped'
  BY <1>1 DEF Archive, MakeWay, PlanTyped, deciding
<1>2. ASSUME NEW a \in Agents, Insert(a) PROVE PlanTyped'
  BY <1>2 DEF Insert, PlanTyped, deciding
<1>3. ASSUME NEW a \in Agents, NEW d \in Decisions, AddDecision(a, d) PROVE PlanTyped'
  BY <1>3 DEF AddDecision, PlanTyped, plan
<1>4. ASSUME NEW a \in Agents, Complete(a) PROVE PlanTyped'
  BY <1>4 DEF Complete, PlanTyped, deciding
<1>5. ASSUME NEW a \in Agents, ArchiveOne(a) PROVE PlanTyped'
  BY <1>5 DEF ArchiveOne, PlanTyped, deciding
<1>6. ASSUME UNCHANGED <<status, permanent>> PROVE PlanTyped'
  BY <1>6 DEF PlanTyped
<1>7. ASSUME NEW a \in Agents PROVE
       /\ \A op \in Ops, p \in Ids, s \in Steps \cup {Nil} : Begins(a, op, p, s) => UNCHANGED <<status, permanent>>
       /\ Claim(a) => UNCHANGED <<status, permanent>>
       /\ \A to \in StepStatus : SetStep(a, to) => UNCHANGED <<status, permanent>>
       /\ Describe(a) => UNCHANGED <<status, permanent>>
       /\ ReadNotes(a) => UNCHANGED <<status, permanent>>
       /\ \A n \in Notes : WriteNotes(a, n) => UNCHANGED <<status, permanent>>
       /\ Collect(a) => UNCHANGED <<status, permanent>>
       /\ Graduate(a) => UNCHANGED <<status, permanent>>
       /\ Touch(a) => UNCHANGED <<status, permanent>>
       /\ BlockInProgress(a) => UNCHANGED <<status, permanent>>
       /\ SelectUntouched(a) => UNCHANGED <<status, permanent>>
       /\ Fail(a) => UNCHANGED <<status, permanent>>
  BY DEF Begins, Claim, SetStep, Describe, ReadNotes, WriteNotes, Collect, Graduate, Touch, BlockInProgress, SelectUntouched, Fail, plan, stepping, noting, deciding, creating, at
<1> QED
  BY <1>1, <1>2, <1>3, <1>4, <1>5, <1>6, <1>7, Cases DEF Age, vars, plan, stepping, noting, deciding, creating, at

(* The steps and their holders.                                              *)
LEMMA StepTypedStep == StepTyped /\ [Next]_vars => StepTyped'
<1> SUFFICES ASSUME StepTyped, [Next]_vars PROVE StepTyped'
  OBVIOUS
<1>1. ASSUME NEW a \in Agents, Insert(a) PROVE StepTyped'
  BY <1>1 DEF Insert, StepTyped, StepStatus
<1>2. ASSUME NEW a \in Agents, Claim(a) PROVE StepTyped'
  <2>1. CASE UNCHANGED stepping
    BY <2>1 DEF stepping, StepTyped
  <2>2. CASE /\ step' = [step EXCEPT ![on[a]][of[a]] = "in_progress"]
             /\ holder' = [holder EXCEPT ![on[a]][of[a]] = @ \cup {a}]
    BY <2>2 DEF StepTyped, StepStatus
  <2> QED
    BY <1>2, <2>1, <2>2 DEF Claim, stepping
<1>3. ASSUME NEW a \in Agents, NEW to \in StepStatus, SetStep(a, to) PROVE StepTyped'
  BY <1>3 DEF SetStep, StepTyped
<1>4. ASSUME NEW a \in Agents, BlockInProgress(a) PROVE StepTyped'
  BY <1>4 DEF BlockInProgress, StepTyped, StepStatus
<1>5. ASSUME UNCHANGED <<step, holder>> PROVE StepTyped'
  BY <1>5 DEF StepTyped
<1>6. ASSUME NEW a \in Agents PROVE
       /\ \A id \in Ids : Archive(a, id) => UNCHANGED <<step, holder>>
       /\ \A op \in Ops, p \in Ids, s \in Steps \cup {Nil} : Begins(a, op, p, s) => UNCHANGED <<step, holder>>
       /\ Describe(a) => UNCHANGED <<step, holder>>
       /\ ReadNotes(a) => UNCHANGED <<step, holder>>
       /\ \A n \in Notes : WriteNotes(a, n) => UNCHANGED <<step, holder>>
       /\ \A d \in Decisions : AddDecision(a, d) => UNCHANGED <<step, holder>>
       /\ Complete(a) => UNCHANGED <<step, holder>>
       /\ Collect(a) => UNCHANGED <<step, holder>>
       /\ Graduate(a) => UNCHANGED <<step, holder>>
       /\ Touch(a) => UNCHANGED <<step, holder>>
       /\ SelectUntouched(a) => UNCHANGED <<step, holder>>
       /\ ArchiveOne(a) => UNCHANGED <<step, holder>>
       /\ Fail(a) => UNCHANGED <<step, holder>>
  BY DEF Archive, MakeWay, Begins, Describe, ReadNotes, WriteNotes, AddDecision, Complete, Collect, Graduate, Touch, SelectUntouched, ArchiveOne, Fail, plan, stepping, noting, deciding, creating, at
<1> QED
  BY <1>1, <1>2, <1>3, <1>4, <1>5, <1>6, Cases DEF Age, vars, plan, stepping, noting, deciding, creating, at

(* Where the processes stand.                                                *)
LEMMA PcTypedStep == PcTyped /\ [Next]_vars => PcTyped'
<1> SUFFICES ASSUME PcTyped, [Next]_vars PROVE PcTyped'
  OBVIOUS
<1>1. ASSUME NEW a \in Agents, NEW id \in Ids, Archive(a, id) PROVE PcTyped'
  BY <1>1 DEF Archive, MakeWay, Goes, PcTyped, at
<1>2. ASSUME NEW a \in Agents, NEW op \in Ops, NEW p \in Ids, NEW s \in Steps \cup {Nil}, Begins(a, op, p, s), Newest(p), op # "sweep", op # "create", s = Nil => op \notin {"step", "note"} PROVE PcTyped'
  BY <1>2, PlansAssumption DEF Begins, Goes, PcTyped, at
<1>3. ASSUME NEW a \in Agents, Insert(a) PROVE PcTyped'
  BY <1>3 DEF Insert, Goes, PcTyped, at
<1>4. ASSUME NEW a \in Agents, Claim(a) PROVE PcTyped'
  BY <1>4 DEF Claim, Goes, PcTyped, at
<1>5. ASSUME NEW a \in Agents, NEW to \in StepStatus, SetStep(a, to) PROVE PcTyped'
  BY <1>5 DEF SetStep, Goes, PcTyped, at
<1>6. ASSUME NEW a \in Agents, Describe(a) PROVE PcTyped'
  BY <1>6 DEF Describe, Goes, PcTyped, at
<1>7. ASSUME NEW a \in Agents, ReadNotes(a) PROVE PcTyped'
  BY <1>7 DEF ReadNotes, Goes, PcTyped, at
<1>8. ASSUME NEW a \in Agents, NEW n \in Notes, WriteNotes(a, n) PROVE PcTyped'
  BY <1>8 DEF WriteNotes, Goes, PcTyped, at
<1>9. ASSUME NEW a \in Agents, NEW d \in Decisions, AddDecision(a, d) PROVE PcTyped'
  BY <1>9 DEF AddDecision, Goes, PcTyped, at
<1>10. ASSUME NEW a \in Agents, Complete(a) PROVE PcTyped'
  BY <1>10 DEF Complete, Goes, PcTyped, at
<1>11. ASSUME NEW a \in Agents, Collect(a) PROVE PcTyped'
  BY <1>11 DEF Collect, Goes, PcTyped, at
<1>12. ASSUME NEW a \in Agents, Graduate(a) PROVE PcTyped'
  BY <1>12 DEF Graduate, Goes, PcTyped, at
<1>13. ASSUME NEW a \in Agents, Touch(a) PROVE PcTyped'
  BY <1>13 DEF Touch, Goes, PcTyped, at
<1>14. ASSUME NEW a \in Agents, BlockInProgress(a) PROVE PcTyped'
  BY <1>14 DEF BlockInProgress, Goes, PcTyped, at
<1>15. ASSUME NEW a \in Agents, SelectUntouched(a) PROVE PcTyped'
  BY <1>15 DEF SelectUntouched, Goes, PcTyped, at
<1>16. ASSUME NEW a \in Agents, ArchiveOne(a) PROVE PcTyped'
  BY <1>16 DEF ArchiveOne, Goes, PcTyped, at
<1>17. ASSUME NEW a \in Agents, Fail(a) PROVE PcTyped'
  BY <1>17 DEF Fail, Goes, PcTyped, at
<1>18. ASSUME UNCHANGED <<pc, on, of>> PROVE PcTyped'
  BY <1>18 DEF PcTyped
<1> QED
  BY <1>1, <1>2, <1>3, <1>4, <1>5, <1>6, <1>7, <1>8, <1>9, <1>10, <1>11, <1>12, <1>13, <1>14, <1>15, <1>16, <1>17, <1>18, Cases DEF Age, vars, plan, stepping, noting, deciding, creating, at

(* What they have at hand.                                                   *)
LEMMA AtHandStep == PcTyped /\ PlanAtHand /\ [Next]_vars => PlanAtHand'
<1> SUFFICES ASSUME PcTyped, PlanAtHand, [Next]_vars PROVE PlanAtHand'
  OBVIOUS
<1>1. ASSUME NEW a \in Agents, NEW id \in Ids, Archive(a, id) PROVE PlanAtHand'
  BY <1>1, PlansAssumption DEF Archive, MakeWay, Goes, PcTyped, PlanAtHand, at
<1>2. ASSUME NEW a \in Agents, NEW op \in Ops, NEW p \in Ids, NEW s \in Steps \cup {Nil}, Begins(a, op, p, s), Newest(p), op # "sweep", op # "create", s = Nil => op \notin {"step", "note"} PROVE PlanAtHand'
  BY <1>2, PlansAssumption DEF Begins, Goes, PcTyped, PlanAtHand, at
<1>3. ASSUME NEW a \in Agents, Insert(a) PROVE PlanAtHand'
  BY <1>3, PlansAssumption DEF Insert, Goes, PcTyped, PlanAtHand, at
<1>4. ASSUME NEW a \in Agents, Claim(a) PROVE PlanAtHand'
  BY <1>4, PlansAssumption DEF Claim, Goes, PcTyped, PlanAtHand, at
<1>5. ASSUME NEW a \in Agents, NEW to \in StepStatus, SetStep(a, to) PROVE PlanAtHand'
  BY <1>5, PlansAssumption DEF SetStep, Goes, PcTyped, PlanAtHand, at
<1>6. ASSUME NEW a \in Agents, Describe(a) PROVE PlanAtHand'
  BY <1>6, PlansAssumption DEF Describe, Goes, PcTyped, PlanAtHand, at
<1>7. ASSUME NEW a \in Agents, ReadNotes(a) PROVE PlanAtHand'
  BY <1>7, PlansAssumption DEF ReadNotes, Goes, PcTyped, PlanAtHand, at
<1>8. ASSUME NEW a \in Agents, NEW n \in Notes, WriteNotes(a, n) PROVE PlanAtHand'
  BY <1>8, PlansAssumption DEF WriteNotes, Goes, PcTyped, PlanAtHand, at
<1>9. ASSUME NEW a \in Agents, NEW d \in Decisions, AddDecision(a, d) PROVE PlanAtHand'
  BY <1>9, PlansAssumption DEF AddDecision, Goes, PcTyped, PlanAtHand, at
<1>10. ASSUME NEW a \in Agents, Complete(a) PROVE PlanAtHand'
  BY <1>10, PlansAssumption DEF Complete, Goes, PcTyped, PlanAtHand, at
<1>11. ASSUME NEW a \in Agents, Collect(a) PROVE PlanAtHand'
  BY <1>11, PlansAssumption DEF Collect, Goes, PcTyped, PlanAtHand, at
<1>12. ASSUME NEW a \in Agents, Graduate(a) PROVE PlanAtHand'
  BY <1>12, PlansAssumption DEF Graduate, Goes, PcTyped, PlanAtHand, at
<1>13. ASSUME NEW a \in Agents, Touch(a) PROVE PlanAtHand'
  BY <1>13, PlansAssumption DEF Touch, Goes, PcTyped, PlanAtHand, at
<1>14. ASSUME NEW a \in Agents, BlockInProgress(a) PROVE PlanAtHand'
  BY <1>14, PlansAssumption DEF BlockInProgress, Goes, PcTyped, PlanAtHand, at
<1>15. ASSUME NEW a \in Agents, SelectUntouched(a) PROVE PlanAtHand'
  BY <1>15, PlansAssumption DEF SelectUntouched, Goes, PcTyped, PlanAtHand, at
<1>16. ASSUME NEW a \in Agents, ArchiveOne(a) PROVE PlanAtHand'
  BY <1>16, PlansAssumption DEF ArchiveOne, Goes, PcTyped, PlanAtHand, at
<1>17. ASSUME NEW a \in Agents, Fail(a) PROVE PlanAtHand'
  BY <1>17, PlansAssumption DEF Fail, Goes, PcTyped, PlanAtHand, at
<1>18. ASSUME UNCHANGED <<pc, on, of>> PROVE PlanAtHand'
  BY <1>18 DEF PlanAtHand
<1> QED
  BY <1>1, <1>2, <1>3, <1>4, <1>5, <1>6, <1>7, <1>8, <1>9, <1>10, <1>11, <1>12, <1>13, <1>14, <1>15, <1>16, <1>17, <1>18, Cases DEF Age, vars, plan, stepping, noting, deciding, creating, at

(* What they have still to do.                                               *)
LEMMA SetsTypedStep == SetsTyped /\ PcTyped /\ PlanTyped /\ PlanAtHand /\ [Next]_vars => SetsTyped'
<1> SUFFICES ASSUME SetsTyped, PcTyped, PlanTyped, PlanAtHand, [Next]_vars PROVE SetsTyped'
  OBVIOUS
<1>1. ASSUME NEW a \in Agents, NEW id \in Ids, Archive(a, id) PROVE SetsTyped'
  BY <1>1 DEF Archive, MakeWay, SetsTyped, deciding
<1>2. ASSUME NEW a \in Agents, Insert(a) PROVE SetsTyped'
  BY <1>2, PlansAssumption DEF Insert, SetsTyped, PcTyped, PlanAtHand, deciding
<1>3. ASSUME NEW a \in Agents, Collect(a) PROVE SetsTyped'
  BY <1>3, PlansAssumption DEF Collect, SetsTyped, PcTyped, PlanAtHand, PlanTyped, creating
<1>4. ASSUME NEW a \in Agents, Graduate(a) PROVE SetsTyped'
  BY <1>4 DEF Graduate, SetsTyped, creating
<1>5. ASSUME NEW a \in Agents, SelectUntouched(a) PROVE SetsTyped'
  BY <1>5 DEF SelectUntouched, SetsTyped, deciding, creating
<1>6. ASSUME NEW a \in Agents, ArchiveOne(a) PROVE SetsTyped'
  BY <1>6 DEF ArchiveOne, SetsTyped, deciding, creating
<1>7. ASSUME NEW a \in Agents, Fail(a) PROVE SetsTyped'
  BY <1>7 DEF Fail, SetsTyped, creating
<1>8. ASSUME UNCHANGED <<todo, swept, missed>> PROVE SetsTyped'
  BY <1>8 DEF SetsTyped
<1>9. ASSUME NEW a \in Agents PROVE
       /\ \A op \in Ops, p \in Ids, s \in Steps \cup {Nil} : Begins(a, op, p, s) => UNCHANGED <<todo, swept, missed>>
       /\ Claim(a) => UNCHANGED <<todo, swept, missed>>
       /\ \A to \in StepStatus : SetStep(a, to) => UNCHANGED <<todo, swept, missed>>
       /\ Describe(a) => UNCHANGED <<todo, swept, missed>>
       /\ ReadNotes(a) => UNCHANGED <<todo, swept, missed>>
       /\ \A n \in Notes : WriteNotes(a, n) => UNCHANGED <<todo, swept, missed>>
       /\ \A d \in Decisions : AddDecision(a, d) => UNCHANGED <<todo, swept, missed>>
       /\ Complete(a) => UNCHANGED <<todo, swept, missed>>
       /\ Touch(a) => UNCHANGED <<todo, swept, missed>>
       /\ BlockInProgress(a) => UNCHANGED <<todo, swept, missed>>
  BY DEF Begins, Claim, SetStep, Describe, ReadNotes, WriteNotes, AddDecision, Complete, Touch, BlockInProgress, plan, stepping, noting, deciding, creating, at
<1> QED
  BY <1>1, <1>2, <1>3, <1>4, <1>5, <1>6, <1>7, <1>8, <1>9, Cases DEF Age, vars, plan, stepping, noting, deciding, creating, at

(* A claim finds no other, and what ends a claim takes its holder away.      *)
LEMMA HeldStep == StepTyped /\ PcTyped /\ PlanAtHand /\ Inserted /\ Held /\ [Next]_vars => Held'
<1> SUFFICES ASSUME StepTyped, PcTyped, PlanAtHand, Inserted, Held, [Next]_vars PROVE Held'
  OBVIOUS
<1>1. ASSUME NEW a \in Agents, NEW id \in Ids, Archive(a, id) PROVE Held'
  BY <1>1 DEF Archive, MakeWay, Active, Exists, Held, stepping
<1>2. ASSUME NEW a \in Agents, Insert(a) PROVE Held'
  BY <1>2, PlansAssumption DEF Insert, Held, Inserted, Exists, StepTyped, PcTyped, PlanAtHand
<1>3. ASSUME NEW a \in Agents, Claim(a) PROVE Held'
  <2>1. CASE UNCHANGED stepping
    BY <1>3, <2>1 DEF Claim, Held, plan, stepping, Exists
  <2>2. CASE ~(UNCHANGED stepping)
    <3>1. /\ Exists(on[a]) /\ step[on[a]][of[a]] = "pending" /\ UNCHANGED status
          /\ step' = [step EXCEPT ![on[a]][of[a]] = "in_progress"]
          /\ holder' = [holder EXCEPT ![on[a]][of[a]] = @ \cup {a}]
          /\ on[a] \in Ids /\ of[a] \in Steps
      BY <1>3, <2>2, PlansAssumption DEF Claim, stepping, plan, PcTyped, PlanAtHand
    <3>2. holder[on[a]][of[a]] = {}
      BY <3>1 DEF Held
    <3> QED
      BY <3>1, <3>2 DEF Held, StepTyped, Exists
  <2> QED
    BY <2>1, <2>2
<1>4. ASSUME NEW a \in Agents, NEW to \in StepStatus, SetStep(a, to) PROVE Held'
  BY <1>4, PlansAssumption DEF SetStep, Held, StepTyped, PcTyped, PlanAtHand, Exists, plan
<1>5. ASSUME NEW a \in Agents, Complete(a) PROVE Held'
  BY <1>5, PlansAssumption DEF Complete, Held, Inserted, PcTyped, PlanAtHand, Exists, stepping
<1>6. ASSUME NEW a \in Agents, BlockInProgress(a) PROVE Held'
  BY <1>6, PlansAssumption DEF BlockInProgress, Held, StepTyped, PcTyped, PlanAtHand, Exists, plan
<1>7. ASSUME NEW a \in Agents, ArchiveOne(a) PROVE Held'
  BY <1>7 DEF ArchiveOne, Held, Inserted, Exists, stepping
<1>8. ASSUME UNCHANGED <<status, step, holder>> PROVE Held'
  BY <1>8 DEF Held, Exists
<1>9. ASSUME NEW a \in Agents PROVE
       /\ \A op \in Ops, p \in Ids, s \in Steps \cup {Nil} : Begins(a, op, p, s) => UNCHANGED <<status, step, holder>>
       /\ Describe(a) => UNCHANGED <<status, step, holder>>
       /\ ReadNotes(a) => UNCHANGED <<status, step, holder>>
       /\ \A n \in Notes : WriteNotes(a, n) => UNCHANGED <<status, step, holder>>
       /\ \A d \in Decisions : AddDecision(a, d) => UNCHANGED <<status, step, holder>>
       /\ Collect(a) => UNCHANGED <<status, step, holder>>
       /\ Graduate(a) => UNCHANGED <<status, step, holder>>
       /\ Touch(a) => UNCHANGED <<status, step, holder>>
       /\ SelectUntouched(a) => UNCHANGED <<status, step, holder>>
       /\ Fail(a) => UNCHANGED <<status, step, holder>>
  BY DEF Begins, Describe, ReadNotes, WriteNotes, AddDecision, Collect, Graduate, Touch, SelectUntouched, Fail, plan, stepping, noting, deciding, creating, at
<1> QED
  BY <1>1, <1>2, <1>3, <1>4, <1>5, <1>6, <1>7, <1>8, <1>9, Cases DEF Age, vars, plan, stepping, noting, deciding, creating, at

(* A new plan stays its creator's until it is there.                         *)
LEMMA InsertedStep == PlanTyped /\ PcTyped /\ PlanAtHand /\ SetsTyped /\ Inserted /\ [Next]_vars => Inserted'
<1> SUFFICES ASSUME PlanTyped, PcTyped, PlanAtHand, SetsTyped, Inserted, [Next]_vars PROVE Inserted'
  OBVIOUS
<1>1. ASSUME NEW a \in Agents, NEW id \in Ids, Archive(a, id) PROVE Inserted'
  BY <1>1, PlansAssumption DEF Archive, MakeWay, Inserted, PlanTyped, PcTyped, PlanAtHand, SetsTyped, Exists, Active, plan, stepping, noting, deciding, creating, at, Goes
<1>2. ASSUME NEW a \in Agents, NEW op \in Ops, NEW p \in Ids, NEW s \in Steps \cup {Nil}, Begins(a, op, p, s), Newest(p), op # "sweep", op # "create", s = Nil => op \notin {"step", "note"} PROVE Inserted'
  BY <1>2, PlansAssumption DEF Begins, Inserted, PlanTyped, PcTyped, PlanAtHand, SetsTyped, Exists, Active, plan, stepping, noting, deciding, creating, at, Goes, Newest
<1>3. ASSUME NEW a \in Agents, Insert(a) PROVE Inserted'
  BY <1>3, PlansAssumption DEF Insert, Inserted, PlanTyped, PcTyped, PlanAtHand, SetsTyped, Exists, Active, plan, stepping, noting, deciding, creating, at, Goes, Touched
<1>4. ASSUME NEW a \in Agents, Claim(a) PROVE Inserted'
  BY <1>4, PlansAssumption DEF Claim, Inserted, PlanTyped, PcTyped, PlanAtHand, SetsTyped, Exists, Active, plan, stepping, noting, deciding, creating, at, Goes
<1>5. ASSUME NEW a \in Agents, NEW to \in StepStatus, SetStep(a, to) PROVE Inserted'
  BY <1>5, PlansAssumption DEF SetStep, Inserted, PlanTyped, PcTyped, PlanAtHand, SetsTyped, Exists, Active, plan, stepping, noting, deciding, creating, at, Goes
<1>6. ASSUME NEW a \in Agents, Describe(a) PROVE Inserted'
  BY <1>6, PlansAssumption DEF Describe, Inserted, PlanTyped, PcTyped, PlanAtHand, SetsTyped, Exists, Active, plan, stepping, noting, deciding, creating, at, Goes
<1>7. ASSUME NEW a \in Agents, ReadNotes(a) PROVE Inserted'
  BY <1>7, PlansAssumption DEF ReadNotes, Inserted, PlanTyped, PcTyped, PlanAtHand, SetsTyped, Exists, Active, plan, stepping, noting, deciding, creating, at, Goes
<1>8. ASSUME NEW a \in Agents, NEW n \in Notes, WriteNotes(a, n) PROVE Inserted'
  BY <1>8, PlansAssumption DEF WriteNotes, Inserted, PlanTyped, PcTyped, PlanAtHand, SetsTyped, Exists, Active, plan, stepping, noting, deciding, creating, at, Goes
<1>9. ASSUME NEW a \in Agents, NEW d \in Decisions, AddDecision(a, d) PROVE Inserted'
  BY <1>9, PlansAssumption DEF AddDecision, Inserted, PlanTyped, PcTyped, PlanAtHand, SetsTyped, Exists, Active, plan, stepping, noting, deciding, creating, at, Goes
<1>10. ASSUME NEW a \in Agents, Complete(a) PROVE Inserted'
  BY <1>10, PlansAssumption DEF Complete, Inserted, PlanTyped, PcTyped, PlanAtHand, SetsTyped, Exists, Active, plan, stepping, noting, deciding, creating, at, Goes, Touched
<1>11. ASSUME NEW a \in Agents, Collect(a) PROVE Inserted'
  BY <1>11, PlansAssumption DEF Collect, Inserted, PlanTyped, PcTyped, PlanAtHand, SetsTyped, Exists, Active, plan, stepping, noting, deciding, creating, at, Goes
<1>12. ASSUME NEW a \in Agents, Graduate(a) PROVE Inserted'
  BY <1>12, PlansAssumption DEF Graduate, Inserted, PlanTyped, PcTyped, PlanAtHand, SetsTyped, Exists, Active, plan, stepping, noting, deciding, creating, at, Goes
<1>13. ASSUME NEW a \in Agents, Touch(a) PROVE Inserted'
  BY <1>13, PlansAssumption DEF Touch, Inserted, PlanTyped, PcTyped, PlanAtHand, SetsTyped, Exists, Active, plan, stepping, noting, deciding, creating, at, Goes, Touched
<1>14. ASSUME NEW a \in Agents, BlockInProgress(a) PROVE Inserted'
  BY <1>14, PlansAssumption DEF BlockInProgress, Inserted, PlanTyped, PcTyped, PlanAtHand, SetsTyped, Exists, Active, plan, stepping, noting, deciding, creating, at, Goes
<1>15. ASSUME NEW a \in Agents, SelectUntouched(a) PROVE Inserted'
  BY <1>15, PlansAssumption DEF SelectUntouched, Inserted, PlanTyped, PcTyped, PlanAtHand, SetsTyped, Exists, Active, plan, stepping, noting, deciding, creating, at, Goes, Untouched
<1>16. ASSUME NEW a \in Agents, ArchiveOne(a) PROVE Inserted'
  BY <1>16, PlansAssumption DEF ArchiveOne, Inserted, PlanTyped, PcTyped, PlanAtHand, SetsTyped, Exists, Active, plan, stepping, noting, deciding, creating, at, Goes, Touched
<1>17. ASSUME NEW p \in Ids, Age(p) PROVE Inserted'
  BY <1>17, PlansAssumption DEF Age, Inserted, PlanTyped, PcTyped, PlanAtHand, SetsTyped, Exists, Active, plan, stepping, noting, deciding, creating, at
<1>18. ASSUME NEW a \in Agents, Fail(a) PROVE Inserted'
  BY <1>18, PlansAssumption DEF Fail, Inserted, PlanTyped, PcTyped, PlanAtHand, SetsTyped, Exists, Active, plan, stepping, noting, deciding, creating, at, Goes
<1>19. ASSUME UNCHANGED <<status, pc, on, swept>> PROVE Inserted'
  BY <1>19 DEF Inserted, Exists
<1> QED
  BY <1>1, <1>2, <1>3, <1>4, <1>5, <1>6, <1>7, <1>8, <1>9, <1>10, <1>11, <1>12, <1>13, <1>14, <1>15, <1>16, <1>17, <1>18, <1>19, Cases DEF vars, plan, stepping, noting, deciding, creating, at

(* A second active plan is one that its creator has missed.                  *)
LEMMA ArchivedStep == PlanTyped /\ PcTyped /\ PlanAtHand /\ SetsTyped /\ Inserted /\ Archived /\ [Next]_vars => Archived'
<1> SUFFICES ASSUME PlanTyped, PcTyped, PlanAtHand, SetsTyped, Inserted, Archived, [Next]_vars PROVE Archived'
  OBVIOUS
<1>1. ASSUME NEW a \in Agents, NEW id \in Ids, Archive(a, id) PROVE Archived'
  BY <1>1, PlansAssumption DEF Archive, MakeWay, Archived, PlanTyped, PcTyped, TwoActiveNeedARace, Active, plan, stepping, noting, deciding, creating, at, Goes
<1>2. ASSUME NEW a \in Agents, NEW op \in Ops, NEW p \in Ids, NEW s \in Steps \cup {Nil}, Begins(a, op, p, s), Newest(p), op # "sweep", op # "create", s = Nil => op \notin {"step", "note"} PROVE Archived'
  BY <1>2, PlansAssumption DEF Begins, Archived, PlanTyped, PcTyped, TwoActiveNeedARace, Active, plan, stepping, noting, deciding, creating, at, Goes, Newest
<1>3. ASSUME NEW a \in Agents, Insert(a) PROVE Archived'
  BY <1>3, PlansAssumption DEF Insert, Archived, PlanTyped, PcTyped, TwoActiveNeedARace, Active, plan, stepping, noting, deciding, creating, at, Goes, Touched
<1>4. ASSUME NEW a \in Agents, Claim(a) PROVE Archived'
  BY <1>4, PlansAssumption DEF Claim, Archived, PlanTyped, PcTyped, TwoActiveNeedARace, Active, plan, stepping, noting, deciding, creating, at, Goes
<1>5. ASSUME NEW a \in Agents, NEW to \in StepStatus, SetStep(a, to) PROVE Archived'
  BY <1>5, PlansAssumption DEF SetStep, Archived, PlanTyped, PcTyped, TwoActiveNeedARace, Active, plan, stepping, noting, deciding, creating, at, Goes
<1>6. ASSUME NEW a \in Agents, Describe(a) PROVE Archived'
  BY <1>6, PlansAssumption DEF Describe, Archived, PlanTyped, PcTyped, TwoActiveNeedARace, Active, plan, stepping, noting, deciding, creating, at, Goes
<1>7. ASSUME NEW a \in Agents, ReadNotes(a) PROVE Archived'
  BY <1>7, PlansAssumption DEF ReadNotes, Archived, PlanTyped, PcTyped, TwoActiveNeedARace, Active, plan, stepping, noting, deciding, creating, at, Goes
<1>8. ASSUME NEW a \in Agents, NEW n \in Notes, WriteNotes(a, n) PROVE Archived'
  BY <1>8, PlansAssumption DEF WriteNotes, Archived, PlanTyped, PcTyped, TwoActiveNeedARace, Active, plan, stepping, noting, deciding, creating, at, Goes
<1>9. ASSUME NEW a \in Agents, NEW d \in Decisions, AddDecision(a, d) PROVE Archived'
  BY <1>9, PlansAssumption DEF AddDecision, Archived, PlanTyped, PcTyped, TwoActiveNeedARace, Active, plan, stepping, noting, deciding, creating, at, Goes
<1>10. ASSUME NEW a \in Agents, Complete(a) PROVE Archived'
  BY <1>10, PlansAssumption DEF Complete, Archived, PlanTyped, PcTyped, TwoActiveNeedARace, Active, plan, stepping, noting, deciding, creating, at, Goes, Touched
<1>11. ASSUME NEW a \in Agents, Collect(a) PROVE Archived'
  BY <1>11, PlansAssumption DEF Collect, Archived, PlanTyped, PcTyped, TwoActiveNeedARace, Active, plan, stepping, noting, deciding, creating, at, Goes
<1>12. ASSUME NEW a \in Agents, Graduate(a) PROVE Archived'
  BY <1>12, PlansAssumption DEF Graduate, Archived, PlanTyped, PcTyped, TwoActiveNeedARace, Active, plan, stepping, noting, deciding, creating, at, Goes
<1>13. ASSUME NEW a \in Agents, Touch(a) PROVE Archived'
  BY <1>13, PlansAssumption DEF Touch, Archived, PlanTyped, PcTyped, TwoActiveNeedARace, Active, plan, stepping, noting, deciding, creating, at, Goes, Touched
<1>14. ASSUME NEW a \in Agents, BlockInProgress(a) PROVE Archived'
  BY <1>14, PlansAssumption DEF BlockInProgress, Archived, PlanTyped, PcTyped, TwoActiveNeedARace, Active, plan, stepping, noting, deciding, creating, at, Goes
<1>15. ASSUME NEW a \in Agents, SelectUntouched(a) PROVE Archived'
  BY <1>15, PlansAssumption DEF SelectUntouched, Archived, PlanTyped, PcTyped, TwoActiveNeedARace, Active, plan, stepping, noting, deciding, creating, at, Goes, Untouched
<1>16. ASSUME NEW a \in Agents, ArchiveOne(a) PROVE Archived'
  BY <1>16, PlansAssumption DEF ArchiveOne, Archived, PlanTyped, PcTyped, TwoActiveNeedARace, Active, plan, stepping, noting, deciding, creating, at, Goes, Touched
<1>17. ASSUME NEW p \in Ids, Age(p) PROVE Archived'
  BY <1>17, PlansAssumption DEF Age, Archived, PlanTyped, PcTyped, TwoActiveNeedARace, Active, plan, stepping, noting, deciding, creating, at
<1>18. ASSUME NEW a \in Agents, Fail(a) PROVE Archived'
  BY <1>18, PlansAssumption DEF Fail, Archived, PlanTyped, PcTyped, TwoActiveNeedARace, Active, plan, stepping, noting, deciding, creating, at, Goes
<1>19. ASSUME UNCHANGED <<status, pc, missed, raced>> PROVE Archived'
  BY <1>19 DEF Archived, TwoActiveNeedARace, Active
<1> QED
  BY <1>1, <1>2, <1>3, <1>4, <1>5, <1>6, <1>7, <1>8, <1>9, <1>10, <1>11, <1>12, <1>13, <1>14, <1>15, <1>16, <1>17, <1>18, <1>19, Cases DEF vars, plan, stepping, noting, deciding, creating, at

(* A completion collects after it has completed.                             *)
LEMMA StoredStep == PlanTyped /\ PcTyped /\ PlanAtHand /\ SetsTyped /\ Stored /\ [Next]_vars => Stored'
<1> SUFFICES ASSUME PlanTyped, PcTyped, PlanAtHand, SetsTyped, Stored, [Next]_vars PROVE Stored'
  OBVIOUS
<1>1. ASSUME NEW a \in Agents, NEW id \in Ids, Archive(a, id) PROVE Stored'
  BY <1>1, PlansAssumption DEF Archive, MakeWay, Stored, PlanTyped, PcTyped, PlanAtHand, SetsTyped, Active, plan, stepping, noting, deciding, creating, at, Goes
<1>2. ASSUME NEW a \in Agents, NEW op \in Ops, NEW p \in Ids, NEW s \in Steps \cup {Nil}, Begins(a, op, p, s), Newest(p), op # "sweep", op # "create", s = Nil => op \notin {"step", "note"} PROVE Stored'
  BY <1>2, PlansAssumption DEF Begins, Stored, PlanTyped, PcTyped, PlanAtHand, SetsTyped, Active, plan, stepping, noting, deciding, creating, at, Goes, Newest
<1>3. ASSUME NEW a \in Agents, Insert(a) PROVE Stored'
  BY <1>3, PlansAssumption DEF Insert, Stored, PlanTyped, PcTyped, PlanAtHand, SetsTyped, Active, plan, stepping, noting, deciding, creating, at, Goes, Touched
<1>4. ASSUME NEW a \in Agents, Claim(a) PROVE Stored'
  BY <1>4, PlansAssumption DEF Claim, Stored, PlanTyped, PcTyped, PlanAtHand, SetsTyped, Active, plan, stepping, noting, deciding, creating, at, Goes
<1>5. ASSUME NEW a \in Agents, NEW to \in StepStatus, SetStep(a, to) PROVE Stored'
  BY <1>5, PlansAssumption DEF SetStep, Stored, PlanTyped, PcTyped, PlanAtHand, SetsTyped, Active, plan, stepping, noting, deciding, creating, at, Goes
<1>6. ASSUME NEW a \in Agents, Describe(a) PROVE Stored'
  BY <1>6, PlansAssumption DEF Describe, Stored, PlanTyped, PcTyped, PlanAtHand, SetsTyped, Active, plan, stepping, noting, deciding, creating, at, Goes
<1>7. ASSUME NEW a \in Agents, ReadNotes(a) PROVE Stored'
  BY <1>7, PlansAssumption DEF ReadNotes, Stored, PlanTyped, PcTyped, PlanAtHand, SetsTyped, Active, plan, stepping, noting, deciding, creating, at, Goes
<1>8. ASSUME NEW a \in Agents, NEW n \in Notes, WriteNotes(a, n) PROVE Stored'
  BY <1>8, PlansAssumption DEF WriteNotes, Stored, PlanTyped, PcTyped, PlanAtHand, SetsTyped, Active, plan, stepping, noting, deciding, creating, at, Goes
<1>9. ASSUME NEW a \in Agents, NEW d \in Decisions, AddDecision(a, d) PROVE Stored'
  BY <1>9, PlansAssumption DEF AddDecision, Stored, PlanTyped, PcTyped, PlanAtHand, SetsTyped, Active, plan, stepping, noting, deciding, creating, at, Goes
<1>10. ASSUME NEW a \in Agents, Complete(a) PROVE Stored'
  <2>1. on[a] \in Ids /\ pc'[a] = "collect" /\ on'[a] = on[a] /\ UNCHANGED <<cut, permanent, memories, late, todo, on>>
    BY <1>10, PlansAssumption DEF Complete, Goes, PcTyped, PlanAtHand, deciding
  <2>2. \A p \in Ids : p # on[a] => status'[p] = status[p]
    BY <1>10, <2>1 DEF Complete, PlanTyped
  <2>3. \A b \in Agents : b # a => pc'[b] = pc[b]
    BY <1>10 DEF Complete, Goes, PcTyped
  <2>4. pc[a] = "complete"
    BY <1>10 DEF Complete
  <2> SUFFICES ASSUME NEW p \in Ids, status'[p] = "completed", p \notin cut', NEW d \in permanent'[p]
               PROVE  \/ d \in memories' \cup late'
                      \/ \E b \in Agents : on'[b] = p /\ (pc'[b] = "collect" \/ (pc'[b] = "graduate" /\ d \in todo'[b]))
    BY DEF Stored
  <2>5. CASE p = on[a]
    <3>1. on'[a] = p /\ pc'[a] = "collect"
      BY <2>1, <2>5
    <3> QED
      BY <1>9, <3>1
  <2>6. CASE p # on[a]
    BY <2>1, <2>2, <2>3, <2>4, <2>6 DEF Stored
  <2> QED
    BY <2>5, <2>6
<1>11. ASSUME NEW a \in Agents, Collect(a) PROVE Stored'
  BY <1>11, PlansAssumption DEF Collect, Stored, PlanTyped, PcTyped, PlanAtHand, SetsTyped, Active, plan, stepping, noting, deciding, creating, at, Goes
<1>12. ASSUME NEW a \in Agents, Graduate(a) PROVE Stored'
  BY <1>12, PlansAssumption DEF Graduate, Stored, PlanTyped, PcTyped, PlanAtHand, SetsTyped, Active, plan, stepping, noting, deciding, creating, at, Goes
<1>13. ASSUME NEW a \in Agents, Touch(a) PROVE Stored'
  BY <1>13, PlansAssumption DEF Touch, Stored, PlanTyped, PcTyped, PlanAtHand, SetsTyped, Active, plan, stepping, noting, deciding, creating, at, Goes, Touched
<1>14. ASSUME NEW a \in Agents, BlockInProgress(a) PROVE Stored'
  BY <1>14, PlansAssumption DEF BlockInProgress, Stored, PlanTyped, PcTyped, PlanAtHand, SetsTyped, Active, plan, stepping, noting, deciding, creating, at, Goes
<1>15. ASSUME NEW a \in Agents, SelectUntouched(a) PROVE Stored'
  BY <1>15, PlansAssumption DEF SelectUntouched, Stored, PlanTyped, PcTyped, PlanAtHand, SetsTyped, Active, plan, stepping, noting, deciding, creating, at, Goes, Untouched
<1>16. ASSUME NEW a \in Agents, ArchiveOne(a) PROVE Stored'
  BY <1>16, PlansAssumption DEF ArchiveOne, Stored, PlanTyped, PcTyped, PlanAtHand, SetsTyped, Active, plan, stepping, noting, deciding, creating, at, Goes, Touched
<1>17. ASSUME NEW p \in Ids, Age(p) PROVE Stored'
  BY <1>17, PlansAssumption DEF Age, Stored, PlanTyped, PcTyped, PlanAtHand, SetsTyped, Active, plan, stepping, noting, deciding, creating, at
<1>18. ASSUME NEW a \in Agents, Fail(a) PROVE Stored'
  BY <1>18, PlansAssumption DEF Fail, Stored, PlanTyped, PcTyped, PlanAtHand, SetsTyped, Active, plan, stepping, noting, deciding, creating, at, Goes
<1>19. ASSUME UNCHANGED <<status, cut, permanent, memories, late, on, pc, todo>> PROVE Stored'
  BY <1>19 DEF Stored
<1> QED
  BY <1>1, <1>2, <1>3, <1>4, <1>5, <1>6, <1>7, <1>8, <1>9, <1>10, <1>11, <1>12, <1>13, <1>14, <1>15, <1>16, <1>17, <1>18, <1>19, Cases DEF vars, plan, stepping, noting, deciding, creating, at

PlansInv == Typed /\ Inserted /\ Held /\ Archived /\ Stored

(* The inductive invariant.                                                  *)
LEMMA PlansInvariant == Spec => []PlansInv
<1>1. Init => PlansInv
  BY PlansInit DEF PlansInv
<1>2. PlansInv /\ [Next]_vars => PlansInv'
  BY PlanTypedStep, StepTypedStep, PcTypedStep, AtHandStep, SetsTypedStep, InsertedStep, HeldStep, ArchivedStep,
     StoredStep DEF PlansInv, Typed
<1> QED
  BY <1>1, <1>2, PTL DEF Spec

(* For any number of agents, plans and steps, one agent at most has a step   *)
(* (plan-repository.ts, updateStep).                                         *)
THEOREM ClaimedOnce == Spec => []OneClaim
<1>1. PlansInv => OneClaim
  <2> SUFFICES ASSUME PlansInv, NEW p \in Ids, NEW s \in Steps PROVE Cardinality(holder[p][s]) <= 1
    BY DEF OneClaim
  <2>1. CASE holder[p][s] = {}
    BY <2>1, FS_EmptySet
  <2>2. ASSUME NEW a \in Agents, holder[p][s] = {a} PROVE Cardinality(holder[p][s]) <= 1
    <3>1. Cardinality({a}) = 1
      BY FS_Singleton
    <3> QED
      BY <2>2, <3>1
  <2> QED
    BY <2>1, <2>2 DEF PlansInv, Held
<1> QED
  BY <1>1, PlansInvariant, PTL

(* For any number of processes, two plans of a project are active only after *)
(* two creates have overlapped (plan-repository.ts, create).                 *)
THEOREM OneActiveWithoutRaces == Spec => []TwoActiveNeedARace
<1>1. PlansInv => TwoActiveNeedARace
  BY DEF PlansInv, Archived
<1> QED
  BY <1>1, PlansInvariant, PTL

(* For any number of processes and decisions, what was decided while the     *)
(* plan was active is a memory once it is completed, unless the completion   *)
(* was cut short (plan-tool.ts, handleComplete).                             *)
THEOREM DecisionsAreStored == Spec => []DecisionsGraduate
<1>1. PlansInv => DecisionsGraduate
  BY DEF PlansInv, Stored, DecisionsGraduate, Graduating
<1> QED
  BY <1>1, PlansInvariant, PTL

(* What a process has read of a step's notes, with what was added since.     *)
NoteTyped ==
  /\ notes \in [Ids -> [Steps -> SUBSET Notes]]
  /\ seen \in [Agents -> SUBSET Notes] /\ fresh \in [Agents -> SUBSET Notes]

Reads ==
  \A a \in Agents :
    /\ pc[a] = "note" => of[a] # Nil
    /\ pc[a] = "append" => \A p \in Ids, s \in Steps : on[a] = p /\ of[a] = s => notes[p][s] \subseteq seen[a] \cup fresh[a]

Noted == NoteTyped /\ Reads

(* A note written by one process reaches the ghost of every other that has   *)
(* read the same step.                                                       *)
LEMMA NotedWrite ==
  ASSUME Typed, Noted, NEW a \in Agents, NEW n \in Notes, WriteNotes(a, n)
  PROVE  Noted'
<1>1. on[a] \in Ids
  BY PlansAssumption DEF WriteNotes, Typed, PcTyped, PlanAtHand
<1>2. notes' \in [Ids -> [Steps -> SUBSET Notes]]
  BY <1>1 DEF WriteNotes, Noted, NoteTyped
<1>3. fresh' \in [Agents -> SUBSET Notes]
  <2> SUFFICES ASSUME NEW b \in Agents, pc[b] = "append", on[b] = on[a], of[b] = of[a], b # a
               PROVE  notes'[on[a]][of[a]] \ notes[on[a]][of[a]] \subseteq Notes
    BY DEF WriteNotes, Noted, NoteTyped
  <2>1. CASE of[a] \in Steps
    BY <1>1, <1>2, <2>1
  <2>2. CASE of[a] \notin Steps
    <3>1. notes'[on[a]] = notes[on[a]]
      BY <1>1, <2>2 DEF WriteNotes, Noted, NoteTyped
    <3> QED BY <3>1
  <2> QED BY <2>1, <2>2
<1>4. NoteTyped'
  BY <1>2, <1>3 DEF WriteNotes, Noted, NoteTyped
<1>5. ASSUME NEW b \in Agents PROVE pc'[b] = "note" => of'[b] # Nil
  BY <1>5 DEF WriteNotes, Noted, Reads, Typed, PcTyped, Goes
<1>6. ASSUME NEW b \in Agents, pc'[b] = "append", NEW p \in Ids, NEW s \in Steps, on'[b] = p, of'[b] = s
      PROVE  notes'[p][s] \subseteq seen'[b] \cup fresh'[b]
  <2>1. b # a /\ pc[b] = "append" /\ on[b] = p /\ of[b] = s /\ seen'[b] = seen[b]
    BY <1>6 DEF WriteNotes, Typed, PcTyped, Goes, Noted, NoteTyped
  <2>2. notes[p][s] \subseteq seen[b] \cup fresh[b]
    BY <1>6, <2>1 DEF Noted, Reads
  <2>3. CASE p = on[a] /\ s = of[a]
    <3>1. fresh'[b] = fresh[b] \cup (notes'[p][s] \ notes[p][s])
      BY <2>1, <2>3 DEF WriteNotes
    <3> QED BY <2>1, <2>2, <3>1
  <2>4. CASE ~(p = on[a] /\ s = of[a])
    <3>1. notes'[p][s] = notes[p][s]
      BY <1>1, <2>4 DEF WriteNotes, Noted, NoteTyped
    <3>2. fresh[b] \subseteq fresh'[b]
      BY DEF WriteNotes
    <3> QED BY <2>1, <2>2, <3>1, <3>2
  <2> QED BY <2>3, <2>4
<1> QED BY <1>4, <1>5, <1>6 DEF Noted, Reads

LEMMA NotedStep == Typed /\ Noted /\ [Next]_vars => Noted'
<1> SUFFICES ASSUME Typed, Noted, [Next]_vars PROVE Noted'
  OBVIOUS
<1>1. ASSUME UNCHANGED noting,
             \A a \in Agents : /\ pc'[a] = "note" => of'[a] # Nil
                               /\ pc'[a] = "append" => pc[a] = "append" /\ on'[a] = on[a] /\ of'[a] = of[a]
      PROVE  Noted'
  <2>1. notes' = notes /\ seen' = seen /\ fresh' = fresh
    BY <1>1 DEF noting
  <2>2. NoteTyped'
    BY <2>1 DEF Noted, NoteTyped
  <2>3. ASSUME NEW a \in Agents, pc'[a] = "append", NEW p \in Ids, NEW s \in Steps, on'[a] = p, of'[a] = s
        PROVE  notes'[p][s] \subseteq seen'[a] \cup fresh'[a]
    <3>1. notes[p][s] \subseteq seen[a] \cup fresh[a]
      BY <1>1, <2>3 DEF Noted, Reads
    <3> QED BY <2>1, <3>1
  <2>4. ASSUME NEW a \in Agents PROVE pc'[a] = "note" => of'[a] # Nil
    BY <1>1
  <2>5. Reads'
    BY <2>3, <2>4 DEF Reads
  <2> QED BY <2>2, <2>5 DEF Noted
<1>2. ASSUME NEW a \in Agents, NEW n \in Notes, WriteNotes(a, n) PROVE Noted'
  BY <1>2, NotedWrite
<1>3. ASSUME NEW a \in Agents, ReadNotes(a) PROVE Noted'
  <2>1. on[a] \in Ids /\ of[a] \in Steps
    BY <1>3, PlansAssumption DEF ReadNotes, Noted, Reads, Typed, PcTyped, PlanAtHand
  <2>2. NoteTyped'
    BY <1>3, <2>1 DEF ReadNotes, Noted, NoteTyped
  <2>3. Reads'
    BY <1>3, <2>1 DEF ReadNotes, Noted, NoteTyped, Reads, Typed, PcTyped, Goes
  <2> QED BY <2>2, <2>3 DEF Noted
<1>4. ASSUME NEW a \in Agents, Fail(a) PROVE Noted'
  <2>1. NoteTyped'
    BY <1>4 DEF Fail, Noted, NoteTyped
  <2>2. Reads'
    BY <1>4 DEF Fail, Noted, NoteTyped, Reads, Typed, PcTyped, Goes
  <2> QED BY <2>1, <2>2 DEF Noted
<1>5. ASSUME NEW a \in Agents, NEW op \in Ops, NEW p \in Ids, NEW s \in Steps \cup {Nil}, Begins(a, op, p, s),
             s = Nil => op \notin {"step", "note"}
      PROVE  Noted'
  BY <1>1, <1>5, PlansAssumption DEF Begins, Noted, Reads, Typed, PcTyped, Goes
<1>6. ASSUME NEW a \in Agents, NEW id \in Ids, Archive(a, id) PROVE Noted'
  BY <1>1, <1>6 DEF Archive, MakeWay, Noted, Reads, Typed, PcTyped, Goes
<1>7. ASSUME NEW a \in Agents, Insert(a) \/ Touch(a) \/ Claim(a) PROVE Noted'
  <2>1. CASE Insert(a)
    BY <1>1, <2>1 DEF Insert, Noted, Reads, Typed, PcTyped, Goes
  <2>2. CASE Touch(a)
    BY <1>1, <2>2 DEF Touch, Noted, Reads, Typed, PcTyped, Goes
  <2>3. CASE Claim(a)
    BY <1>1, <2>3 DEF Claim, Noted, Reads, Typed, PcTyped, Goes
  <2> QED BY <1>7, <2>1, <2>2, <2>3
<1>8. ASSUME NEW a \in Agents, Describe(a) \/ BlockInProgress(a) \/ \E to \in StepStatus : SetStep(a, to) PROVE Noted'
  BY <1>1, <1>8 DEF Describe, BlockInProgress, SetStep, Noted, Reads, Typed, PcTyped, Goes
<1>9. ASSUME NEW a \in Agents, Complete(a) \/ Collect(a) \/ Graduate(a) \/ \E d \in Decisions : AddDecision(a, d)
      PROVE  Noted'
  BY <1>1, <1>9 DEF Complete, Collect, Graduate, AddDecision, Noted, Reads, Typed, PcTyped, Goes
<1>10. ASSUME NEW a \in Agents, SelectUntouched(a) \/ ArchiveOne(a) PROVE Noted'
  BY <1>1, <1>10 DEF SelectUntouched, ArchiveOne, Noted, Reads, Typed, PcTyped, Goes
<1>11. ASSUME NEW p \in Ids, Age(p) PROVE Noted'
  BY <1>1, <1>11 DEF Age, at, Noted, Reads
<1>12. CASE UNCHANGED vars
  BY <1>1, <1>12 DEF vars, at, Noted, Reads
<1> QED
  BY <1>2, <1>3, <1>4, <1>5, <1>6, <1>7, <1>8, <1>9, <1>10, <1>11, <1>12, Cases

(* For any number of processes and notes, a note is lost only by a replace   *)
(* or by a writer that read before it was written (plan-repository.ts,       *)
(* addNote).                                                                 *)
THEOREM NoteLossNeedsARace == Spec => NotesNeedARace
<1> DEFINE Kept == \A p \in Ids, s \in Steps : notes[p][s] \subseteq notes'[p][s] \/
       \E a \in Agents : /\ on[a] = p /\ of[a] = s
                         /\ \/ pc[a] = "replace"
                            \/ pc[a] = "append" /\ notes[p][s] \ notes'[p][s] \subseteq fresh[a]
<1>1. Init => Noted
  BY DEF Init, Noted, NoteTyped, Reads
<1>2. Typed /\ Noted /\ [Next]_vars => [Kept]_vars
  <2> SUFFICES ASSUME Typed, Noted, [Next]_vars, NEW p \in Ids, NEW s \in Steps
               PROVE  notes[p][s] \subseteq notes'[p][s] \/
                        \E a \in Agents : /\ on[a] = p /\ of[a] = s
                                          /\ \/ pc[a] = "replace"
                                             \/ pc[a] = "append" /\ notes[p][s] \ notes'[p][s] \subseteq fresh[a]
    OBVIOUS
  <2>1. ASSUME NEW a \in Agents, NEW n \in Notes, WriteNotes(a, n), on[a] = p, of[a] = s, pc[a] # "replace"
        PROVE  pc[a] = "append" /\ notes[p][s] \ notes'[p][s] \subseteq fresh[a]
    <3>1. pc[a] = "append" /\ notes'[p][s] = seen[a] \cup {n}
      BY <2>1 DEF WriteNotes, Noted, NoteTyped
    <3>2. notes[p][s] \subseteq seen[a] \cup fresh[a]
      BY <2>1, <3>1 DEF Noted, Reads
    <3> QED BY <3>1, <3>2
  <2>2. ASSUME NEW a \in Agents, NEW n \in Notes, WriteNotes(a, n), ~(on[a] = p /\ of[a] = s)
        PROVE  notes'[p][s] = notes[p][s]
    BY <2>2 DEF WriteNotes, Noted, NoteTyped
  <2>3. CASE notes' = notes
    BY <2>3
  <2> QED
    BY <2>1, <2>2, <2>3, Cases
    DEF Archive, MakeWay, Begins, Insert, Claim, SetStep, Describe, ReadNotes, AddDecision, Complete, Collect, Graduate,
        Touch, BlockInProgress, SelectUntouched, ArchiveOne, Fail, Age, vars, noting
<1>3. PlansInv => Typed
  BY DEF PlansInv
<1> QED
  BY <1>1, <1>2, <1>3, NotedStep, PlansInvariant, PTL DEF Spec, NotesNeedARace

(* The three together, as the run checks them: claims, active plans and      *)
(* decisions are as agents that work on a plan together rely on.             *)
THEOREM PlansAreSafe == Spec => []PlansSafe
<1> QED
  BY ClaimedOnce, OneActiveWithoutRaces, DecisionsAreStored, PTL DEF PlansSafe

-----------------------------------------------------------------------------
(* Reminders: how often one fires past its limit.                            *)

\* Who is about to fire a reminder, and who of them will not switch it off.
Holding(r) == {p \in Proc : held[p] # None /\ r \in DOMAIN held[p]}
Low(r) == {p \in Holding(r) : ~Exhausted(r, held[p][r] + 1)}

\* While a reminder is on, a process that has read it low owes its limit a fire
\* that has not been counted; once it is off nobody reads it again.
Bounded(r) ==
  IF row[r].active THEN row[r].count + Cardinality(Low(r)) + 2 <= row[r].max + Cardinality(Proc)
  ELSE row[r].count + Cardinality(Holding(r)) + 2 <= row[r].max + 2 * Cardinality(Proc)

HeldTyped ==
  /\ DOMAIN held = Proc
  /\ \A p \in Proc : held[p] # None => \A r \in DOMAIN held[p] : r \in Rows /\ held[p][r] \in Nat

PendingTyped ==
  /\ DOMAIN pending = Proc
  /\ \A p \in Proc : pending[p] # None =>
       /\ pending[p].id \in Id \ Rows /\ pending[p].row \in Reminder
       /\ pending[p].row.count = 0 /\ pending[p].row.active
  /\ \A p, q \in Proc : pending[p] # None /\ pending[q] # None /\ pending[p].id = pending[q].id => p = q

RemInv ==
  /\ row \in [Id -> Reminder \cup {None}] /\ HeldTyped /\ PendingTyped
  /\ \A r \in Rows : row[r].max > 0 => Bounded(r)

LEMMA Numbers ==
  ASSUME NEW S, S \subseteq Proc
  PROVE  /\ IsFiniteSet(S) /\ Cardinality(S) \in Nat /\ Cardinality(Proc) \in Nat
         /\ Cardinality(S) <= Cardinality(Proc)
         /\ \A T : T \subseteq S => Cardinality(T) \in Nat /\ Cardinality(T) <= Cardinality(S)
         /\ \A p \in S : Cardinality(S \ {p}) + 1 = Cardinality(S) /\ Cardinality(S \ {p}) \in Nat
<1>1. IsFiniteSet(S) /\ IsFiniteSet(Proc) /\ Cardinality(S) <= Cardinality(Proc)
  BY ReminderAssumption, FS_Subset
<1>2. Cardinality(S) \in Nat /\ Cardinality(Proc) \in Nat
  BY <1>1, FS_CardinalityType
<1>3. ASSUME NEW T, T \subseteq S PROVE Cardinality(T) \in Nat /\ Cardinality(T) <= Cardinality(S)
  BY <1>1, <1>3, FS_Subset, FS_CardinalityType
<1>4. ASSUME NEW p \in S PROVE Cardinality(S \ {p}) + 1 = Cardinality(S) /\ Cardinality(S \ {p}) \in Nat
  <2>1. Cardinality(S \ {p}) = Cardinality(S) - 1 /\ Cardinality(S \ {p}) \in Nat
    BY <1>1, <1>3, FS_RemoveElement
  <2> QED  BY <1>2, <2>1
<1> QED  BY <1>1, <1>2, <1>3, <1>4

LEMMA RowTyped ==
  ASSUME RemInv, NEW r \in Rows
  PROVE  /\ r \in Id /\ row[r] \in Reminder /\ row[r].count \in 0 .. MaxCount /\ row[r].max \in Nat /\ row[r].active \in BOOLEAN
         /\ Low(r) \subseteq Holding(r) /\ Holding(r) \subseteq Proc
BY ReminderAssumption DEF RemInv, Rows, Reminder, Low, Holding

(* Steps that change neither a reminder nor who is about to fire it, or only *)
(* make some forget it.                                                      *)
LEMMA BoundedStays ==
  ASSUME RemInv, NEW r \in Rows, row[r].max > 0, row'[r] = row[r], Holding(r)' \subseteq Holding(r), Low(r)' \subseteq Low(r)
  PROVE  Bounded(r)'
<1>1. PICK H, L, G, M : H = Holding(r) /\ L = Low(r) /\ G = Holding(r)' /\ M = Low(r)'
  OBVIOUS
<1>2. H \subseteq Proc /\ L \subseteq Proc /\ G \subseteq H /\ M \subseteq L
  BY <1>1, RowTyped
<1>3. /\ Cardinality(G) <= Cardinality(H) /\ Cardinality(M) <= Cardinality(L)
      /\ {Cardinality(G), Cardinality(H), Cardinality(M), Cardinality(L)} \subseteq Nat /\ Cardinality(Proc) \in Nat
  BY <1>2, Numbers
<1>4. Bounded(r) /\ row[r].count \in Nat /\ row[r].max \in Nat
  BY RowTyped DEF RemInv
<1> QED  BY <1>1, <1>3, <1>4 DEF Bounded

LEMMA RemStarts == ReminderInit => RemInv
BY DEF ReminderInit, RemInv, HeldTyped, PendingTyped, Rows

LEMMA AskStep ==
  ASSUME RemInv, NEW p \in Proc, NEW r \in Id, Ask(p, r)
  PROVE  RemInv'
<1>1. PICK x \in Scope, t \in Types, m \in Limits : pending' = [pending EXCEPT ![p] = [id |-> r, row |->
            [type |-> t, project |-> x, max |-> m, count |-> 0, active |-> TRUE]]]
  BY DEF Ask
<1> DEFINE y == [type |-> t, project |-> x, max |-> m, count |-> 0, active |-> TRUE]
<1>2. y \in Reminder /\ y.count = 0 /\ y.active
  BY ReminderAssumption DEF Reminder
<1> HIDE DEF y
<1>3. pending' = [pending EXCEPT ![p] = [id |-> r, row |-> y]]
  BY <1>1 DEF y
<1>4. r \in Id \ Rows /\ UNCHANGED <<row, held>> /\ \A q \in Proc : pending[q] # None => pending[q].id # r
  BY DEF Ask, Rows
<1>5. PendingTyped'
  BY <1>2, <1>3, <1>4 DEF RemInv, PendingTyped, Rows
<1>6. \A s \in Rows' : row'[s].max > 0 => Bounded(s)'
  BY <1>4 DEF RemInv, Bounded, Rows, Holding, Low, Exhausted
<1> QED  BY <1>4, <1>5, <1>6 DEF RemInv, HeldTyped, Rows

(* A new reminder is one that nobody has read.                               *)
LEMMA InsertStep ==
  ASSUME RemInv, NEW p \in Proc, InsertRow(p)
  PROVE  RemInv'
<1>1. PICK s, y : /\ pending[p] # None /\ s = pending[p].id /\ y = pending[p].row
                  /\ s \in Id \ Rows /\ y \in Reminder /\ y.count = 0 /\ y.active
  BY DEF InsertRow, RemInv, PendingTyped
<1>2. row' = [row EXCEPT ![s] = y] /\ pending' = [pending EXCEPT ![p] = None] /\ UNCHANGED held
  BY <1>1 DEF InsertRow
<1>3. row' \in [Id -> Reminder \cup {None}] /\ row'[s] = y /\ Rows' = Rows \cup {s}
      /\ \A r \in Rows : row'[r] = row[r]
  BY <1>1, <1>2, ReminderAssumption DEF RemInv, Rows
<1>4. HeldTyped' /\ PendingTyped'
  BY <1>1, <1>2, <1>3 DEF RemInv, HeldTyped, PendingTyped
<1>5. ASSUME NEW r \in Rows, row'[r].max > 0 PROVE Bounded(r)'
  BY <1>2, <1>3, <1>5, BoundedStays DEF Holding, Low, Exhausted
<1>6. ASSUME row'[s].max > 0 PROVE Bounded(s)'
  <2>1. Low(s)' = {}
    BY <1>1, <1>2 DEF Low, Holding, RemInv, HeldTyped
  <2>2. Cardinality(Proc) \in Nat /\ Cardinality(Proc) >= 1
    <3>1. Cardinality({p}) = 1 /\ {p} \subseteq Proc
      BY FS_Singleton
    <3> QED  BY <3>1, Numbers
  <2>3. row'[s].max \in Nat /\ row'[s].count = 0 /\ row'[s].active
    BY <1>1, <1>3, ReminderAssumption DEF Reminder
  <2> QED  BY <1>6, <2>1, <2>2, <2>3, FS_EmptySet DEF Bounded
<1> QED  BY <1>3, <1>4, <1>5, <1>6 DEF RemInv

LEMMA FoundIsActive ==
  ASSUME NEW kind \in Type, NEW x, NEW matches
  PROVE  \A r \in Found(kind, x, matches) : r \in Rows /\ row[r].active
<1>1. \A rs : First(rs) \subseteq rs
  BY DEF First
<1>2. kind \in {"prompt", "file", "time", "conditional"}
  BY DEF Type
<1> QED  BY <1>1, <1>2 DEF Found, ActiveIn

(* Who reads a reminder that is not about to be switched off has read that   *)
(* two fires or more are missing.                                            *)
LEMMA CheckStep ==
  ASSUME RemInv, NEW p \in Proc, NEW kind \in Types \cup {"prompt"}, NEW x, Check(p, kind, x)
  PROVE  RemInv'
<1>1. PICK found : held' = [held EXCEPT ![p] = [r \in found |-> row[r].count]] /\ \A r \in found : r \in Rows /\ row[r].active
  <2>1. kind \in Type
    BY ReminderAssumption DEF Type
  <2> QED  BY <2>1, FoundIsActive DEF Check
<1>2. held[p] = None /\ UNCHANGED <<row, pending>> /\ Rows' = Rows
  BY DEF Check, Rows
<1> DEFINE h == [r \in found |-> row[r].count]
<1>3. DOMAIN h = found /\ \A r \in found : h[r] = row[r].count /\ h[r] \in Nat
  BY <1>1, RowTyped
<1> HIDE DEF h
<1>4. held' = [held EXCEPT ![p] = h] /\ DOMAIN held = Proc
  BY <1>1 DEF h, RemInv, HeldTyped
<1>5. HeldTyped' /\ PendingTyped'
  BY <1>1, <1>2, <1>3, <1>4 DEF RemInv, HeldTyped, PendingTyped
<1>6. ASSUME NEW r \in Rows, row[r].max > 0 PROVE Bounded(r)'
  <2>1. p \notin Holding(r)
    BY <1>2 DEF Holding
  <2>2. CASE r \in found /\ row[r].count + 1 < row[r].max
    <3>1. PICK M : M = Low(r)' /\ M \subseteq Proc
      BY DEF Low, Holding
    <3>2. Cardinality(M) \in Nat /\ Cardinality(M) <= Cardinality(Proc) /\ Cardinality(Proc) \in Nat
      BY <3>1, Numbers
    <3>3. row[r].active /\ row[r].count \in Nat /\ row[r].max \in Nat
      BY <1>1, <2>2, RowTyped
    <3> QED  BY <1>2, <2>2, <3>1, <3>2, <3>3 DEF Bounded
  <2>3. CASE r \in found /\ ~(row[r].count + 1 < row[r].max)
    <3>1. row[r].count \in Nat /\ row[r].max \in Nat /\ row[r].active
      BY <1>1, <2>3, RowTyped
    <3>2. Exhausted(r, h[r] + 1)
      BY <1>3, <1>6, <2>3, <3>1 DEF Exhausted
    <3>3. Low(r)' \subseteq Low(r)
      BY <1>2, <1>4, <3>2 DEF Low, Holding, Exhausted
    <3>4. PICK L, M : L = Low(r) /\ M = Low(r)' /\ L \subseteq Proc /\ M \subseteq L
      BY <3>3, RowTyped
    <3>5. Cardinality(M) \in Nat /\ Cardinality(L) \in Nat /\ Cardinality(M) <= Cardinality(L) /\ Cardinality(Proc) \in Nat
      BY <3>4, Numbers
    <3>6. row[r].count + Cardinality(L) + 2 <= row[r].max + Cardinality(Proc)
      BY <1>6, <3>1, <3>4 DEF RemInv, Bounded
    <3> QED  BY <1>2, <3>1, <3>4, <3>5, <3>6 DEF Bounded
  <2>4. CASE r \notin found
    <3>1. Holding(r)' \subseteq Holding(r) /\ Low(r)' \subseteq Low(r)
      BY <1>2, <1>3, <1>4, <2>4 DEF Low, Holding, Exhausted
    <3> QED  BY <1>2, <1>6, <3>1, BoundedStays
  <2> QED  BY <2>2, <2>3, <2>4
<1> QED  BY <1>2, <1>5, <1>6 DEF RemInv

LEMMA FireStep ==
  ASSUME RemInv, NEW p \in Proc, Fire(p)
  PROVE  RemInv'
<1> DEFINE fired == DOMAIN held[p]
           y(r) == [row[r] EXCEPT !.count = Up(@), !.active = @ /\ ~Exhausted(r, held[p][r] + 1)]
<1>1. /\ held[p] # None /\ held' = [held EXCEPT ![p] = None] /\ UNCHANGED pending
      /\ row' = [r \in Id |-> IF r \notin fired THEN row[r] ELSE y(r)]
  BY DEF Fire
<1>2. fired \subseteq Rows /\ DOMAIN held = Proc /\ \A r \in fired : held[p][r] \in Nat
  BY <1>1 DEF RemInv, HeldTyped
<1>3. ASSUME NEW r \in fired
      PROVE  /\ y(r) \in Reminder /\ y(r).count = Up(row[r].count) /\ y(r).max = row[r].max
             /\ y(r).active = (row[r].active /\ ~Exhausted(r, held[p][r] + 1))
             /\ y(r).count \in Nat /\ y(r).count <= row[r].count + 1
  <2>1. row[r] \in Reminder /\ row[r].count \in 0 .. MaxCount
    BY <1>2, RowTyped
  <2>2. Up(row[r].count) \in 0 .. MaxCount /\ Up(row[r].count) <= row[r].count + 1
    BY <2>1, ReminderAssumption DEF Up
  <2>3. PICK c, a : /\ c = Up(row[r].count) /\ c \in 0 .. MaxCount /\ c \in Nat /\ c <= row[r].count + 1
                    /\ a \in BOOLEAN /\ a = (row[r].active /\ ~Exhausted(r, held[p][r] + 1))
    <3>1. Up(row[r].count) \in Nat
      BY <2>2, ReminderAssumption
    <3>2. (row[r].active /\ ~Exhausted(r, held[p][r] + 1)) \in BOOLEAN
      OBVIOUS
    <3> QED  BY <2>2, <3>1, <3>2, Zenon
  <2>4. y(r) = [row[r] EXCEPT !.count = c, !.active = a]
    BY <2>3, Zenon
  <2>5. y(r) \in Reminder /\ y(r).count = c /\ y(r).max = row[r].max /\ y(r).active = a
    <3> HIDE DEF y
    <3> QED  BY <2>1, <2>3, <2>4 DEF Reminder
  <2>6. y(r).count = Up(row[r].count) /\ y(r).count \in Nat /\ y(r).count <= row[r].count + 1
    <3> HIDE DEF y
    <3> QED  BY <2>3, <2>5
  <2>7. y(r).active = (row[r].active /\ ~Exhausted(r, held[p][r] + 1))
    BY <2>3, <2>5, Zenon
  <2> HIDE DEF y
  <2> QED  BY <2>5, <2>6, <2>7, Zenon
<1>4. \A r \in Id : row'[r] = IF r \notin fired THEN row[r] ELSE y(r)
  BY <1>1
<1> HIDE DEF y
<1>5. row' \in [Id -> Reminder \cup {None}]
  BY <1>1, <1>3 DEF RemInv
<1>6. Rows' = Rows
  BY <1>2, <1>3, <1>4, ReminderAssumption DEF Rows
<1>7. HeldTyped' /\ PendingTyped'
  BY <1>1, <1>2, <1>6 DEF RemInv, HeldTyped, PendingTyped
<1>8. ASSUME NEW r \in Rows, row'[r].max > 0 PROVE Bounded(r)'
  <2>1. r \in Id /\ row[r] \in Reminder /\ row[r].count \in Nat /\ row[r].max \in Nat /\ row[r].active \in BOOLEAN
    BY RowTyped
  <2>2. row'[r].max = row[r].max
    BY <1>3, <1>4, <2>1
  <2>3. Bounded(r)
    BY <1>8, <2>2 DEF RemInv
  <2>4. \A q \in Holding(r)' : q \in Holding(r) /\ q # p /\ held'[q] = held[q]
    BY <1>1, <1>2 DEF Holding
  <2>5. Low(r)' \subseteq Low(r) \ {p}
    BY <2>2, <2>4 DEF Low, Exhausted
  <2>6. Holding(r)' \subseteq Holding(r) \ {p}
    BY <2>4
  <2>7. CASE r \notin fired
    <3>1. row'[r] = row[r]
      BY <1>4, <2>1, <2>7
    <3> QED  BY <1>8, <2>5, <2>6, <3>1, BoundedStays
  <2>8. CASE r \in fired
    <3>1. PICK H, L, G, M : /\ H = Holding(r) /\ L = Low(r) /\ G = Holding(r)' /\ M = Low(r)'
                            /\ G \subseteq H \ {p} /\ M \subseteq L \ {p} /\ H \subseteq Proc /\ L \subseteq H
      BY <2>5, <2>6, RowTyped
    <3>2. p \in H
      BY <1>1, <2>8, <3>1 DEF Holding
    <3>3. /\ {Cardinality(H), Cardinality(L), Cardinality(G), Cardinality(M), Cardinality(Proc)} \subseteq Nat
          /\ Cardinality(G) + 1 <= Cardinality(H) /\ Cardinality(H) <= Cardinality(Proc)
      <4>1. G \subseteq H /\ M \subseteq Proc /\ L \subseteq Proc /\ G \subseteq Proc
        BY <3>1
      <4>2. H \ {p} \subseteq Proc /\ G \subseteq H \ {p}
        BY <3>1
      <4>3. Cardinality(G) <= Cardinality(H \ {p}) /\ Cardinality(H \ {p}) + 1 = Cardinality(H)
        BY <3>1, <3>2, <4>2, Numbers
      <4>4. {Cardinality(H), Cardinality(L), Cardinality(G), Cardinality(M), Cardinality(Proc)} \subseteq Nat
            /\ Cardinality(H) <= Cardinality(Proc) /\ Cardinality(H \ {p}) \in Nat
        BY <3>1, <4>1, <4>2, Numbers
      <4> QED  BY <4>3, <4>4
    <3>4. row'[r] = y(r)
      BY <1>4, <2>1, <2>8
    <3>5. /\ row'[r].count \in Nat /\ row'[r].count <= row[r].count + 1
          /\ row'[r].active = (row[r].active /\ ~Exhausted(r, held[p][r] + 1))
      BY <1>3, <2>8, <3>4
    <3>6. CASE ~row[r].active
      <4>1. row[r].count + Cardinality(H) + 2 <= row[r].max + 2 * Cardinality(Proc)
        BY <2>3, <3>1, <3>6 DEF Bounded
      <4>2. row'[r].count + Cardinality(G) + 2 <= row[r].max + 2 * Cardinality(Proc)
        BY <2>1, <3>3, <3>5, <4>1
      <4> QED  BY <2>2, <3>1, <3>5, <3>6, <4>2 DEF Bounded
    <3>7. CASE row[r].active /\ Exhausted(r, held[p][r] + 1)
      <4>1. row[r].count + Cardinality(L) + 2 <= row[r].max + Cardinality(Proc)
        BY <2>3, <3>1, <3>7 DEF Bounded
      <4>2. row'[r].count + Cardinality(G) + 2 <= row[r].max + 2 * Cardinality(Proc)
        BY <2>1, <3>3, <3>5, <4>1
      <4> QED  BY <2>2, <3>1, <3>5, <3>7, <4>2 DEF Bounded
    <3>8. CASE row[r].active /\ ~Exhausted(r, held[p][r] + 1)
      <4>1. row[r].count + Cardinality(L) + 2 <= row[r].max + Cardinality(Proc)
        BY <2>3, <3>1, <3>8 DEF Bounded
      <4>2. p \in L
        BY <3>1, <3>2, <3>8 DEF Low
      <4>3. Cardinality(M) + 1 <= Cardinality(L)
        <5>1. L \subseteq Proc /\ L \ {p} \subseteq Proc /\ M \subseteq L \ {p}
          BY <3>1
        <5>2. Cardinality(M) <= Cardinality(L \ {p}) /\ Cardinality(L \ {p}) + 1 = Cardinality(L) /\ Cardinality(L \ {p}) \in Nat
          BY <4>2, <5>1, Numbers
        <5> QED  BY <3>3, <5>2
      <4>4. row'[r].count + Cardinality(M) + 2 <= row[r].max + Cardinality(Proc)
        BY <2>1, <3>3, <3>5, <4>1, <4>3
      <4> QED  BY <2>2, <3>1, <3>5, <3>8, <4>4 DEF Bounded
    <3> QED  BY <2>1, <3>6, <3>7, <3>8
  <2> QED  BY <2>7, <2>8
<1> QED  BY <1>5, <1>6, <1>7, <1>8 DEF RemInv

LEMMA DeactivateStep ==
  ASSUME RemInv, NEW s \in Id, Deactivate(s)
  PROVE  RemInv'
<1>1. s \in Rows /\ row[s].active /\ row' = [row EXCEPT ![s].active = FALSE] /\ UNCHANGED <<held, pending>>
  BY DEF Deactivate, Rows
<1>2. PICK y : y = [row[s] EXCEPT !.active = FALSE]
  OBVIOUS
<1>3. y \in Reminder /\ ~y.active /\ y.count = row[s].count /\ y.max = row[s].max
  BY <1>1, <1>2, RowTyped DEF Reminder
<1>4. row' = [row EXCEPT ![s] = y]
  BY <1>1, <1>2
<1>5. row' \in [Id -> Reminder \cup {None}] /\ row'[s] = y /\ Rows' = Rows /\ \A r \in Rows \ {s} : row'[r] = row[r]
  BY <1>1, <1>3, <1>4, ReminderAssumption DEF RemInv, Rows
<1>6. HeldTyped' /\ PendingTyped'
  BY <1>1, <1>5 DEF RemInv, HeldTyped, PendingTyped
<1>7. ASSUME NEW r \in Rows \ {s}, row'[r].max > 0 PROVE Bounded(r)'
  BY <1>1, <1>5, <1>7, BoundedStays DEF Holding, Low, Exhausted
<1>8. ASSUME row'[s].max > 0 PROVE Bounded(s)'
  <2>1. PICK G, L : G = Holding(s)' /\ L = Low(s) /\ G \subseteq Proc /\ L \subseteq Proc
    BY <1>1, RowTyped DEF Holding
  <2>2. {Cardinality(G), Cardinality(L), Cardinality(Proc)} \subseteq Nat /\ Cardinality(G) <= Cardinality(Proc)
    BY <2>1, Numbers
  <2>3. row[s].count + Cardinality(L) + 2 <= row[s].max + Cardinality(Proc) /\ row[s].count \in Nat /\ row[s].max \in Nat
    BY <1>1, <1>3, <1>5, <1>8, <2>1, RowTyped DEF RemInv, Bounded
  <2>4. row[s].count + Cardinality(G) + 2 <= row[s].max + 2 * Cardinality(Proc)
    BY <2>2, <2>3
  <2> QED  BY <1>3, <1>5, <2>1, <2>4 DEF Bounded
<1> QED  BY <1>5, <1>6, <1>7, <1>8 DEF RemInv

LEMMA DeleteStep ==
  ASSUME RemInv, NEW s \in Id, Delete(s)
  PROVE  RemInv'
<1>1. row' = [row EXCEPT ![s] = None] /\ held' = [p \in Proc |-> Without(held[p], s)] /\ UNCHANGED pending
  BY DEF Delete
<1>2. row' \in [Id -> Reminder \cup {None}] /\ Rows' = Rows \ {s} /\ \A r \in Rows \ {s} : row'[r] = row[r]
  BY <1>1 DEF RemInv, Rows
<1>3. \A p \in Proc : held'[p] # None =>
        /\ held[p] # None /\ DOMAIN held'[p] = DOMAIN held[p] \ {s}
        /\ \A r \in DOMAIN held'[p] : held'[p][r] = held[p][r]
  BY <1>1 DEF Without
<1>4. HeldTyped'
  <2>1. DOMAIN held' = Proc
    BY <1>1
  <2>2. ASSUME NEW p \in Proc, held'[p] # None, NEW r \in DOMAIN held'[p]
        PROVE  r \in Rows' /\ held'[p][r] \in Nat
    <3>1. held[p] # None /\ r \in DOMAIN held[p] /\ r # s /\ held'[p][r] = held[p][r]
      BY <1>3, <2>2
    <3>2. r \in Rows /\ held[p][r] \in Nat
      BY <3>1 DEF RemInv, HeldTyped
    <3> QED  BY <1>2, <3>1, <3>2
  <2> QED  BY <2>1, <2>2 DEF HeldTyped
<1>5. PendingTyped'
  BY <1>1, <1>2 DEF RemInv, PendingTyped
<1>6. ASSUME NEW r \in Rows \ {s}, row'[r].max > 0 PROVE Bounded(r)'
  <2>1. Holding(r)' \subseteq Holding(r)
    BY <1>3 DEF Holding
  <2>2. Low(r)' \subseteq Low(r)
    BY <1>2, <1>3 DEF Holding, Low, Exhausted
  <2> QED  BY <1>2, <1>6, <2>1, <2>2, BoundedStays
<1> QED  BY <1>2, <1>4, <1>5, <1>6 DEF RemInv

LEMMA RemStep == RemInv /\ [ReminderNext]_reminders => RemInv'
<1> SUFFICES ASSUME RemInv, [ReminderNext]_reminders PROVE RemInv'
  OBVIOUS
<1>1. ASSUME NEW p \in Proc, NEW r \in Id, Ask(p, r) PROVE RemInv'
  BY <1>1, AskStep
<1>2. ASSUME NEW p \in Proc, InsertRow(p) \/ Fire(p) PROVE RemInv'
  BY <1>2, InsertStep, FireStep
<1>3. ASSUME NEW p \in Proc, NEW kind \in Types \cup {"prompt"}, NEW x \in Project, Check(p, kind, x) PROVE RemInv'
  BY <1>3, CheckStep
<1>4. ASSUME NEW r \in Id, Deactivate(r) \/ Delete(r) PROVE RemInv'
  BY <1>4, DeactivateStep, DeleteStep
<1>5. ASSUME UNCHANGED <<row, held, pending>> PROVE RemInv'
  BY <1>5 DEF RemInv, HeldTyped, PendingTyped, Rows, Bounded, Holding, Low, Exhausted
<1>6. ASSUME NEW r \in Id, TimePasses(r) PROVE RemInv'
  BY <1>5, <1>6 DEF TimePasses
<1>7. CASE UNCHANGED reminders
  BY <1>5, <1>7 DEF reminders
<1> QED  BY <1>1, <1>2, <1>3, <1>4, <1>6, <1>7 DEF ReminderNext

(* A reminder with a limit fires at most two times too often for each other  *)
(* process, however many projects, reminders and processes there are and     *)
(* whatever is switched off, deleted and created meanwhile                   *)
(* (reminder-repository.ts, fireReminders).                                  *)
THEOREM OvershootHasABound == ReminderSpec => []OvershootIsBounded
<1>1. RemInv => OvershootIsBounded
  <2> SUFFICES ASSUME RemInv, NEW r \in Rows, row[r].max > 0
               PROVE  row[r].count <= row[r].max + 2 * (Cardinality(Proc) - 1)
    BY DEF OvershootIsBounded
  <2>1. Bounded(r) /\ row[r].count \in Nat /\ row[r].max \in Nat
    BY RowTyped DEF RemInv
  <2>2. PICK H, L : H = Holding(r) /\ L = Low(r) /\ H \subseteq Proc /\ L \subseteq Proc
    BY RowTyped
  <2>3. Cardinality(H) \in Nat /\ Cardinality(L) \in Nat /\ Cardinality(Proc) \in Nat
    BY <2>2, Numbers
  <2> QED  BY <2>1, <2>2, <2>3 DEF Bounded
<1> QED  BY <1>1, RemStarts, RemStep, PTL DEF ReminderSpec
-----------------------------------------------------------------------------
(* The goals of a project.  The rows are a log in the order of time of which *)
(* only the oldest go; a hook stores what it resolved from an earlier log,   *)
(* and the invariant says what such a draft still tells of the log it meets. *)

(* Rows are stored in the order of time, after their hook has read the store. *)
RowsInOrder ==
  /\ \A i \in DOMAIN snaps : snaps[i].at <= now /\ snaps[i].seen < i
  /\ \A i, j \in DOMAIN snaps : i < j => snaps[i].at <= snaps[j].at

(* A task has been stated, for that branch and at that time. *)
WasStated(goal, branch, since) == \E f \in stated : f.goal = goal /\ f.branch \in {branch, Unset} /\ f.at = since

(* The task of a row was stated when the row was stored, or it is inherited; if *)
(* inherited once, then from a row in the window.                               *)
RowsTellTasks ==
  \A i \in DOMAIN snaps : snaps[i].goal # Unset =>
    /\ WasStated(snaps[i].goal, snaps[i].branch, snaps[i].goalAt)
    /\ snaps[i].carry = 0 =>
         /\ snaps[i].goalAt = snaps[i].at
         /\ \E f \in stated : f.of = snaps[i].of /\ f.goal = snaps[i].goal
    /\ snaps[i].carry = 1 => snaps[i].goalAt + Scan > snaps[i].at

(* The same for what a hook has resolved, on which no time passes. *)
DraftsTellTasks ==
  \A s \in Resolving : draft[s].goal # Unset =>
    /\ draft[s].carry = 0 => draft[s].goalAt = Unset
    /\ draft[s].carry # 0 => draft[s].goalAt # Unset /\ WasStated(draft[s].goal, draft[s].branch, draft[s].goalAt)
    /\ draft[s].carry = 1 => draft[s].goalAt + Scan > now

(* What a session stated is in a row of it, unless that is out of retention. *)
StatedIsKept ==
  \A f \in stated :
    \/ \E i \in DOMAIN snaps : snaps[i].of = f.of /\ snaps[i].goal = f.goal /\ snaps[i].at = f.at
    \/ f.at + Retention < now

(* Of a session's own tasks at a time: it stated this one, or none of late. *)
OwnFirst(s, goal, time) ==
  \/ \E f \in stated : f.of = s /\ f.goal = goal
  \/ \A f \in stated : f.of = s => f.at + Scan <= time

RowsOwnFirst ==
  \A i \in DOMAIN snaps : snaps[i].goal # Unset /\ ~snaps[i].final /\ snaps[i].carry < MaxCarry =>
    \/ \E j \in DOMAIN snaps : i < j /\ snaps[j].of = snaps[i].of
    \/ OwnFirst(snaps[i].of, snaps[i].goal, snaps[i].at)

DraftsOwnFirst ==
  \A s \in Session : /\ place[s] = "compacting" /\ draft[s].goal # Unset
                     /\ draft[s].carry # 0 /\ draft[s].carry < MaxCarry
                     => OwnFirst(s, draft[s].goal, now)

(* Every goal of the project has a clock. *)
RowsKeepClocks == (\A i \in WithProjectGoal : snaps[i].pAt # Unset) /\ ClockNeedsARace

(* The clock of what a hook has resolved is that of the last goal it has read. *)
DraftsKeepClocks ==
  /\ \A s \in Resolving : draft[s].seen <= stored
  /\ \A s \in Resolving, k \in WithProjectGoal :
       (\A j \in WithProjectGoal : j <= k) /\ k <= draft[s].seen /\ snaps[k].pgoal = draft[s].pgoal =>
         draft[s].pAt = snaps[k].pAt

RowsInv == RowsInOrder /\ RowsTellTasks /\ StatedIsKept /\ RowsOwnFirst /\ RowsKeepClocks
DraftsInv == DraftsTellTasks /\ DraftsOwnFirst /\ DraftsKeepClocks
BriefInv == NowIsCurrent /\ OwnTaskFirst

GoalsInv == GoalsTypeOK /\ RowsInv /\ DraftsInv /\ BriefInv

(* The latest of some rows is one of them. *)
LEMMA LatestRow ==
  ASSUME GoalsTypeOK, NEW S \in SUBSET DOMAIN snaps, S # {}
  PROVE  Latest(S) \in S /\ \A j \in S : j <= Latest(S)
<1> DEFINE T == {i .. stored : i \in S}
           R == StrictSubsetOrdering(Nat)
<1>0. stored \in Nat /\ \A i \in S : i \in Nat /\ i <= stored
  BY DEF GoalsTypeOK
<1>1. IsWellFoundedOn(R, FiniteSubsetsOf(Nat))
  BY FS_StrictSubsetOrderingWellFounded
<1>2. ASSUME NEW i \in S PROVE i .. stored \in FiniteSubsetsOf(Nat)
  <2>1. i \in Nat /\ i \in Int /\ stored \in Int
    BY <1>0
  <2>2. IsFiniteSet(i .. stored)
    BY <2>1, FS_Interval
  <2> QED BY <2>1, <2>2 DEF FiniteSubsetsOf
<1>3. T \subseteq FiniteSubsetsOf(Nat) /\ T # {}
  BY <1>2
<1> HIDE DEF R
<1>4. PICK u \in T : \A v \in T : <<v, u>> \notin R
  BY <1>1, <1>3, WFMin
<1>5. PICK i \in S : u = i .. stored
  OBVIOUS
<1>6. ASSUME NEW j \in S, i < j
      PROVE  <<j .. stored, i .. stored>> \in R
  <2>1. j .. stored \subseteq i .. stored /\ i \in i .. stored /\ i \notin j .. stored
    BY <1>0, <1>6
  <2>2. j .. stored \in SUBSET Nat /\ i .. stored \in SUBSET Nat
    BY <1>0
  <2> QED BY <2>1, <2>2 DEF R, StrictSubsetOrdering
<1>7. \A j \in S : ~(i < j)
  BY <1>4, <1>5, <1>6
<1>8. \A j \in S : j <= i
  BY <1>0, <1>7
<1> QED BY <1>8 DEF Latest

(* A task keeps its branch, if git told of one, and else gets HEAD's. *)
Inherits(branch, i) == branch = IF snaps[i].branch = Unset THEN head ELSE snaps[i].branch

(* A hook resolves the task its transcript ends with, or that of a row in the *)
(* window, one of its own if it may.                                          *)
LEMMA InitialGoalIs ==
  ASSUME GoalsTypeOK, NEW s \in Session, NEW t \in Maybe(Task), NEW own \in BOOLEAN
  PROVE  \/ InitialGoal(s, t, own) = [goal |-> t, branch |-> head, carry |-> 0, goalAt |-> Unset]
         \/ \E i \in WithGoal(Session), b \in Maybe(Branch) :
              /\ Inherits(b, i)
              /\ InitialGoal(s, t, own) = [goal |-> snaps[i].goal, branch |-> b,
                                           carry |-> snaps[i].carry + 1, goalAt |-> snaps[i].goalAt]
              /\ own => i \in WithGoal({s}) \/ WithGoal({s}) = {}
<1> DEFINE mine == IF own THEN WithGoal({s}) ELSE {}
           from == IF mine # {} THEN mine ELSE WithGoal(Session)
<1>1. WithGoal({s}) \subseteq WithGoal(Session) /\ WithGoal(Session) \subseteq DOMAIN snaps
  BY DEF WithGoal
<1>2. CASE t # Unset \/ from = {}
  BY <1>2 DEF InitialGoal
<1>3. CASE t = Unset /\ from # {}
  <2>1. from \in SUBSET DOMAIN snaps
    BY <1>1
  <2>2. Latest(from) \in from
    BY <1>3, <2>1, LatestRow
  <2> DEFINE b == IF snaps[Latest(from)].branch = Unset THEN head ELSE snaps[Latest(from)].branch
  <2>3. InitialGoal(s, t, own) =
          [goal |-> snaps[Latest(from)].goal, branch |-> b,
           carry |-> snaps[Latest(from)].carry + 1, goalAt |-> snaps[Latest(from)].goalAt]
    BY <1>3 DEF InitialGoal
  <2>4. Inherits(b, Latest(from))
    BY DEF Inherits
  <2>5. b \in Maybe(Branch)
    BY <1>1, <2>2 DEF GoalsTypeOK, Snapshot
  <2> HIDE DEF b
  <2> QED BY <1>1, <2>2, <2>3, <2>4, <2>5
<1> QED BY <1>2, <1>3

LEMMA SourcedGoalIs ==
  ASSUME GoalsTypeOK, NEW p \in Maybe(PlanName)
  PROVE  /\ SourcedGoal(p).pgoal \in Maybe(Goals) /\ SourcedGoal(p).psource \in Maybe(Source)
<1> DEFINE recent == {i \in WithProjectGoal : InScan(i)}
<1>1. CASE p = Unset /\ recent # {}
  <2>1. recent \in SUBSET DOMAIN snaps
    BY DEF WithProjectGoal
  <2>2. Latest(recent) \in DOMAIN snaps
    BY <1>1, <2>1, LatestRow
  <2> QED BY <1>1, <2>2 DEF SourcedGoal, GoalsTypeOK, Snapshot
<1>2. CASE p # Unset
  BY <1>2 DEF SourcedGoal, Maybe, Goals, Source
<1>3. CASE p = Unset /\ recent = {} /\ planName # Unset
  BY <1>3 DEF SourcedGoal, Maybe, Goals, Source, GoalsTypeOK
<1>4. CASE p = Unset /\ recent = {} /\ planName = Unset
  BY <1>4 DEF SourcedGoal, BranchGoal, Maybe, Goals, Source, GoalsTypeOK
<1> QED BY <1>1, <1>2, <1>3, <1>4

(* The clock goes on if the goal is that of the latest row with one. *)
LEMMA PClockIs ==
  ASSUME GoalsTypeOK, NEW g
  PROVE  /\ PClock(g) \in Maybe(Ticks)
         /\ \A k \in WithProjectGoal :
              (\A j \in WithProjectGoal : j <= k) /\ snaps[k].pgoal = g => PClock(g) = snaps[k].pAt
<1>1. CASE WithProjectGoal = {}
  BY <1>1 DEF PClock, Maybe
<1>2. CASE WithProjectGoal # {}
  <2>1. WithProjectGoal \in SUBSET DOMAIN snaps
    BY DEF WithProjectGoal
  <2>2. Latest(WithProjectGoal) \in WithProjectGoal /\ \A j \in WithProjectGoal : j <= Latest(WithProjectGoal)
    BY <1>2, <2>1, LatestRow
  <2>3. snaps[Latest(WithProjectGoal)].pAt \in Maybe(Ticks)
    BY <2>1, <2>2 DEF GoalsTypeOK, Snapshot
  <2>4. \A k \in WithProjectGoal : k \in Nat
    BY <2>1 DEF GoalsTypeOK
  <2>5. ASSUME NEW k \in WithProjectGoal, \A j \in WithProjectGoal : j <= k, snaps[k].pgoal = g
        PROVE  PClock(g) = snaps[k].pAt
    <3>1. k = Latest(WithProjectGoal)
      BY <2>2, <2>4, <2>5
    <3>2. g # Unset
      BY <2>5 DEF WithProjectGoal
    <3> QED BY <1>2, <2>5, <3>1, <3>2 DEF PClock
  <2> QED BY <2>3, <2>5 DEF PClock, Maybe
<1> QED BY <1>1, <1>2

LEMMA ResolvedIs ==
  ASSUME GoalsTypeOK, NEW s \in Session, NEW t \in Maybe(Task), NEW p \in Maybe(PlanName), NEW own \in BOOLEAN
  PROVE  Resolved(s, t, p, own) \in Draft
<1> DEFINE ig == InitialGoal(s, t, own)
           pg == SourcedGoal(p)
<1>1. ig.goal \in Maybe(Task) /\ ig.branch \in Maybe(Branch) /\ ig.carry \in Nat /\ ig.goalAt \in Maybe(Ticks)
  <2>1. CASE ig = [goal |-> t, branch |-> head, carry |-> 0, goalAt |-> Unset]
    BY <2>1 DEF GoalsTypeOK, Maybe
  <2>2. CASE \E i \in WithGoal(Session), b \in Maybe(Branch) :
              /\ Inherits(b, i)
              /\ ig = [goal |-> snaps[i].goal, branch |-> b,
                       carry |-> snaps[i].carry + 1, goalAt |-> snaps[i].goalAt]
              /\ own => i \in WithGoal({s}) \/ WithGoal({s}) = {}
    <3>1. PICK i \in WithGoal(Session), b \in Maybe(Branch) :
               ig = [goal |-> snaps[i].goal, branch |-> b,
                     carry |-> snaps[i].carry + 1, goalAt |-> snaps[i].goalAt]
      BY <2>2
    <3>2. snaps[i] \in Snapshot
      BY DEF WithGoal, GoalsTypeOK
    <3> QED BY <3>1, <3>2 DEF Snapshot
  <2> QED BY <2>1, <2>2, InitialGoalIs
<1>2. pg.pgoal \in Maybe(Goals) /\ pg.psource \in Maybe(Source) /\ PClock(pg.pgoal) \in Maybe(Ticks) /\ stored \in Nat
  BY SourcedGoalIs, PClockIs DEF GoalsTypeOK
<1> HIDE DEF ig, pg
<1>3. Resolved(s, t, p, own) =
        [goal |-> ig.goal, branch |-> ig.branch, carry |-> ig.carry, goalAt |-> ig.goalAt,
         pgoal |-> pg.pgoal, psource |-> pg.psource, pAt |-> PClock(pg.pgoal), seen |-> stored]
  BY DEF Resolved, ig, pg
<1> QED BY <1>1, <1>2, <1>3 DEF Draft

-----------------------------------------------------------------------------
LEMMA GoalsTypeInit == GoalsInit => GoalsTypeOK
BY GoalsAssumption DEF GoalsInit, GoalsTypeOK, Resolving, Place, Maybe, Ticks

(* What a hook stores is a row. *)
LEMMA StampedIs ==
  ASSUME GoalsTypeOK, NEW s \in Resolving
  PROVE  /\ Stamped(s) \in Snapshot
         /\ Stamped(s).of = s /\ Stamped(s).at = now /\ Stamped(s).goal = draft[s].goal
         /\ Stamped(s).branch = draft[s].branch /\ Stamped(s).carry = draft[s].carry
         /\ Stamped(s).goalAt = (IF draft[s].goal # Unset /\ draft[s].goalAt = Unset THEN now ELSE draft[s].goalAt)
         /\ Stamped(s).pgoal = draft[s].pgoal /\ Stamped(s).psource = draft[s].psource
         /\ Stamped(s).pAt = (IF draft[s].pgoal # Unset /\ draft[s].pAt = Unset THEN now ELSE draft[s].pAt)
         /\ Stamped(s).seen = draft[s].seen /\ Stamped(s).final = (place[s] = "ending")
<1>1. s \in Session /\ draft[s] \in Draft /\ now \in Ticks
  BY DEF GoalsTypeOK, Resolving
<1> QED BY <1>1 DEF Stamped, Draft, Snapshot, Maybe

LEMMA StoreKeepsTypes == ASSUME GoalsTypeOK, NEW s \in Session, Store(s) PROVE GoalsTypeOK'
<1>1. s \in Resolving /\ s \in Session
  BY DEF Store, Resolving
<1>2. Stamped(s) \in Snapshot /\ draft[s] \in Draft
  BY <1>1, StampedIs DEF GoalsTypeOK
<1>3. stated' \in SUBSET [of : Session, goal : Task, branch : Maybe(Branch), at : Ticks]
  BY <1>1, <1>2 DEF Store, GoalsTypeOK, Draft, Maybe
<1>4. /\ stored' \in Nat /\ DOMAIN snaps' \subseteq 1..stored' /\ \A i \in DOMAIN snaps' : snaps'[i] \in Snapshot
      /\ snaps' = [i \in DOMAIN snaps' |-> snaps'[i]]
  BY <1>2 DEF Store, GoalsTypeOK
<1>5. place' \in [Session -> Place] /\ Resolving' \subseteq Resolving /\ s \notin Resolving'
  BY <1>1 DEF Store, GoalsTypeOK, Resolving, Place
<1>6. draft' \in [Session -> Maybe(Draft)] /\ \A x \in Resolving' : draft'[x] \in Draft
  BY <1>1, <1>5 DEF Store, GoalsTypeOK, Maybe, Resolving
<1> QED BY <1>3, <1>4, <1>5, <1>6 DEF GoalsTypeOK, Store, world

(* A hook resolves its goals. *)
LEMMA ResolveKeepsTypes ==
  ASSUME GoalsTypeOK, NEW s \in Session, NEW d \in Draft, NEW to \in {"compacting", "ending"},
         draft' = [draft EXCEPT ![s] = d], place' = [place EXCEPT ![s] = to],
         UNCHANGED <<world, snaps, closed, stored, stated>>
  PROVE  GoalsTypeOK'
<1>1. place' \in [Session -> Place] /\ Resolving' \subseteq Resolving \cup {s}
  BY DEF GoalsTypeOK, Resolving, Place
<1>2. draft' \in [Session -> Maybe(Draft)] /\ \A x \in Resolving' : draft'[x] \in Draft
  BY <1>1 DEF GoalsTypeOK, Maybe, Resolving
<1> QED BY <1>1, <1>2 DEF GoalsTypeOK, world

LEMMA GoalsTypeStep == GoalsTypeOK /\ [GoalsNext]_goals => GoalsTypeOK'
<1> SUFFICES ASSUME GoalsTypeOK, [GoalsNext]_goals
             PROVE  GoalsTypeOK'
  OBVIOUS
<1>1. ASSUME NEW s \in Session, NEW t \in Maybe(Task), NEW p \in Maybe(PlanName), Compact(s, t, p) \/ End(s, t, p)
      PROVE  GoalsTypeOK'
  <2>1. Resolved(s, t, p, TRUE) \in Draft /\ Resolved(s, t, p, FALSE) \in Draft
    BY ResolvedIs
  <2> QED BY <1>1, <2>1, ResolveKeepsTypes DEF Compact, End
<1>2. ASSUME NEW p \in Maybe(PlanName), ChangePlan(p)
      PROVE  GoalsTypeOK'
  BY <1>2 DEF ChangePlan, GoalsTypeOK, Resolving
<1>3. ASSUME NEW b \in Maybe(Branch), Checkout(b)
      PROVE  GoalsTypeOK'
  BY <1>3 DEF Checkout, GoalsTypeOK, Resolving
<1>4. CASE Tick
  BY <1>4, GoalsAssumption DEF Tick, GoalsTypeOK, Resolving, Ticks
<1>5. ASSUME NEW s \in Session, Store(s)
      PROVE  GoalsTypeOK'
  BY <1>5, StoreKeepsTypes
<1>6. ASSUME NEW s \in Session, Close(s)
      PROVE  GoalsTypeOK'
  <2>1. closed' \in Seq(Session)
    BY <1>6 DEF Close, GoalsTypeOK
  <2>2. /\ DOMAIN snaps' \subseteq 1..stored /\ \A i \in DOMAIN snaps' : snaps'[i] \in Snapshot
        /\ snaps' = [i \in DOMAIN snaps' |-> snaps'[i]]
    BY <1>6 DEF Close, GoalsTypeOK
  <2>3. place' \in [Session -> Place] /\ Resolving' = Resolving
    BY <1>6 DEF Close, GoalsTypeOK, Resolving, Place
  <2> QED BY <1>6, <2>1, <2>2, <2>3 DEF Close, GoalsTypeOK, world
<1>7. ASSUME NEW s \in Session, Die(s)
      PROVE  GoalsTypeOK'
  <2>1. place' \in [Session -> Place] /\ Resolving' \subseteq Resolving \ {s}
    BY <1>7 DEF Die, GoalsTypeOK, Resolving, Place
  <2>2. draft' \in [Session -> Maybe(Draft)] /\ \A x \in Resolving' : draft'[x] \in Draft
    BY <1>7, <2>1 DEF Die, GoalsTypeOK, Maybe, Resolving
  <2> QED BY <1>7, <2>1, <2>2 DEF Die, GoalsTypeOK, world
<1>8. ASSUME NEW s \in Session, NEW type \in StartTypes(s), Start(s, type)
      PROVE  GoalsTypeOK'
  <2>1. place' \in [Session -> Place] /\ Resolving' = Resolving
    BY <1>8 DEF Start, GoalsTypeOK, Resolving, Place
  <2> QED BY <1>8, <2>1 DEF Start, GoalsTypeOK, world
<1>9. CASE UNCHANGED goals
  BY <1>9 DEF goals, world, GoalsTypeOK, Resolving
<1> QED BY <1>1, <1>2, <1>3, <1>4, <1>5, <1>6, <1>7, <1>8, <1>9 DEF GoalsNext, GoalSteps

-----------------------------------------------------------------------------
(* Steps that store nothing keep the rows, whether or not time passes.      *)
LEMMA QuietRows ==
  ASSUME GoalsTypeOK, RowsInv, UNCHANGED <<snaps, stated>>, now' \in Nat, now <= now'
  PROVE  RowsInv'
<1>1. now \in Nat /\ Retention \in Nat /\ \A f \in stated : f.at \in Nat
  BY GoalsAssumption DEF GoalsTypeOK, Ticks
<1>2. \A i \in DOMAIN snaps : snaps[i].at \in Nat
  BY DEF GoalsTypeOK, Snapshot, Ticks
<1>3. RowsInOrder'
  BY <1>1, <1>2 DEF RowsInv, RowsInOrder
<1>4. StatedIsKept'
  BY <1>1 DEF RowsInv, StatedIsKept
<1>5. RowsTellTasks' /\ RowsOwnFirst' /\ RowsKeepClocks'
  BY DEF RowsInv, RowsTellTasks, WasStated, RowsOwnFirst, OwnFirst, RowsKeepClocks, WithProjectGoal, ClockNeedsARace
<1> QED BY <1>3, <1>4, <1>5 DEF RowsInv

(* Steps that store nothing and on which no time passes keep what is resolved. *)
LEMMA QuietDrafts ==
  ASSUME DraftsInv, UNCHANGED <<snaps, stated, stored, now>>,
         Resolving' \subseteq Resolving,
         \A s \in Resolving' : draft'[s] = draft[s] /\ place'[s] = place[s]
  PROVE  DraftsInv'
<1>1. DraftsTellTasks'
  BY DEF DraftsInv, DraftsTellTasks, WasStated
<1>2. DraftsOwnFirst'
  <2>1. \A s \in Session : place'[s] = "compacting" => s \in Resolving'
    BY DEF Resolving
  <2> QED BY <2>1 DEF DraftsInv, DraftsOwnFirst, OwnFirst
<1>3. DraftsKeepClocks'
  BY DEF DraftsInv, DraftsKeepClocks, WithProjectGoal
<1> QED BY <1>1, <1>2, <1>3 DEF DraftsInv

(* What a session stated of late is in a row that its next compaction finds. *)
LEMMA OwnTasksAreFound ==
  ASSUME GoalsTypeOK, StatedIsKept, NEW s \in Session, WithGoal({s}) = {}
  PROVE  \A f \in stated : f.of = s => f.at + Scan <= now
<1> SUFFICES ASSUME NEW f \in stated, f.of = s
             PROVE  f.at + Scan <= now
  OBVIOUS
<1>1. f.at \in Nat /\ f.goal # Unset /\ now \in Nat /\ Scan \in Nat /\ Retention \in Nat /\ Scan <= Retention
  BY GoalsAssumption DEF GoalsTypeOK, Ticks
<1>2. CASE f.at + Retention < now
  BY <1>1, <1>2
<1>3. CASE \E i \in DOMAIN snaps : snaps[i].of = f.of /\ snaps[i].goal = f.goal /\ snaps[i].at = f.at
  BY <1>1, <1>3 DEF WithGoal, InScan
<1> QED BY <1>2, <1>3 DEF StatedIsKept

(* What a hook resolves is so, and at a compaction it is the session's own first. *)
LEMMA ResolvedTells ==
  ASSUME GoalsTypeOK, RowsInv,
         NEW s \in Session, NEW t \in Maybe(Task), NEW p \in Maybe(PlanName), NEW own \in BOOLEAN,
         NEW d, d = Resolved(s, t, p, own)
  PROVE  /\ d.goal # Unset =>
              /\ d.carry = 0 => d.goalAt = Unset
              /\ d.carry # 0 => d.goalAt # Unset /\ WasStated(d.goal, d.branch, d.goalAt)
              /\ d.carry = 1 => d.goalAt + Scan > now
              /\ own /\ d.carry # 0 /\ d.carry < MaxCarry => OwnFirst(s, d.goal, now)
         /\ d.seen = stored
         /\ \A k \in WithProjectGoal :
              (\A j \in WithProjectGoal : j <= k) /\ snaps[k].pgoal = d.pgoal => d.pAt = snaps[k].pAt
<1> DEFINE ig == InitialGoal(s, t, own)
<1>1. /\ d.goal = ig.goal /\ d.branch = ig.branch /\ d.carry = ig.carry /\ d.goalAt = ig.goalAt
      /\ d.seen = stored /\ d.pAt = PClock(d.pgoal)
  BY DEF Resolved
<1>2. CASE ig = [goal |-> t, branch |-> head, carry |-> 0, goalAt |-> Unset]
  BY <1>1, <1>2, PClockIs
<1>3. CASE \E i \in WithGoal(Session), b \in Maybe(Branch) :
              /\ Inherits(b, i)
              /\ ig = [goal |-> snaps[i].goal, branch |-> b,
                       carry |-> snaps[i].carry + 1, goalAt |-> snaps[i].goalAt]
              /\ own => i \in WithGoal({s}) \/ WithGoal({s}) = {}
  <2>1. PICK i \in WithGoal(Session), b \in Maybe(Branch) :
              /\ Inherits(b, i)
              /\ ig = [goal |-> snaps[i].goal, branch |-> b,
                       carry |-> snaps[i].carry + 1, goalAt |-> snaps[i].goalAt]
              /\ own => i \in WithGoal({s}) \/ WithGoal({s}) = {}
    BY <1>3
  <2>2. /\ d.goal = snaps[i].goal /\ Inherits(d.branch, i)
        /\ d.carry = snaps[i].carry + 1 /\ d.goalAt = snaps[i].goalAt
    BY <1>1, <2>1
  <2>3. i \in DOMAIN snaps /\ snaps[i] \in Snapshot /\ snaps[i].goal # Unset /\ snaps[i].at + Scan > now
    BY DEF WithGoal, InScan, GoalsTypeOK
  <2>4. /\ WasStated(snaps[i].goal, snaps[i].branch, snaps[i].goalAt)
        /\ snaps[i].carry = 0 =>
             snaps[i].goalAt = snaps[i].at /\ \E f \in stated : f.of = snaps[i].of /\ f.goal = snaps[i].goal
    BY <2>3 DEF RowsInv, RowsTellTasks
  <2>5. snaps[i].carry \in Nat
    BY <2>3 DEF Snapshot
  <2>6. d.goalAt # Unset /\ WasStated(d.goal, d.branch, d.goalAt)
    BY <2>2, <2>4, GoalsAssumption DEF WasStated, Inherits, GoalsTypeOK, Ticks
  <2>7. d.carry # 0 /\ (d.carry = 1 => snaps[i].carry = 0) /\ (d.carry < MaxCarry => snaps[i].carry = 0)
    BY <2>2, <2>5 DEF MaxCarry
  <2>8. ASSUME own, d.carry < MaxCarry
        PROVE  OwnFirst(s, d.goal, now)
    <3>1. CASE WithGoal({s}) = {}
      BY <3>1, OwnTasksAreFound DEF OwnFirst, RowsInv
    <3>2. CASE i \in WithGoal({s})
      <4>1. snaps[i].of = s
        BY <3>2 DEF WithGoal
      <4> QED BY <2>2, <2>4, <2>7, <2>8, <4>1 DEF OwnFirst
    <3> QED BY <2>1, <2>8, <3>1, <3>2
  <2>9. d.carry = 1 => d.goalAt + Scan > now
    BY <2>2, <2>3, <2>4, <2>7
  <2> HIDE DEF ig
  <2> QED BY <1>1, <2>6, <2>7, <2>8, <2>9, PClockIs
<1> QED BY <1>2, <1>3, InitialGoalIs

LEMMA ResolveKeepsDrafts ==
  ASSUME GoalsTypeOK, RowsInv, DraftsInv,
         NEW s \in Session, NEW t \in Maybe(Task), NEW p \in Maybe(PlanName), NEW own \in BOOLEAN,
         draft' = [draft EXCEPT ![s] = Resolved(s, t, p, own)],
         place' = [place EXCEPT ![s] = IF own THEN "compacting" ELSE "ending"],
         UNCHANGED <<now, snaps, stored, stated>>
  PROVE  DraftsInv'
<1> DEFINE d == Resolved(s, t, p, own)
<1>1. /\ d.goal # Unset =>
           /\ d.carry = 0 => d.goalAt = Unset
           /\ d.carry # 0 => d.goalAt # Unset /\ WasStated(d.goal, d.branch, d.goalAt)
           /\ d.carry = 1 => d.goalAt + Scan > now
           /\ own /\ d.carry # 0 /\ d.carry < MaxCarry => OwnFirst(s, d.goal, now)
      /\ d.seen = stored
      /\ \A k \in WithProjectGoal :
           (\A j \in WithProjectGoal : j <= k) /\ snaps[k].pgoal = d.pgoal => d.pAt = snaps[k].pAt
  BY ResolvedTells
<1> HIDE DEF d
<1>2. /\ draft'[s] = d /\ \A x \in Session \ {s} : draft'[x] = draft[x] /\ place'[x] = place[x]
      /\ place'[s] = IF own THEN "compacting" ELSE "ending"
  BY DEF GoalsTypeOK, d
<1>3. \A x \in Resolving' : x \in Session /\ (x # s => x \in Resolving)
  BY <1>2 DEF Resolving
<1>4. DraftsTellTasks'
  <2> SUFFICES ASSUME NEW x \in Resolving'
               PROVE  draft'[x].goal # Unset =>
                        /\ draft'[x].carry = 0 => draft'[x].goalAt = Unset
                        /\ draft'[x].carry # 0 =>
                             draft'[x].goalAt # Unset /\ WasStated(draft'[x].goal, draft'[x].branch, draft'[x].goalAt)
                        /\ draft'[x].carry = 1 => draft'[x].goalAt + Scan > now
    BY DEF DraftsTellTasks, WasStated
  <2>1. CASE x = s
    BY <1>1, <1>2, <2>1
  <2>2. CASE x # s
    BY <1>2, <1>3, <2>2 DEF DraftsInv, DraftsTellTasks
  <2> QED BY <2>1, <2>2
<1>5. DraftsOwnFirst'
  <2> SUFFICES ASSUME NEW x \in Session, place'[x] = "compacting", draft'[x].goal # Unset,
                      draft'[x].carry # 0, draft'[x].carry < MaxCarry
               PROVE  OwnFirst(x, draft'[x].goal, now)
    BY DEF DraftsOwnFirst, OwnFirst
  <2>1. CASE x = s
    BY <1>1, <1>2, <2>1
  <2>2. CASE x # s
    BY <1>2, <2>2 DEF DraftsInv, DraftsOwnFirst
  <2> QED BY <2>1, <2>2
<1>6. DraftsKeepClocks'
  <2>1. WithProjectGoal' = WithProjectGoal /\ stored \in Nat
    BY DEF WithProjectGoal, GoalsTypeOK
  <2> SUFFICES ASSUME NEW x \in Resolving'
               PROVE  /\ draft'[x].seen <= stored
                      /\ \A k \in WithProjectGoal :
                           /\ \A j \in WithProjectGoal : j <= k
                           /\ k <= draft'[x].seen
                           /\ snaps[k].pgoal = draft'[x].pgoal
                           => draft'[x].pAt = snaps[k].pAt
    BY <2>1 DEF DraftsKeepClocks
  <2>2. CASE x = s
    BY <1>1, <1>2, <2>1, <2>2
  <2>3. CASE x # s
    BY <1>2, <1>3, <2>3 DEF DraftsInv, DraftsKeepClocks
  <2> QED BY <2>2, <2>3
<1> QED BY <1>4, <1>5, <1>6 DEF DraftsInv

-----------------------------------------------------------------------------
(* The INSERT: a new row after all the others, and what it tells of tasks. *)
LEMMA StoredIs ==
  ASSUME GoalsTypeOK, NEW s \in Session, Store(s), UNCHANGED stored
  PROVE  UNCHANGED <<snaps, stated>>
BY DEF Store, GoalsTypeOK

LEMMA StoreKeepsRows ==
  ASSUME GoalsTypeOK, RowsInv, DraftsInv, NEW s \in Session, Store(s)
  PROVE  RowsInv'
<1> DEFINE n == stored + 1
           d == draft[s]
           new == Stamped(s)
           told == [of |-> s, goal |-> d.goal, branch |-> d.branch, at |-> now]
<1>1. s \in Resolving /\ now \in Nat /\ stored \in Nat /\ n # stored
  BY DEF Store, Resolving, GoalsTypeOK, Ticks
<1>2. CASE UNCHANGED stored
  BY <1>1, <1>2, StoredIs, QuietRows DEF Store, world
<1>3. CASE ~ UNCHANGED stored
  <2>1. /\ stored' = n /\ DOMAIN snaps' = DOMAIN snaps \cup {n} /\ snaps'[n] = new
        /\ \A i \in DOMAIN snaps : snaps'[i] = snaps[i]
        /\ \A i \in DOMAIN snaps : i \in Nat /\ i < n
    BY <1>1, <1>3 DEF Store, GoalsTypeOK
  <2>2. /\ stated \subseteq stated' /\ \A f \in stated' \ stated : f = told
        /\ d.goal # Unset /\ d.carry = 0 => told \in stated'
        /\ ~(d.goal # Unset /\ d.carry = 0) => stated' = stated
    BY DEF Store
  <2>3. now' = now
    BY DEF Store, world
  <2>4. /\ new.of = s /\ new.at = now /\ new.goal = d.goal
        /\ new.branch = d.branch /\ new.carry = d.carry
        /\ new.goalAt = (IF d.goal # Unset /\ d.goalAt = Unset THEN now ELSE d.goalAt)
        /\ new.pgoal = d.pgoal
        /\ new.pAt = (IF d.pgoal # Unset /\ d.pAt = Unset THEN now ELSE d.pAt)
        /\ new.seen = d.seen /\ new.final = (place[s] = "ending")
    BY <1>1, StampedIs
  <2>5. d \in Draft /\ d.carry \in Nat /\ d.seen \in Nat
    BY <1>1 DEF GoalsTypeOK, Draft
  <2> HIDE DEF n, d, new
  <2>6. RowsInOrder'
    <3>1. d.seen <= stored
      BY <1>1 DEF DraftsInv, DraftsKeepClocks, d
    <3>2. \A i \in DOMAIN snaps : snaps[i].at \in Nat /\ snaps[i].at <= now /\ snaps[i].seen < i
      BY DEF RowsInv, RowsInOrder, GoalsTypeOK, Snapshot, Ticks
    <3>3. \A i \in DOMAIN snaps' : snaps'[i].at <= now /\ snaps'[i].seen < i
      BY <1>1, <2>1, <2>4, <2>5, <3>1, <3>2 DEF n
    <3>4. ASSUME NEW i \in DOMAIN snaps', NEW j \in DOMAIN snaps', i < j
          PROVE  snaps'[i].at <= snaps'[j].at
      <4>1. i \in DOMAIN snaps
        BY <1>1, <2>1, <3>4 DEF n
      <4>2. CASE j = n
        BY <2>1, <2>4, <3>2, <4>1, <4>2
      <4>3. CASE j \in DOMAIN snaps
        BY <2>1, <3>4, <4>1, <4>3 DEF RowsInv, RowsInOrder
      <4> QED BY <2>1, <4>2, <4>3
    <3> QED BY <2>3, <3>3, <3>4 DEF RowsInOrder
  <2>7. RowsTellTasks'
    <3> SUFFICES ASSUME NEW i \in DOMAIN snaps', snaps'[i].goal # Unset
                 PROVE  /\ \E f \in stated' : /\ f.goal = snaps'[i].goal
                                              /\ f.branch \in {snaps'[i].branch, Unset}
                                              /\ f.at = snaps'[i].goalAt
                        /\ snaps'[i].carry = 0 =>
                             /\ snaps'[i].goalAt = snaps'[i].at
                             /\ \E f \in stated' : f.of = snaps'[i].of /\ f.goal = snaps'[i].goal
                        /\ snaps'[i].carry = 1 => snaps'[i].goalAt + Scan > snaps'[i].at
      BY DEF RowsTellTasks, WasStated
    <3>1. CASE i \in DOMAIN snaps
      BY <2>1, <2>2, <3>1 DEF RowsInv, RowsTellTasks, WasStated
    <3>2. CASE i = n
      <4>1. d.goal # Unset
        BY <2>1, <2>4, <3>2
      <4>2. /\ d.carry = 0 => d.goalAt = Unset
            /\ d.carry # 0 => d.goalAt # Unset /\ WasStated(d.goal, d.branch, d.goalAt)
            /\ d.carry = 1 => d.goalAt + Scan > now
        BY <1>1, <4>1 DEF DraftsInv, DraftsTellTasks, d
      <4>3. CASE d.carry = 0
        BY <2>1, <2>2, <2>4, <3>2, <4>1, <4>2, <4>3
      <4>4. CASE d.carry # 0
        BY <2>1, <2>2, <2>4, <3>2, <4>1, <4>2, <4>4 DEF WasStated
      <4> QED BY <4>3, <4>4
    <3> QED BY <2>1, <3>1, <3>2
  <2>8. StatedIsKept'
    <3> SUFFICES ASSUME NEW f \in stated'
                 PROVE  \/ \E i \in DOMAIN snaps' :
                             snaps'[i].of = f.of /\ snaps'[i].goal = f.goal /\ snaps'[i].at = f.at
                        \/ f.at + Retention < now
      BY <2>3 DEF StatedIsKept
    <3>1. CASE f \in stated
      <4>1. CASE \E i \in DOMAIN snaps : snaps[i].of = f.of /\ snaps[i].goal = f.goal /\ snaps[i].at = f.at
        BY <2>1, <4>1
      <4> QED BY <3>1, <4>1 DEF RowsInv, StatedIsKept
    <3>2. CASE f = told
      BY <2>1, <2>4, <3>2
    <3> QED BY <2>2, <3>1, <3>2
  <2>9. RowsOwnFirst'
    <3> SUFFICES ASSUME NEW i \in DOMAIN snaps',
                        snaps'[i].goal # Unset, ~snaps'[i].final, snaps'[i].carry < MaxCarry
                 PROVE  \/ \E j \in DOMAIN snaps' : i < j /\ snaps'[j].of = snaps'[i].of
                        \/ \E f \in stated' : f.of = snaps'[i].of /\ f.goal = snaps'[i].goal
                        \/ \A f \in stated' : f.of = snaps'[i].of => f.at + Scan <= snaps'[i].at
      BY DEF RowsOwnFirst, OwnFirst
    <3>1. CASE i \in DOMAIN snaps /\ snaps[i].of = s
      <4>1. n \in DOMAIN snaps' /\ i < n /\ snaps'[n].of = snaps'[i].of
        BY <2>1, <2>4, <3>1
      <4> QED BY <4>1
    <3>2. CASE i \in DOMAIN snaps /\ snaps[i].of # s
      <4>1. snaps'[i] = snaps[i] /\ \A f \in stated' : f.of = snaps[i].of => f \in stated
        BY <2>1, <2>2, <3>2
      <4>2. \/ \E j \in DOMAIN snaps : i < j /\ snaps[j].of = snaps[i].of
            \/ OwnFirst(snaps[i].of, snaps[i].goal, snaps[i].at)
        BY <3>2, <4>1 DEF RowsInv, RowsOwnFirst
      <4>3. CASE \E j \in DOMAIN snaps : i < j /\ snaps[j].of = snaps[i].of
        <5>1. PICK j \in DOMAIN snaps : i < j /\ snaps[j].of = snaps[i].of
          BY <4>3
        <5>2. j \in DOMAIN snaps' /\ snaps'[j] = snaps[j]
          BY <2>1
        <5> QED BY <4>1, <5>1, <5>2
      <4>4. CASE OwnFirst(snaps[i].of, snaps[i].goal, snaps[i].at)
        BY <2>2, <4>1, <4>4 DEF OwnFirst
      <4> QED BY <4>2, <4>3, <4>4
    <3>3. CASE i = n
      <4>1. snaps'[i] = new /\ place[s] = "compacting" /\ d.goal # Unset /\ d.carry < MaxCarry
        BY <1>1, <2>1, <2>4, <3>3 DEF Resolving
      <4>2. CASE d.carry = 0
        BY <2>2, <2>4, <4>1, <4>2
      <4>3. CASE d.carry # 0
        <5>1. OwnFirst(s, d.goal, now) /\ stated' = stated
          BY <2>2, <4>1, <4>3 DEF DraftsInv, DraftsOwnFirst, d
        <5> QED BY <2>4, <4>1, <5>1 DEF OwnFirst
      <4> QED BY <4>2, <4>3
    <3> QED BY <2>1, <3>1, <3>2, <3>3
  <2>10. RowsKeepClocks'
    <3>1. /\ WithProjectGoal \subseteq DOMAIN snaps /\ WithProjectGoal \subseteq WithProjectGoal'
          /\ WithProjectGoal' \subseteq WithProjectGoal \cup {n}
          /\ n \in WithProjectGoal' => d.pgoal # Unset
      BY <2>1, <2>4 DEF WithProjectGoal
    <3>2. \A i \in WithProjectGoal : snaps'[i] = snaps[i] /\ i \in Nat /\ i < n /\ snaps[i].pAt # Unset
      BY <2>1, <3>1 DEF RowsInv, RowsKeepClocks
    <3>3. \A i \in WithProjectGoal' : snaps'[i].pAt # Unset
      BY <1>1, <2>1, <2>4, <3>1, <3>2, GoalsAssumption
    <3>4. ASSUME NEW j \in WithProjectGoal', NEW before, before = {i \in WithProjectGoal' : i < j},
                 before # {}, snaps'[Latest(before)].pgoal = snaps'[j].pgoal
          PROVE  snaps'[j].pAt = snaps'[Latest(before)].pAt \/ snaps'[j].seen < Latest(before)
      <4>1. before = {i \in WithProjectGoal : i < j}
        BY <1>1, <3>1, <3>2, <3>4 DEF n
      <4>2. before \in SUBSET DOMAIN snaps
        BY <3>1, <4>1
      <4>3. Latest(before) \in before
        BY <3>4, <4>2, LatestRow
      <4>4. snaps'[Latest(before)] = snaps[Latest(before)]
        BY <3>2, <4>1, <4>3
      <4>5. CASE j \in WithProjectGoal
        <5>1. snaps'[j] = snaps[j]
          BY <3>2, <4>5
        <5>2. before # {} /\ snaps[Latest(before)].pgoal = snaps[j].pgoal =>
                snaps[j].pAt = snaps[Latest(before)].pAt \/ snaps[j].seen < Latest(before)
          BY <4>1, <4>5 DEF RowsInv, RowsKeepClocks, ClockNeedsARace
        <5> QED BY <3>4, <4>4, <5>1, <5>2
      <4>6. CASE j = n
        <5>1. before = WithProjectGoal
          BY <3>2, <4>1, <4>6
        <5> DEFINE k == Latest(WithProjectGoal)
        <5>2. k \in WithProjectGoal /\ k \in Nat /\ \A i \in WithProjectGoal : i <= k
          BY <3>1, <3>2, <3>4, <5>1, LatestRow
        <5>3. snaps'[j] = new /\ snaps[k].pgoal = d.pgoal /\ d.pgoal # Unset
          BY <2>1, <2>4, <3>1, <3>4, <4>4, <4>6, <5>1
        <5>4. CASE k <= d.seen
          <6>1. d.pAt = snaps[k].pAt
            BY <1>1, <5>2, <5>3, <5>4 DEF DraftsInv, DraftsKeepClocks, d
          <6> QED BY <2>4, <3>2, <4>4, <5>1, <5>2, <5>3, <6>1
        <5>5. CASE ~(k <= d.seen)
          BY <2>4, <2>5, <5>1, <5>2, <5>3, <5>5
        <5> QED BY <5>4, <5>5
      <4> QED BY <3>1, <4>5, <4>6
    <3> QED BY <3>3, <3>4 DEF RowsKeepClocks, ClockNeedsARace
  <2> QED BY <2>6, <2>7, <2>8, <2>9, <2>10 DEF RowsInv
<1> QED BY <1>2, <1>3

(* What other hooks have resolved is as it was: the row is new, and not theirs. *)
LEMMA StoreKeepsDrafts ==
  ASSUME GoalsTypeOK, DraftsInv, NEW s \in Session, Store(s)
  PROVE  DraftsInv'
<1>1. \A x \in Resolving' : x \in Resolving /\ x # s /\ draft'[x] = draft[x] /\ place'[x] = place[x]
  BY DEF Store, GoalsTypeOK, Resolving
<1>2. now' = now /\ stored \in Nat /\ stored + 1 # stored
  BY DEF Store, world, GoalsTypeOK
<1>3. CASE UNCHANGED stored
  BY <1>1, <1>2, <1>3, StoredIs, QuietDrafts
<1>4. CASE ~ UNCHANGED stored
  <2>1. /\ stored' = stored + 1 /\ DOMAIN snaps' = DOMAIN snaps \cup {stored + 1}
        /\ \A i \in DOMAIN snaps : snaps'[i] = snaps[i]
        /\ \A i \in DOMAIN snaps : i \in Nat /\ i <= stored
    BY <1>2, <1>4 DEF Store, GoalsTypeOK
  <2>2. stated \subseteq stated' /\ \A f \in stated' \ stated : f.of = s
    BY DEF Store
  <2>3. DraftsTellTasks'
    BY <1>1, <1>2, <2>2 DEF DraftsInv, DraftsTellTasks, WasStated
  <2>4. DraftsOwnFirst'
    <3> SUFFICES ASSUME NEW x \in Session, place'[x] = "compacting", draft'[x].goal # Unset,
                        draft'[x].carry # 0, draft'[x].carry < MaxCarry
                 PROVE  \/ \E f \in stated' : f.of = x /\ f.goal = draft'[x].goal
                        \/ \A f \in stated' : f.of = x => f.at + Scan <= now
      BY <1>2 DEF DraftsOwnFirst, OwnFirst
    <3>1. x \in Resolving'
      BY DEF Resolving
    <3>2. OwnFirst(x, draft[x].goal, now)
      BY <1>1, <3>1 DEF DraftsInv, DraftsOwnFirst
    <3> QED BY <1>1, <2>2, <3>1, <3>2 DEF OwnFirst
  <2>5. DraftsKeepClocks'
    <3>1. \A x \in Resolving' : draft'[x] = draft[x] /\ draft[x] \in Draft /\ draft[x].seen <= stored
      BY <1>1 DEF DraftsInv, DraftsKeepClocks, GoalsTypeOK
    <3>2. \A x \in Resolving' : draft'[x].seen \in Nat /\ draft'[x].seen <= stored'
      BY <1>2, <2>1, <3>1 DEF Draft
    <3>3. WithProjectGoal \subseteq WithProjectGoal' /\ WithProjectGoal' \subseteq DOMAIN snaps \cup {stored + 1}
      BY <2>1 DEF WithProjectGoal
    <3>4. ASSUME NEW x \in Resolving', NEW k \in WithProjectGoal', \A j \in WithProjectGoal' : j <= k,
                 k <= draft'[x].seen, snaps'[k].pgoal = draft'[x].pgoal
          PROVE  draft'[x].pAt = snaps'[k].pAt
      <4>1. k # stored + 1
        BY <1>2, <3>1, <3>2, <3>4
      <4>2. k \in WithProjectGoal /\ snaps'[k] = snaps[k]
        BY <2>1, <3>3, <4>1 DEF WithProjectGoal
      <4> QED BY <1>1, <3>1, <3>3, <3>4, <4>2 DEF DraftsInv, DraftsKeepClocks
    <3> QED BY <3>2, <3>4 DEF DraftsKeepClocks
  <2> QED BY <2>3, <2>4, <2>5 DEF DraftsInv
<1> QED BY <1>3, <1>4

-----------------------------------------------------------------------------
(* The end of a session removes the oldest rows: what is left is a suffix.   *)
LEMMA CloseKeepsSuffix ==
  ASSUME GoalsTypeOK, RowsInOrder, NEW s \in Session, Close(s)
  PROVE  /\ UNCHANGED <<now, stated, stored>>
         /\ DOMAIN snaps' \subseteq DOMAIN snaps /\ \A i \in DOMAIN snaps' : snaps'[i] = snaps[i]
         /\ \A i \in DOMAIN snaps : i \in Nat /\ (i \in DOMAIN snaps' \/ snaps[i].at + Retention < now)
         /\ \A i \in DOMAIN snaps', j \in DOMAIN snaps : i < j => j \in DOMAIN snaps'
         /\ WithProjectGoal' = WithProjectGoal \cap DOMAIN snaps'
<1>1. UNCHANGED <<now, stated, stored>> /\ now \in Nat /\ Retention \in Nat
  BY GoalsAssumption DEF Close, world, GoalsTypeOK, Ticks
<1>2. DOMAIN snaps' = {j \in DOMAIN snaps : snaps[j].at + Retention >= now}
      /\ \A i \in DOMAIN snaps' : snaps'[i] = snaps[i]
  BY DEF Close
<1>3. \A i \in DOMAIN snaps : i \in Nat /\ snaps[i].at \in Nat
  BY DEF GoalsTypeOK, Snapshot, Ticks
<1>4. \A i \in DOMAIN snaps : i \in DOMAIN snaps' \/ snaps[i].at + Retention < now
  BY <1>1, <1>2, <1>3
<1>5. \A i \in DOMAIN snaps', j \in DOMAIN snaps : i < j => j \in DOMAIN snaps'
  BY <1>1, <1>2, <1>3 DEF RowsInOrder
<1>6. WithProjectGoal' = WithProjectGoal \cap DOMAIN snaps'
  BY <1>2 DEF WithProjectGoal
<1> QED BY <1>1, <1>2, <1>3, <1>4, <1>5, <1>6

LEMMA CloseKeepsRows ==
  ASSUME GoalsTypeOK, RowsInv, NEW s \in Session, Close(s)
  PROVE  RowsInv'
<1>1. /\ UNCHANGED <<now, stated, stored>>
      /\ DOMAIN snaps' \subseteq DOMAIN snaps /\ \A i \in DOMAIN snaps' : snaps'[i] = snaps[i]
      /\ \A i \in DOMAIN snaps : i \in Nat /\ (i \in DOMAIN snaps' \/ snaps[i].at + Retention < now)
      /\ \A i \in DOMAIN snaps', j \in DOMAIN snaps : i < j => j \in DOMAIN snaps'
      /\ WithProjectGoal' = WithProjectGoal \cap DOMAIN snaps'
  BY CloseKeepsSuffix DEF RowsInv
<1>2. RowsInOrder'
  BY <1>1 DEF RowsInv, RowsInOrder
<1>3. RowsTellTasks'
  BY <1>1 DEF RowsInv, RowsTellTasks, WasStated
<1>4. StatedIsKept'
  BY <1>1 DEF RowsInv, StatedIsKept
<1>5. RowsOwnFirst'
  BY <1>1 DEF RowsInv, RowsOwnFirst, OwnFirst
<1>6. RowsKeepClocks'
  <2>1. \A i \in WithProjectGoal' : snaps'[i].pAt # Unset
    BY <1>1 DEF RowsInv, RowsKeepClocks
  <2>2. ASSUME NEW j \in WithProjectGoal', NEW left, left = {i \in WithProjectGoal' : i < j},
               left # {}, snaps'[Latest(left)].pgoal = snaps'[j].pgoal
        PROVE  snaps'[j].pAt = snaps'[Latest(left)].pAt \/ snaps'[j].seen < Latest(left)
    <3> DEFINE before == {i \in WithProjectGoal : i < j}
    <3>1. /\ left \in SUBSET DOMAIN snaps /\ before \in SUBSET DOMAIN snaps
          /\ left \subseteq before /\ j \in WithProjectGoal
      BY <1>1, <2>2 DEF WithProjectGoal
    <3>2. Latest(left) \in left /\ \A i \in left : i <= Latest(left)
      BY <2>2, <3>1, LatestRow
    <3>3. before # {}
      BY <2>2, <3>1
    <3>4. Latest(before) \in before /\ \A i \in before : i <= Latest(before)
      BY <3>1, <3>3, LatestRow
    <3>5. Latest(before) \in Nat /\ Latest(left) \in Nat
      BY <1>1, <3>1, <3>2, <3>4
    <3>6. Latest(left) <= Latest(before)
      BY <3>1, <3>2, <3>4
    <3>7. Latest(before) \in left
      <4>1. Latest(before) \in DOMAIN snaps'
        BY <1>1, <2>2, <3>1, <3>2, <3>4, <3>5, <3>6
      <4> QED BY <1>1, <2>2, <3>4, <4>1
    <3>8. Latest(left) = Latest(before)
      BY <3>2, <3>5, <3>6, <3>7
    <3>9. snaps'[j] = snaps[j] /\ snaps'[Latest(left)] = snaps[Latest(before)]
      BY <1>1, <2>2, <3>2, <3>8
    <3>10. before # {} /\ snaps[Latest(before)].pgoal = snaps[j].pgoal =>
             snaps[j].pAt = snaps[Latest(before)].pAt \/ snaps[j].seen < Latest(before)
      BY <3>1 DEF RowsInv, RowsKeepClocks, ClockNeedsARace
    <3> QED BY <2>2, <3>3, <3>8, <3>9, <3>10
  <2> QED BY <2>1, <2>2 DEF RowsKeepClocks, ClockNeedsARace
<1> QED BY <1>2, <1>3, <1>4, <1>5, <1>6 DEF RowsInv

LEMMA CloseKeepsDrafts ==
  ASSUME GoalsTypeOK, RowsInv, DraftsInv, NEW s \in Session, Close(s)
  PROVE  DraftsInv'
<1>1. /\ UNCHANGED <<now, stated, stored>>
      /\ DOMAIN snaps' \subseteq DOMAIN snaps /\ \A i \in DOMAIN snaps' : snaps'[i] = snaps[i]
      /\ \A i \in DOMAIN snaps : i \in Nat
      /\ \A i \in DOMAIN snaps', j \in DOMAIN snaps : i < j => j \in DOMAIN snaps'
      /\ WithProjectGoal' = WithProjectGoal \cap DOMAIN snaps'
  BY CloseKeepsSuffix DEF RowsInv
<1>2. Resolving' = Resolving /\ draft' = draft /\ \A x \in Resolving' : place'[x] = place[x]
  BY DEF Close, GoalsTypeOK, Resolving
<1>3. DraftsTellTasks'
  BY <1>1, <1>2 DEF DraftsInv, DraftsTellTasks, WasStated
<1>4. DraftsOwnFirst'
  <2>1. \A x \in Session : place'[x] = "compacting" => x \in Resolving'
    BY DEF Resolving
  <2> QED BY <1>1, <1>2, <2>1 DEF DraftsInv, DraftsOwnFirst, OwnFirst
<1>5. DraftsKeepClocks'
  <2>1. ASSUME NEW k \in WithProjectGoal', \A j \in WithProjectGoal' : j <= k
        PROVE  k \in WithProjectGoal /\ snaps'[k] = snaps[k] /\ \A j \in WithProjectGoal : j <= k
    <3>1. WithProjectGoal \subseteq DOMAIN snaps
      BY DEF WithProjectGoal
    <3> QED BY <1>1, <2>1, <3>1
  <2> QED BY <1>1, <1>2, <2>1 DEF DraftsInv, DraftsKeepClocks
<1> QED BY <1>3, <1>4, <1>5 DEF DraftsInv

-----------------------------------------------------------------------------
(* The briefing.                                                            *)

(* The snapshot a session is given is its own last one, if it has any. *)
LEMMA LoadedIs ==
  ASSUME GoalsTypeOK, NEW s \in Session, Loaded(s) # Unset, Loaded(s).of = s
  PROVE  \E i \in DOMAIN snaps : /\ Loaded(s) = snaps[i] /\ snaps[i].of = s
                                 /\ \A j \in DOMAIN snaps : snaps[j].of = s => j <= i
<1> DEFINE own == {i \in DOMAIN snaps : snaps[i].of = s}
           recent == {i \in DOMAIN snaps : snaps[i].at = now}
<1>1. CASE own # {}
  BY <1>1, LatestRow DEF Loaded
<1>2. CASE own = {} /\ recent # {}
  <2>1. Latest(recent) \in DOMAIN snaps /\ Loaded(s) = snaps[Latest(recent)]
    BY <1>2, LatestRow DEF Loaded
  <2> QED BY <1>2, <2>1
<1>3. CASE own = {} /\ recent = {}
  BY <1>3 DEF Loaded
<1> QED BY <1>1, <1>2, <1>3

LEMMA StartKeepsBrief ==
  ASSUME GoalsTypeOK, RowsInv, NEW s \in Session, NEW type \in StartTypes(s), Start(s, type)
  PROVE  BriefInv'
<1> DEFINE tier == NowTier(s, type)
           snap == Loaded(s)
<1>1. /\ briefed'.to = s /\ briefed'.now = tier
      /\ UNCHANGED <<head, stated>>
  BY DEF Start, world
<1>2. CASE tier = Unset
  BY <1>1, <1>2 DEF BriefInv, NowIsCurrent, OwnTaskFirst
<1>3. CASE tier # Unset
  <2>1. /\ snap # Unset /\ snap.of = s /\ snap.goal # Unset /\ OnBranch(snap.branch) /\ snap.carry < MaxCarry
        /\ tier = [goal |-> snap.goal, goalAt |-> snap.goalAt, at |-> snap.at, final |-> snap.final]
    BY <1>3 DEF NowTier
  <2>2. PICK i \in DOMAIN snaps : /\ snap = snaps[i] /\ snaps[i].of = s
                                  /\ \A j \in DOMAIN snaps : snaps[j].of = s => j <= i
    BY <2>1, LoadedIs
  <2>3. snap.carry \in Nat /\ snap.at \in Nat /\ i \in Nat /\ (\A j \in DOMAIN snaps : j \in Nat) /\ Scan \in Nat /\ 0 < Scan
    BY <2>2, GoalsAssumption DEF GoalsTypeOK, Snapshot, Ticks
  <2>4. /\ WasStated(snap.goal, snap.branch, snap.goalAt)
        /\ snap.carry = 0 => snap.goalAt = snap.at
        /\ snap.carry = 1 => snap.goalAt + Scan > snap.at
    BY <2>1, <2>2 DEF RowsInv, RowsTellTasks
  <2>5. snap.carry = 0 \/ snap.carry = 1
    BY <2>1, <2>3 DEF MaxCarry
  <2>6. snap.final \/ OwnFirst(s, snap.goal, snap.at)
    <3>1. ~ \E j \in DOMAIN snaps : i < j /\ snaps[j].of = snaps[i].of
      BY <2>2, <2>3
    <3> QED BY <2>1, <2>2, <3>1 DEF RowsInv, RowsOwnFirst
  <2> HIDE DEF snap
  <2>7. /\ tier.goal = snap.goal /\ tier.goalAt = snap.goalAt
        /\ tier.at = snap.at /\ tier.final = snap.final
    BY <2>1
  <2> HIDE DEF tier
  <2>8. NowIsCurrent'
    <3>1. PICK f \in stated : f.goal = snap.goal /\ f.branch \in {snap.branch, Unset} /\ f.at = snap.goalAt
      BY <2>4 DEF WasStated
    <3>2. f.at + Scan > snap.at
      BY <2>3, <2>4, <2>5, <3>1
    <3> QED BY <1>1, <2>1, <2>7, <3>1, <3>2 DEF NowIsCurrent, OnBranch
  <2>9. OwnTaskFirst'
    BY <1>1, <2>6, <2>7 DEF OwnTaskFirst, OwnFirst
  <2> QED BY <2>8, <2>9 DEF BriefInv
<1> QED BY <1>2, <1>3

-----------------------------------------------------------------------------
LEMMA GoalsInvInit == GoalsInit => GoalsInv
<1> SUFFICES ASSUME GoalsInit
             PROVE  GoalsInv
  OBVIOUS
<1>1. DOMAIN snaps = {} /\ Resolving = {} /\ stated = {} /\ briefed = Unset /\ WithProjectGoal = {}
      /\ \A s \in Session : place[s] = "off"
  BY DEF GoalsInit, Resolving, WithProjectGoal
<1>2. RowsInv
  BY <1>1 DEF RowsInv, RowsInOrder, RowsTellTasks, StatedIsKept, RowsOwnFirst, RowsKeepClocks, ClockNeedsARace
<1>3. DraftsInv
  BY <1>1 DEF DraftsInv, DraftsTellTasks, DraftsOwnFirst, DraftsKeepClocks
<1>4. BriefInv
  BY <1>1 DEF BriefInv, NowIsCurrent, OwnTaskFirst
<1> QED BY <1>2, <1>3, <1>4, GoalsTypeInit DEF GoalsInv

LEMMA GoalsInvStep == GoalsInv /\ [GoalsNext]_goals => GoalsInv'
<1> SUFFICES ASSUME GoalsInv, [GoalsNext]_goals
             PROVE  GoalsInv'
  OBVIOUS
<1> USE DEF GoalsInv
<1>0. GoalsTypeOK' /\ now \in Nat /\ now <= now
  BY GoalsTypeStep DEF GoalsTypeOK, Ticks
<1>1. briefed' = Unset => BriefInv'
  BY DEF BriefInv, NowIsCurrent, OwnTaskFirst
<1>2. ASSUME NEW s \in Session, NEW t \in Maybe(Task), NEW p \in Maybe(PlanName), Compact(s, t, p)
      PROVE  GoalsInv'
  <2>1. RowsInv'
    BY <1>0, <1>2, QuietRows DEF Compact, world
  <2>2. DraftsInv'
    BY <1>2, ResolveKeepsDrafts, Zenon DEF Compact, world
  <2> QED BY <1>0, <1>1, <1>2, <2>1, <2>2 DEF Compact
<1>3. ASSUME NEW s \in Session, NEW t \in Maybe(Task), NEW p \in Maybe(PlanName), End(s, t, p)
      PROVE  GoalsInv'
  <2>1. RowsInv'
    BY <1>0, <1>3, QuietRows DEF End, world
  <2>2. DraftsInv'
    BY <1>3, ResolveKeepsDrafts, Zenon DEF End, world
  <2> QED BY <1>0, <1>1, <1>3, <2>1, <2>2 DEF End
<1>4. ASSUME \/ \E p \in Maybe(PlanName) : ChangePlan(p)
             \/ \E b \in Maybe(Branch) : Checkout(b)
      PROVE  GoalsInv'
  <2>1. UNCHANGED <<now, snaps, place, draft, stored, stated>> /\ briefed' = Unset
    BY <1>4 DEF ChangePlan, Checkout
  <2>2. RowsInv'
    BY <1>0, <2>1, QuietRows
  <2>3. DraftsInv'
    BY <2>1, QuietDrafts DEF Resolving
  <2> QED BY <1>0, <1>1, <2>1, <2>2, <2>3
<1>5. CASE Tick
  <2>1. RowsInv'
    BY <1>0, <1>5, QuietRows DEF Tick
  <2>2. Resolving' = {} /\ \A s \in Session : place'[s] # "compacting"
    BY <1>5 DEF Tick, Resolving
  <2>3. DraftsInv'
    BY <2>2 DEF DraftsInv, DraftsTellTasks, DraftsOwnFirst, DraftsKeepClocks
  <2> QED BY <1>0, <1>1, <1>5, <2>1, <2>3 DEF Tick
<1>6. ASSUME NEW s \in Session, Store(s)
      PROVE  GoalsInv'
  BY <1>0, <1>1, <1>6, StoreKeepsRows, StoreKeepsDrafts DEF Store
<1>7. ASSUME NEW s \in Session, Close(s)
      PROVE  GoalsInv'
  BY <1>0, <1>1, <1>7, CloseKeepsRows, CloseKeepsDrafts DEF Close
<1>8. ASSUME NEW s \in Session, Die(s)
      PROVE  GoalsInv'
  <2>1. RowsInv'
    BY <1>0, <1>8, QuietRows DEF Die, world
  <2>2. \A x \in Resolving' : x \in Resolving /\ draft'[x] = draft[x] /\ place'[x] = place[x]
    BY <1>8 DEF Die, GoalsTypeOK, Resolving
  <2>3. DraftsInv'
    BY <1>8, <2>2, QuietDrafts DEF Die, world
  <2> QED BY <1>0, <1>1, <1>8, <2>1, <2>3 DEF Die
<1>9. ASSUME NEW s \in Session, NEW type \in StartTypes(s), Start(s, type)
      PROVE  GoalsInv'
  <2>1. RowsInv'
    BY <1>0, <1>9, QuietRows DEF Start, world
  <2>2. \A x \in Resolving' : x \in Resolving /\ draft'[x] = draft[x] /\ place'[x] = place[x]
    BY <1>9 DEF Start, GoalsTypeOK, Resolving
  <2>3. DraftsInv'
    BY <1>9, <2>2, QuietDrafts DEF Start, world
  <2>4. BriefInv'
    BY <1>9, StartKeepsBrief
  <2> QED BY <1>0, <2>1, <2>3, <2>4
<1>10. CASE UNCHANGED goals
  <2>1. UNCHANGED <<now, head, snaps, place, draft, briefed, stored, stated>>
    BY <1>10 DEF goals, world
  <2>2. RowsInv'
    BY <1>0, <2>1, QuietRows
  <2>3. DraftsInv'
    BY <2>1, QuietDrafts DEF Resolving
  <2>4. BriefInv'
    BY <2>1 DEF BriefInv, NowIsCurrent, OwnTaskFirst, OnBranch
  <2> QED BY <1>0, <2>2, <2>3, <2>4
<1> QED BY <1>2, <1>3, <1>4, <1>5, <1>6, <1>7, <1>8, <1>9, <1>10 DEF GoalsNext, GoalSteps

(* Every variable of a project's goals keeps its type, whatever the sessions do. *)
THEOREM GoalsTypeCorrect == GoalsSpec => []GoalsTypeOK
BY GoalsTypeInit, GoalsTypeStep, PTL DEF GoalsSpec

(* What a briefing and the snapshots under it say of a goal is so, for any     *)
(* number of sessions, tasks, branches and plans and for any windows: whose    *)
(* task it is, for which branch, since when, and since when the project has it. *)
THEOREM GoalsAreTold == GoalsSpec => []GoalsAreHonest
<1>1. GoalsInv => GoalsAreHonest
  BY DEF GoalsInv, GoalsAreHonest, BriefInv, RowsInv, RowsTellTasks, WasStated, AgeIsHonest, RowsKeepClocks
<1> QED BY <1>1, GoalsInvInit, GoalsInvStep, PTL DEF GoalsSpec
=============================================================================
