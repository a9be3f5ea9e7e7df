----------------------------- MODULE Reminders ------------------------------
(***************************************************************************)
(* Reminders of several projects under several processes: the one that     *)
(* serves the hooks and the hooks that run by themselves.  A hook reads    *)
(* the reminders its event matches, and fires them in a transaction of its *)
(* own; what it fires it shows if there is room.                           *)
(***************************************************************************)
EXTENDS Naturals, Sequences, FiniteSets, SequencesExt

CONSTANTS
  Id,          \* reminders
  Project,
  Proc,        \* processes
  Types,       \* the trigger types that are asked for
  Limits,      \* the max_fires that are asked for, 0 is no limit
  Cap,         \* LIMITS.REMINDERS_MAX_FIRE_PER_PROMPT
  MaxActive,   \* REMINDERS.MAX_ACTIVE
  None,
  MaxCreates,  \* bound on the creations
  MaxCount     \* counts are told apart up to here

Type == {"prompt", "file", "time", "conditional"}

Scope == Project \cup {None}   \* None: every project

Reminder == [type : Type, project : Scope, max : Limits, count : 0..MaxCount, active : BOOLEAN]

ASSUME ReminderAssumption ==
  /\ IsFiniteSet(Proc) /\ {Cap, MaxActive, MaxCreates, MaxCount} \subseteq Nat
  /\ Types \subseteq Type /\ Limits \subseteq Nat /\ None \notin Project \cup Reminder
  /\ \A m \in Limits : m + 2 * Cardinality(Proc) < MaxCount

VARIABLES
  row,       \* row[r]: the row of a reminder, or None
  order,     \* the rows in the order a query without ORDER BY returns them
  passed,    \* the reminders whose nextDue has passed
  held,      \* held[p]: the rows p has read and is about to fire, or None
  pending,   \* pending[p]: the reminder p has counted the limit for, or None
  creates

reminders == <<row, order, passed, held, pending, creates>>

-----------------------------------------------------------------------------
Rows == {r \in Id : row[r] # None}

InScope(r, x) == row[r].project \in {x, None}

ActiveIn(x) == {r \in Rows : row[r].active /\ InScope(r, x)}

\* The rows a query returns: the first ones, up to the cap.
First(rs) ==
  LET before(i) == {j \in 1 .. i - 1 : order[j] \in rs}
  IN  {order[i] : i \in {k \in DOMAIN order : order[k] \in rs /\ Cardinality(before(k)) < Cap}}

\* What a check finds among the reminders its prompt, file or condition
\* matches.  A prompt finds those of every type; what is due, and what a
\* condition says, is asked of the rows that were returned.
Found(kind, x, matches) ==
  CASE kind = "prompt" -> First(ActiveIn(x) \cap matches)
    [] kind = "file" -> First({r \in ActiveIn(x) \cap matches : row[r].type = "file"})
    [] kind = "time" -> First({r \in ActiveIn(x) : row[r].type = "time"}) \cap passed
    [] kind = "conditional" -> First({r \in ActiveIn(x) : row[r].type = "conditional"}) \cap matches

\* Fault: one fire more.
ExhaustedLate(r, count) == row[r].max > 0 /\ count > row[r].max

\* By the count that was read.
Exhausted(r, count) == row[r].max > 0 /\ count >= row[r].max

Up(n) == IF n < MaxCount THEN n + 1 ELSE n

-----------------------------------------------------------------------------
ReminderInit ==
  /\ row = [r \in Id |-> None] /\ order = <<>> /\ passed = {}
  /\ held = [p \in Proc |-> None] /\ pending = [p \in Proc |-> None]
  /\ creates = 0

Room(x) == Cardinality(ActiveIn(x)) < MaxActive

\* create: the limit is counted, then the row inserted.
Ask(p, r) ==
  /\ pending[p] = None /\ row[r] = None /\ ~\E q \in Proc : pending[q] # None /\ pending[q].id = r
  /\ creates < MaxCreates /\ creates' = creates + 1
  /\ \E x \in Scope, t \in Types, m \in Limits :
       /\ Room(x)
       /\ pending' = [pending EXCEPT ![p] = [id |-> r, row |->
            [type |-> t, project |-> x, max |-> m, count |-> 0, active |-> TRUE]]]
  /\ UNCHANGED <<row, order, passed, held>>

InsertRow(p) ==
  /\ pending[p] # None
  /\ row' = [row EXCEPT ![pending[p].id] = pending[p].row]
  /\ \E i \in 1..Len(order) + 1 : order' = InsertAt(order, i, pending[p].id)
  /\ pending' = [pending EXCEPT ![p] = None]
  /\ UNCHANGED <<passed, held, creates>>

\* checkAndFire, checkFileReminders, checkTimeReminders and
\* checkConditionalReminders, first half: the rows are read.
Check(p, kind, x) ==
  /\ held[p] = None
  /\ \E matches \in SUBSET Rows :
       LET found == Found(kind, x, matches)
       IN /\ found # {}
          /\ held' = [held EXCEPT ![p] = [r \in found |-> row[r].count]]
  /\ UNCHANGED <<row, order, passed, pending, creates>>

\* Second half: they are counted up in a transaction, and those that by the
\* count read have fired often enough are switched off.  What the hook shows of
\* them, or whether its answer arrives, is not asked.
Fire(p) ==
  /\ held[p] # None
  /\ LET fired == DOMAIN held[p]
     IN /\ row' = [r \in Id |->
              IF r \notin fired THEN row[r]
              ELSE [row[r] EXCEPT !.count = Up(@), !.active = @ /\ ~Exhausted(r, held[p][r] + 1)]]
  /\ held' = [held EXCEPT ![p] = None]
  /\ UNCHANGED <<order, passed, pending, creates>>

Deactivate(r) ==
  /\ row[r] # None /\ row[r].active
  /\ row' = [row EXCEPT ![r].active = FALSE]
  /\ UNCHANGED <<order, passed, held, pending, creates>>

Without(h, r) == IF h = None THEN None ELSE [s \in DOMAIN h \ {r} |-> h[s]]

\* An id is never used again; here it stands for another reminder, so a process
\* that is about to fire the row, and will find none, forgets it now.
Delete(r) ==
  /\ row[r] # None
  /\ row' = [row EXCEPT ![r] = None]
  /\ order' = SelectSeq(order, LAMBDA s : s # r)
  /\ passed' = passed \ {r}
  /\ held' = [p \in Proc |-> Without(held[p], r)]
  /\ UNCHANGED <<pending, creates>>

TimePasses(r) ==
  /\ row[r] # None /\ row[r].type = "time" /\ r \notin passed
  /\ passed' = passed \cup {r}
  /\ UNCHANGED <<row, order, held, pending, creates>>

-----------------------------------------------------------------------------
ReminderNext ==
  \/ \E p \in Proc, r \in Id : Ask(p, r)
  \/ \E p \in Proc : InsertRow(p) \/ Fire(p)
  \/ \E p \in Proc, kind \in Types \cup {"prompt"}, x \in Project : Check(p, kind, x)
  \/ \E r \in Id : Deactivate(r) \/ Delete(r) \/ TimePasses(r)

ReminderSpec == ReminderInit /\ [][ReminderNext]_reminders

-----------------------------------------------------------------------------
ReminderTypeOK ==
  /\ row \in [Id -> Reminder \cup {None}]
  /\ IsInjective(order) /\ Range(order) = Rows
  /\ passed \subseteq Rows
  /\ \A p \in Proc : held[p] # None => DOMAIN held[p] \subseteq Rows
  /\ \A p \in Proc : pending[p] # None => pending[p].id \notin Rows
  /\ creates \in 0..MaxCreates

\* A limited reminder fires too often by no more than what the processes can
\* have read at the same time: the fires that were read before the one that
\* completes the limit, and those in flight when it is switched off.
OvershootIsBounded ==
  \A r \in Rows : row[r].max > 0 => row[r].count <= row[r].max + 2 * (Cardinality(Proc) - 1)
=============================================================================
