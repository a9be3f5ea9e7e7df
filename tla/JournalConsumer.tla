--------------------------- MODULE JournalConsumer ---------------------------
(***************************************************************************)
(* The semantic-change journal (sync_journal) and the core-owned half of   *)
(* its consumption handshake.  Repository code appends an entry in the     *)
(* transaction of the mutation it records; the out-of-process sync worker  *)
(* classifies a range of entries and advances the project's consumption    *)
(* cursor in one transaction, and later settles the entries it deferred.   *)
(* MoveProjectRows, the rescope of a renamed project, is a step of the     *)
(* composition only (module Replica).                                      *)
(*                                                                         *)
(* entry_id is AUTOINCREMENT, so an entry's id is its index in `journal`.  *)
(***************************************************************************)
EXTENDS Naturals, Sequences, FiniteSets

CONSTANTS
  Row,         \* memory ids
  Project,     \* project ids (the NULL project is never journalled)
  MaxJournal,  \* bound: entries ever appended
  Overshoot    \* how far past the newest entry a worker may ask the cursor to go

ASSUME BoundsAssumption ==
  /\ MaxJournal \in Nat
  /\ Overshoot \in Nat

VARIABLES
  journal,   \* sequence of entries [row, project, op, class]
  jcursor    \* per project, sync_state ns 'journal' key 'cursor:<project>'

jvars == <<journal, jcursor>>

\* classification IS NULL: not consumed yet.
Pending == "pending"
JournalClass == {"enqueued", "ineligible", "deferred"}
JournalOp == {"upsert", "tombstone"}

EntryType ==
  [row: Row, project: Project, op: JournalOp, class: JournalClass \cup {Pending}]

-----------------------------------------------------------------------------

Init ==
  /\ journal = <<>>
  /\ jcursor = [p \in Project |-> 0]

(* journalMutation: the entry of one semantic mutation, in the caller's      *)
(* transaction (the composing module conjoins the mutation itself).          *)
JournalMutation(r, p, op) ==
  /\ Len(journal) < MaxJournal
  /\ journal' = Append(journal, [row |-> r, project |-> p, op |-> op, class |-> Pending])
  /\ UNCHANGED jcursor

(* Entry ids in (cursor, to] that exist under project p. *)
Consumable(p, to) ==
  {i \in DOMAIN journal : jcursor[p] < i /\ i <= to /\ journal[i].project = p}

Classified(items) ==
  [i \in DOMAIN journal |->
     IF i \in DOMAIN items THEN [journal[i] EXCEPT !.class = items[i]] ELSE journal[i]]

(* Faults of the handlers below: the gap query dropped; an update that       *)
(* does not look at the old class; a regression accepted; a range check that *)
(* refuses every batch touching the newest entry.                            *)
ClassifyIgnoringGaps(p, items, to) ==
  /\ to >= jcursor[p]
  /\ DOMAIN items \subseteq Consumable(p, to)
  /\ journal' = Classified(items)
  /\ jcursor' = [jcursor EXCEPT ![p] = to]

ClassifyRefusingNewest(p, items, to) ==
  /\ to >= jcursor[p]
  /\ to < Len(journal)
  /\ DOMAIN items \subseteq Consumable(p, to)
  /\ \A i \in Consumable(p, to) : Classified(items)[i].class # Pending
  /\ journal' = Classified(items)
  /\ jcursor' = [jcursor EXCEPT ![p] = to]

(* classifyAndAdvance: refuses a cursor regression, an item outside the      *)
(* range or the project, and a range that keeps an unclassified entry; a     *)
(* refusal rolls the whole transaction back.                                 *)
ClassifyAndAdvance(p, items, to) ==
  /\ to >= jcursor[p]
  /\ DOMAIN items \subseteq Consumable(p, to)
  /\ \A i \in Consumable(p, to) : Classified(items)[i].class # Pending
  /\ journal' = Classified(items)
  /\ jcursor' = [jcursor EXCEPT ![p] = to]

ReclassifyAnything(p, items) ==
  /\ \A i \in DOMAIN items : i <= jcursor[p] /\ journal[i].project = p
  /\ journal' = Classified(items)
  /\ UNCHANGED jcursor

(* reclassifyDeferred: settles entries behind the cursor that are deferred;  *)
(* an item that is not is refused, and the batch with it.                    *)
ReclassifyDeferred(p, items) ==
  /\ \A i \in DOMAIN items :
        /\ i <= jcursor[p]
        /\ journal[i].project = p
        /\ journal[i].class = "deferred"
  /\ journal' = Classified(items)
  /\ UNCHANGED jcursor

(* moveProjectRows, as far as this state goes: the journal's project column  *)
(* is rewritten, the cursor keys in sync_state are not.                      *)
MoveProjectRows(old, new) ==
  /\ journal' = [i \in DOMAIN journal |->
                   IF journal[i].project = old
                     THEN [journal[i] EXCEPT !.project = new] ELSE journal[i]]
  /\ UNCHANGED jcursor

ItemBatches(S) == UNION {[T -> JournalClass] : T \in SUBSET S}

(* What the worker may ask: any cursor up to Overshoot past the newest id.   *)
Consume ==
  \E p \in Project, to \in 0 .. (Len(journal) + Overshoot) :
    \E items \in ItemBatches(Consumable(p, to)) : ClassifyAndAdvance(p, items, to)

Reconcile ==
  \E p \in Project :
    \E items \in ItemBatches({i \in DOMAIN journal : i <= jcursor[p]}) :
      ReclassifyDeferred(p, items)

Record == \E r \in Row, p \in Project, op \in JournalOp : JournalMutation(r, p, op)

Next == Record \/ Consume \/ Reconcile

Spec == Init /\ [][Next]_jvars

(* The worker is a separate program: that it keeps calling is an assumption  *)
(* about it.  What the code must then guarantee is that no entry is stuck.   *)
ConsumeNext(p) ==
  \E items \in [Consumable(p, Len(journal)) -> JournalClass] :
    /\ jcursor[p] <= Len(journal)
    /\ ClassifyAndAdvance(p, items, Len(journal))

FairSpec == Spec /\ \A p \in Project : WF_jvars(ConsumeNext(p))

-----------------------------------------------------------------------------

TypeOK ==
  /\ journal \in Seq(EntryType)
  /\ Len(journal) <= MaxJournal
  /\ jcursor \in [Project -> Nat]

(* No work is lost behind the cursor: an entry at or below its project's     *)
(* consumption cursor carries a durable classification.  Behind the cursor   *)
(* an unclassified entry is unreachable for both handlers: one wants ids     *)
(* above the cursor, the other wants deferred entries.                       *)
NothingLostBehindCursor ==
  \A i \in DOMAIN journal :
    i <= jcursor[journal[i].project] => journal[i].class # Pending

(* A worker's decision is final: once an entry is classified, its class      *)
(* changes only by settling a deferral, whatever mixture of replays, batches *)
(* and reconciliations of both projects is submitted (reclassifyDeferred,    *)
(* "reconciliation never rewrites terminal or pending states").              *)
DecisionsAreFinal ==
  [][\A i \in DOMAIN journal :
       journal'[i].class # journal[i].class => journal[i].class \in {Pending, "deferred"}]_jvars

(* Consumed work is never handed out again: no entry loses its               *)
(* classification and no cursor goes back, whatever the worker submits       *)
(* (classifyAndAdvance, the regression check).                               *)
NothingConsumedTwice ==
  [][/\ \A p \in Project : jcursor'[p] >= jcursor[p]
     /\ \A i \in DOMAIN journal :
          journal'[i].class = Pending => journal[i].class = Pending]_jvars

(* Every recorded intent reaches a durable outcome if the worker keeps       *)
(* asking: no sequence of refusals can wedge the handshake.                  *)
EveryIntentClassified ==
  \A i \in 1 .. MaxJournal :
    (i \in DOMAIN journal) ~> (i \in DOMAIN journal /\ journal[i].class # Pending)

-----------------------------------------------------------------------------
(* The abstract promise: a log of intents, each settled once.                *)
Log == INSTANCE IntentLog WITH
         outcome <- [i \in DOMAIN journal |-> journal[i].class],
         Undecided <- Pending, Final <- {"enqueued", "ineligible"},
         Revisable <- {"deferred"}, MaxIntents <- MaxJournal

ImplementsIntentLog == Log!FairSpec
=============================================================================
