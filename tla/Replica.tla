------------------------------- MODULE Replica -------------------------------
(***************************************************************************)
(* One replica of a team's memories: the local operations of the memory    *)
(* repository and its background hygiene, the application of inbound sync  *)
(* events, and the consumption of the semantic-change journal, all of them *)
(* transactions of different processes on one SQLite database.             *)
(*                                                                         *)
(* Every action is one immediate transaction.  Values the code reads       *)
(* BEFORE its transaction may be stale when it writes, and the action's    *)
(* guard then only asks for what the transaction itself checks.            *)
(*                                                                         *)
(* Rows are of shareable kinds (others neither journal nor bind).  An      *)
(* inbound event is delivered in a batch of its own: batches are the       *)
(* subject of OwnerRpc.                                                    *)
(***************************************************************************)
EXTENDS SyncApply

CONSTANTS
  MaxVersion,   \* bound: entity versions on the wire
  MaxSeq,       \* bound: events applied per project
  MaxJournal,   \* bound: journal entries
  Contribs,     \* per entity, the contributor sets its envelopes may carry
  Scopes,       \* scopes new and restored memories may have
  LocalText,    \* texts local writers produce
  Repair,       \* [Text -> Text], what a git rename does to a text's anchor
  OptOuts,      \* rows the user may opt out of sharing
  Rescopes      \* pairs <<old, new>> of projects that may be renamed

ASSUME BoundAssumption ==
  /\ MaxVersion \in Nat /\ MaxSeq \in Nat /\ MaxJournal \in Nat
  /\ Contribs \in [Entity -> SUBSET (SUBSET Account)]
  /\ Scopes \subseteq Project \cup {Global}
  /\ LocalText \subseteq Text
  /\ Repair \in [Text -> Text]
  /\ Rescopes \subseteq Project \X Project

VARIABLES
  store,      \* the tables sync apply works on (SyncApply!StoreType)
  journal,    \* sync_journal
  jcursor,    \* the journal's consumption cursors
  cursor,     \* per project, sync_state ns 'apply' key 'cursor:<project>'
  detecting   \* rows inserted whose conflict detection has not run yet

vars == <<store, journal, jcursor, cursor, detecting>>

Journal == INSTANCE JournalConsumer WITH Row <- RowId, Overshoot <- 0

Init ==
  /\ store = EmptyStore
  /\ Journal!Init
  /\ cursor = [p \in Project |-> 0]
  /\ detecting = {}

-----------------------------------------------------------------------------
(* Local operations: memory-repository.                                      *)

\* The entry of one mutation: rows of the NULL project do not journal
\* (isJournalAdmissible).
Entry(r, p, op) ==
  IF p = Global THEN <<>>
  ELSE <<[row |-> r, project |-> p, op |-> op, class |-> "pending"]>>

\* journalMutation for each change, in order.
JournalAll(entries) ==
  /\ Len(journal) + Len(entries) <= MaxJournal
  /\ journal' = journal \o entries
  /\ UNCHANGED jcursor

Row(r) == store.mem[r]

\* "invalidated = 0", the guard of most statements, also admits superseded rows.
NotInvalidated(r) == Present(store, r) /\ Row(r).status # "invalidated"

SetRow(r, row) == store' = [store EXCEPT !.mem[r] = row]

\* create and storeMemory, no similar row: insert and journal.  Conflict
\* detection is a second transaction, and may be skipped.
CreateMemory(r, p, x, v) ==
  /\ r \in FreshIds(store)
  /\ store' = InsertProjectedRow(store, r,
       [project |-> p, text |-> x, vol |-> v, status |-> "active",
        optedOut |-> FALSE, author |-> FALSE])
  /\ JournalAll(Entry(r, p, "upsert"))
  /\ detecting' \in {detecting, detecting \cup {r}}
  /\ UNCHANGED cursor

\* create and storeMemory, a similar row found: the merge rewrites it by id
\* alone.  The row was active in scope p when findSimilar read it; by now it
\* may be retired, gone or in another scope, and x is computed from the bytes
\* read then.
MergeIntoSimilar(r, p, x, v) ==
  /\ r \in store.used
  /\ store' = IF Present(store, r)
                THEN [store EXCEPT !.mem[r].text = x, !.mem[r].vol = v] ELSE store
  /\ JournalAll(Entry(r, p, "upsert"))
  /\ UNCHANGED <<cursor, detecting>>

\* applyConflictDetection on a freshly inserted row: it or an active row of
\* its scope may be superseded; otherwise nothing this state holds changes
\* (a standing contradiction only adds an edge).  Both rows and the scope p
\* that is journalled were read before the transaction.
DetectConflicts(r) ==
  /\ r \in detecting
  /\ detecting' = detecting \ {r}
  /\ \/ UNCHANGED <<store, journal, jcursor>>
     \/ \E loser \in store.used, p \in Scopes :
          /\ SetRow(loser, IF Present(store, loser) /\ Row(loser).status = "active"
               THEN [Row(loser) EXCEPT !.status = "superseded"] ELSE Row(loser))
          /\ JournalAll(Entry(loser, p, "tombstone"))
  /\ UNCHANGED cursor

\* update: an explicit correction.
Update(r, x, v) ==
  /\ NotInvalidated(r)
  /\ SetRow(r, [Row(r) EXCEPT !.text = x, !.vol = v])
  /\ JournalAll(Entry(r, Row(r).project, "upsert"))
  /\ UNCHANGED <<cursor, detecting>>

\* retractWithTombstone: invalidate and deleteById, at any status.
Retract(r, how) ==
  /\ Present(store, r)
  /\ SetRow(r, IF how = "delete" THEN Nil ELSE [Row(r) EXCEPT !.status = "invalidated"])
  /\ JournalAll(Entry(r, Row(r).project, "tombstone"))
  /\ UNCHANGED <<cursor, detecting>>

\* promote: the row leaves the only scope the team sees.
Promote(r) ==
  /\ NotInvalidated(r)
  /\ Row(r).project # Global
  /\ SetRow(r, [Row(r) EXCEPT !.project = Global])
  /\ JournalAll(Entry(r, Row(r).project, "tombstone"))
  /\ UNCHANGED <<cursor, detecting>>

\* strengthenConfidence, and weakenConfidence above the threshold on the
\* explicit path: a portable field changed, an upsert is journalled.
ChangeTrust(r, v) ==
  /\ NotInvalidated(r)
  /\ SetRow(r, [Row(r) EXCEPT !.vol = v])
  /\ JournalAll(Entry(r, Row(r).project, "upsert"))
  /\ UNCHANGED <<cursor, detecting>>

\* Fault: the autonomous bar forgotten.
WeakenToDeathUnbarred(r, v) ==
  /\ NotInvalidated(r)
  /\ SetRow(r, [Row(r) EXCEPT !.status = "invalidated"])
  /\ UNCHANGED <<journal, jcursor, cursor, detecting>>

\* weakenConfidence below the threshold on the autonomous path: a bound row
\* is clamped, an unbound one invalidated with the journal suppressed.  (On
\* the explicit path it is Retract.)
WeakenToDeath(r, v) ==
  /\ NotInvalidated(r)
  /\ SetRow(r, IF IsRowSyncBound(store, r)
                 THEN [Row(r) EXCEPT !.vol = v]
                 ELSE [Row(r) EXCEPT !.status = "invalidated"])
  /\ UNCHANGED <<journal, jcursor, cursor, detecting>>

\* restoreRecord: an overwrite revives a retired row, whatever its scope was.
Restore(r, p, x, v) ==
  /\ store' = IF Present(store, r)
       THEN [store EXCEPT !.mem[r] = [Row(r) EXCEPT
               !.project = p, !.text = x, !.vol = v, !.status = "active"]]
       ELSE InsertProjectedRow(store, r,
               [project |-> p, text |-> x, vol |-> v, status |-> "active",
                optedOut |-> FALSE, author |-> FALSE])
  /\ r \in store.used
  /\ JournalAll(Entry(r, p, "upsert"))
  /\ UNCHANGED <<cursor, detecting>>

\* materializedRename of the memory tool, rows taken to be of one category (one
\* file per scope): the user moves every active row of a scope to a scope that
\* has none, a tombstone under the departing scope and an upsert under the
\* arriving one.
RenameFile(old, new) ==
  LET activeIn(p) == {r \in RowId : Present(store, r) /\ Row(r).status = "active" /\ Row(r).project = p}
      entries(ids, p, op) ==
        IF p = Global THEN <<>>
        ELSE [i \in DOMAIN ids |-> [row |-> ids[i], project |-> p, op |-> op, class |-> "pending"]]
  IN  /\ activeIn(old) # {} /\ activeIn(new) = {}
      /\ store' = [store EXCEPT !.mem = [r \in RowId |->
           IF r \in activeIn(old) THEN [Row(r) EXCEPT !.project = new] ELSE Row(r)]]
      /\ \E ids \in [1 .. Cardinality(activeIn(old)) -> activeIn(old)] :
           /\ \A i, j \in DOMAIN ids : i < j => ids[i] < ids[j]
           /\ JournalAll(entries(ids, old, "tombstone") \o entries(ids, new, "upsert"))
      /\ UNCHANGED <<cursor, detecting>>

\* The user opts a row out of sharing (share_state is written outside src/).
OptOut(r) ==
  /\ r \in OptOuts /\ Present(store, r) /\ ~Row(r).optedOut
  /\ SetRow(r, [Row(r) EXCEPT !.optedOut = TRUE])
  /\ UNCHANGED <<journal, jcursor, cursor, detecting>>

-----------------------------------------------------------------------------
(* Autonomous work: decay, consolidation, promotion, anchor repair, rename.  *)

\* applyPrecisionFeedback, the decay charge, weakenStaleFileReferences: trust
\* churn that journals nothing.
ChurnTrust(r, v) ==
  /\ Present(store, r)
  /\ SetRow(r, [Row(r) EXCEPT !.vol = v])
  /\ UNCHANGED <<journal, jcursor, cursor, detecting>>

\* expireTtlMemories and the deletes of applyConfidenceDecay.
Prune(r) ==
  /\ Present(store, r)
  /\ ~IsRowSyncBound(store, r)
  /\ SetRow(r, Nil)
  /\ UNCHANGED <<journal, jcursor, cursor, detecting>>

\* applyClusterMerge, a cluster of two: cluster, tags and confidence come
\* from rows read outside the transaction; only the bound check is inside.
ConsolidateCluster(rep, member, x, v) ==
  LET rows == {r \in {rep, member} : Present(store, r)}
      tombstones == IF member \in rows
                      THEN Entry(member, Row(member).project, "tombstone") ELSE <<>>
      upserts == IF rep \in rows THEN Entry(rep, Row(rep).project, "upsert") ELSE <<>>
  IN  /\ rep # member /\ {rep, member} \subseteq store.used /\ rows # {}
      /\ ~IsRowSyncBound(store, rep) /\ ~IsRowSyncBound(store, member)
      /\ store' = [store EXCEPT !.mem = [r \in RowId |->
           CASE r \in rows /\ r = rep -> [Row(r) EXCEPT !.text = x, !.vol = v]
             [] r \in rows /\ r = member -> [Row(r) EXCEPT !.status = "invalidated"]
             [] OTHER -> Row(r)]]
      /\ JournalAll(tombstones \o upserts)
      /\ UNCHANGED <<cursor, detecting>>

\* runAutoPromotion: the guarded transaction around promote.
AutoPromote(r) == ~IsRowSyncBound(store, r) /\ Promote(r)

\* updateAnchorsForRenames: part of the projected bytes changes, silently.
RepairAnchor(r) ==
  /\ NotInvalidated(r) /\ Row(r).project # Global
  /\ Repair[Row(r).text] # Row(r).text
  /\ SetRow(r, [Row(r) EXCEPT !.text = Repair[@]])
  /\ UNCHANGED <<journal, jcursor, cursor, detecting>>

\* moveProjectRows: project columns follow the rename, cursor keys do not.
MoveProjectRows(old, new) ==
  /\ store' = [store EXCEPT
       !.mem = [r \in RowId |-> IF Present(store, r) /\ Row(r).project = old
                                  THEN [Row(r) EXCEPT !.project = new] ELSE Row(r)],
       !.emap = [e \in Entity |->
                   IF Mapped(store, e) /\ store.emap[e].project = old
                     THEN [store.emap[e] EXCEPT !.project = new] ELSE store.emap[e]],
       !.csets = [n \in SetName |->
                    IF store.csets[n] # Nil /\ store.csets[n].project = old
                      THEN [store.csets[n] EXCEPT !.project = new] ELSE store.csets[n]]]
  /\ Journal!MoveProjectRows(old, new)
  /\ UNCHANGED <<cursor, detecting>>

-----------------------------------------------------------------------------
(* Inbound events: applyEventBatch for one event above the cursor.  An event *)
(* at or below it is skipped, and a refused one changes nothing.             *)

Commit(p, seq) ==
  /\ seq <= MaxSeq
  /\ cursor' = [cursor EXCEPT ![p] = seq]
  /\ UNCHANGED <<journal, jcursor, detecting>>

Envelope ==
  UNION {[entity: {e}, version: 1 .. MaxVersion, id: RowId, text: Text, vol: Vol,
          contributors: Contribs[e]] : e \in Entity}

UpsertEvent(p) ==
  /\ Commit(p, cursor[p] + 1)
  /\ \E ev \in Envelope : store' \in ApplyUpsert(store, journal, p, ev)

TombstoneEvent(p) ==
  /\ Commit(p, cursor[p] + 1)
  /\ \E e \in Entity, version \in 1 .. MaxVersion :
       store' \in ApplyTombstone(store, journal, p, e, version)

AliasEvent(p) ==
  /\ Commit(p, cursor[p] + 1)
  /\ \E from, to \in Entity, version \in 1 .. MaxVersion :
       from # to /\ store' \in ApplyAlias(store, p, from, to, version)

ConflictOpenEvent(p) ==
  /\ Commit(p, cursor[p] + 1)
  /\ \E name \in SetName, members \in SUBSET Entity :
       /\ Cardinality(members) >= 2
       /\ store' \in ApplyConflictOpen(store, p, name, members)

ResolveEvent(p) ==
  /\ Commit(p, cursor[p] + 1)
  /\ \E name \in SetName, T \in SUBSET Entity, ev \in Envelope :
       store' \in ApplyResolveCommit(store, journal, p, cursor[p] + 1, name, T, ev)

-----------------------------------------------------------------------------

LocalNext ==
  \/ \E r \in RowId, p \in Scopes, x \in LocalText, v \in Vol :
       \/ CreateMemory(r, p, x, v)
       \/ MergeIntoSimilar(r, p, x, v)
       \/ Restore(r, p, x, v)
  \/ \E r \in RowId, x \in LocalText, v \in Vol : Update(r, x, v)
  \/ \E r \in RowId, v \in Vol : ChangeTrust(r, v) \/ WeakenToDeath(r, v)
  \/ \E r \in RowId, how \in {"delete", "invalidate"} : Retract(r, how)
  \/ \E r \in RowId : DetectConflicts(r) \/ Promote(r) \/ OptOut(r)
  \/ \E old, new \in Project \cup {Global} : RenameFile(old, new)

AutonomousNext ==
  \/ \E r \in RowId, v \in Vol : ChurnTrust(r, v)
  \/ \E r \in RowId : Prune(r) \/ AutoPromote(r) \/ RepairAnchor(r)
  \/ \E r, m \in RowId, x \in LocalText, v \in Vol : ConsolidateCluster(r, m, x, v)
  \/ \E pair \in Rescopes : MoveProjectRows(pair[1], pair[2])

ApplyNext ==
  \E p \in Project :
    \/ UpsertEvent(p) \/ TombstoneEvent(p) \/ AliasEvent(p)
    \/ ConflictOpenEvent(p) \/ ResolveEvent(p)

\* The sync worker consumes the journal.
ConsumeNext == (Journal!Consume \/ Journal!Reconcile) /\ UNCHANGED <<store, cursor, detecting>>

Next == LocalNext \/ AutonomousNext \/ ApplyNext \/ ConsumeNext

Spec == Init /\ [][Next]_vars
-----------------------------------------------------------------------------
(* Properties.                                                               *)

TypeOK ==
  /\ store \in StoreType
  /\ Journal!TypeOK
  /\ cursor \in [Project -> 0 .. MaxSeq]
  /\ detecting \subseteq RowId

Mem == store.mem
Emap == store.emap
Applying == cursor' # cursor
IntentOn(e) == HasUnpushedLocalIntent(store, journal, Emap[e].row, Emap[e].ph)

(* X26: a local row carries at most one association, whatever order binds,   *)
(* forks, twins, shadow associations and aliases arrive in (entity-map.ts).  *)
OneEntityPerRow ==
  \A e, f \in Entity :
    Mapped(store, e) /\ Mapped(store, f) /\ Emap[e].row = Emap[f].row => e = f

(* R22 and S6: the hash an entry records of its row is the projection of the *)
(* canonical payload it was last given, so comparing it with the row's bytes *)
(* really tells local edits from remote ones (upsert-apply.ts bindEntity     *)
(* calls, assertRebindLegal).  The scope hashed is that of the row: a clean  *)
(* update does not write the project column, and a renamed project's hashes  *)
(* are not rewritten, so with several projects it need not be the event's.   *)
RecordedHashIsCanonical ==
  \A e \in Entity : Mapped(store, e) =>
    \E q \in Project : Emap[e].ph = Hash(q, Clean[Emap[e].ch.text])

(* Atomic outbox: a transaction of this replica that makes a bound, clean    *)
(* row differ from its canonical (bytes, scope, retraction, deletion)        *)
(* journals an entry for that row in the same transaction ("diverged" <=>    *)
(* "an unpushed semantic change exists"); autonomous hygiene therefore never *)
(* touches the bytes or the life of a bound row.                             *)
ChangesTravel ==
  [][~Applying => \A e \in Entity :
       LET r == Emap[e].row
           Clean1 == Present(store, r) /\ ~IsLocallyRetracted(store, r)
                       /\ RowHash(store, r) = Emap[e].ph
           Clean2 == Present(store', r) /\ ~IsLocallyRetracted(store', r)
                       /\ RowHash(store', r) = Emap[e].ph
       IN  IsBound(store, e) /\ Clean1 /\ ~Clean2 =>
             \E i \in DOMAIN journal' : i > Len(journal) /\ journal'[i].row = r]_vars

(* A pending local edit, retraction or opt-out of a bound row survives every *)
(* upsert, tombstone and resolution: the row keeps its bytes, its status and *)
(* its existence (T3, S9, "the user's edit or retraction is never            *)
(* destroyed").  An alias is the exception: applyAlias deletes the bound row *)
(* of its source whatever its state.                                         *)
LocalIntentSurvives ==
  [][Applying => \A e \in Entity :
       IsBound(store, e) /\ Present(store, Emap[e].row) /\ IntentOn(e)
         /\ store'.aliases[e] = Nil =>
           /\ Present(store', Emap[e].row)
           /\ Mem'[Emap[e].row].text = Mem[Emap[e].row].text
           /\ Mem'[Emap[e].row].status = Mem[Emap[e].row].status]_vars

(* What an event binds is what the reader sees: the row exists, is active    *)
(* and holds exactly the bytes whose hash the entry records.                 *)
BindingsAreVisible ==
  [][Applying => \A e \in Entity :
       IsBound(store', e) /\ Emap'[e] # Emap[e] =>
         LET r == Emap'[e].row IN
         Present(store', r) /\ Mem'[r].status = "active" /\ RowHash(store', r) = Emap'[e].ph]_vars

(* While an entity stays mapped its version never goes back, and its         *)
(* canonical content changes only with a newer version: replays, stale       *)
(* events and alias materialisations included.                               *)
VersionsAdvance ==
  [][\A e \in Entity : Mapped(store, e) /\ Mapped(store', e) =>
       /\ Emap'[e].version >= Emap[e].version
       /\ Emap'[e].ch # Emap[e].ch => Emap'[e].version > Emap[e].version]_vars

(* D2 no-vanish: an association ends only by an event about its own entity;  *)
(* no local operation, and no bind or shadow of another entity, ends one.    *)
NoVanish ==
  [][LET lost == {e \in Entity : Mapped(store, e) /\ ~Mapped(store', e)} IN
     /\ ~Applying => lost = {}
     /\ \A e \in lost :
          \/ \E n \in SetName : /\ store.csets[n] # Nil /\ store.csets[n] # store'.csets[n]
                              /\ e \in store.csets[n].members
          \/ \A f \in Entity \ {e} :
               /\ Mapped(store', f) <=> Mapped(store, f)
               /\ Mapped(store, f) => Emap'[f].ch = Emap[f].ch]_vars

(* A materialised entity's content stays reachable on this replica while it  *)
(* is shadowed: if an alias points at it, it becomes a bound row.            *)
AliasTargetsMaterialise ==
  [][\A from \in Entity :
       Mapped(store, from) /\ ~Mapped(store', from) /\ store'.aliases[from] # store.aliases[from] =>
         LET to == store'.aliases[from] IN IsBound(store', to)]_vars

(* Pending confidence work is never erased by an edit: while a row that      *)
(* stays bound to its entity has an entry that is pending, deferred or       *)
(* merely enqueued, its volatile fields keep the local values.  (A tombstone *)
(* does erase a row whose entries are all enqueued.)                         *)
PendingTrustSurvives ==
  [][Applying => \A e \in Entity :
       LET r == Emap[e].row IN
       IsBound(store, e) /\ Present(store, r) /\ IsBound(store', e) /\ Emap'[e].row = r
         /\ HasEntry(journal, r, {"pending", "deferred", "enqueued"}) =>
           Mem'[r].vol = Mem[r].vol]_vars

(* A set, once opened, keeps its members; once resolved, it keeps the        *)
(* resolution that won.                                                      *)
ResolutionIsFinal ==
  [][\A n \in SetName : store.csets[n] # Nil =>
       /\ store'.csets[n] # Nil
       /\ store'.csets[n].members = store.csets[n].members
       /\ store.csets[n].resolved # 0 => store'.csets[n].resolved = store.csets[n].resolved]_vars

(* The comment of applyTombstone: "a batch for project A must never touch    *)
(* project B's rows" (apply.ts).  An upsert does not keep it: applyUpsert    *)
(* does not compare the project of an entity it finds mapped.                *)
RowsOfOthersUntouched ==
  [][\A p \in Project : cursor'[p] # cursor[p] =>
       \A r \in RowId : Present(store, r) /\ Mem[r].project \notin {p, Global} => Mem'[r] = Mem[r]]_vars

\* An upsert for p of an entity mapped in another project.
TakenOver(e, p) == Mapped(store', e) /\ Emap'[e].project = p

(* What the boundary amounts to for an event of p, takeovers included.  An   *)
(* entry of another project is as it was, or is p's from now on.  A row that *)
(* is not p's is written only as the row of an entity that is p's or becomes *)
(* it, and is then in its own project still or in p: no event moves a row    *)
(* into a third project, or reaches one whose entity is not in the event.  A *)
(* row that an event makes is p's; the target of an alias keeps the project  *)
(* its projection was stored with (apply.ts, upsert-apply.ts).               *)
EntriesStayOrMove(p) ==
  \A e \in Entity : Mapped(store, e) /\ Emap[e].project # p => Emap'[e] = Emap[e] \/ TakenOver(e, p)

OtherRowsAreReached(p) ==
  \A r \in RowId : Present(store, r) /\ Mem[r].project # p /\ Mem'[r] # Mem[r] =>
    /\ \E e \in Entity : IsBound(store, e) /\ Emap[e].row = r /\ (Emap[e].project = p \/ TakenOver(e, p))
    /\ Present(store', r) => Mem'[r].project \in {Mem[r].project, p}

RowsAreMade(p) ==
  \A r \in RowId : ~Present(store, r) /\ Present(store', r) =>
    \/ Mem'[r].project = p
    \/ \E e \in Entity : Mapped(store, e) /\ Emap[e].project = p /\ Emap[e].state = "shadow"
                          /\ Mem'[r].project = Emap[e].inert.project

RowsOfPStay(p) ==
  \A r \in RowId : Present(store, r) /\ Mem[r].project = p /\ Present(store', r) => Mem'[r].project = p

ProjectBoundary ==
  [][\A p \in Project : cursor'[p] # cursor[p] =>
       EntriesStayOrMove(p) /\ OtherRowsAreReached(p) /\ RowsAreMade(p) /\ RowsOfPStay(p)]_vars

(* "merge provenance" (T6): the contributors of a bound entity that is       *)
(* aliased are contributors of its target afterwards.  (Of a shadowed source *)
(* only the projection is merged: its snapshot goes with its entry.)         *)
BoundProvenanceInherited ==
  [][\A e \in Entity :
       IsBound(store, e) /\ ~Mapped(store', e) /\ store'.aliases[e] # store.aliases[e] =>
         store.contrib[e] \subseteq store'.contrib[store'.aliases[e]]]_vars

(* What an agent or a user still has to send of its own outlives every event *)
(* but an alias: bytes and status of the rows, and their trust.              *)
PendingIntentSurvives == LocalIntentSurvives /\ PendingTrustSurvives

(* An entry moves forward only, and what it binds is what the reader sees.   *)
EntriesAreEarned == VersionsAdvance /\ BindingsAreVisible

(* Of what a replica holds of the team nothing goes silently: associations,  *)
(* the content of alias targets, provenance, sets and their resolutions.     *)
NothingVanishes ==
  NoVanish /\ AliasTargetsMaterialise /\ BoundProvenanceInherited /\ ResolutionIsFinal
=============================================================================
