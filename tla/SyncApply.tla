------------------------------ MODULE SyncApply ------------------------------
(***************************************************************************)
(* The replica's apply engine: what one inbound sync event does to the     *)
(* tables of the local store.  A store is the record of the tables the     *)
(* engine reads and writes; every handler maps a store (and the journal,   *)
(* which it only reads) to the SET of stores its transaction may commit.   *)
(* The empty set is a thrown ApplyValidationError or ProtocolInvariantError: *)
(* the transaction rolls back and the event is not consumed.               *)
(*                                                                         *)
(* Data: a row's projected fields (kind, content, tags, context, anchor)   *)
(* are one value of Text, its volatile fields (confidence, source,         *)
(* fingerprint, expiry) one value of Vol.  Clean is P's neutralise-and-    *)
(* scrub: what is stored and hashed of an inbound payload.  A hash is the  *)
(* tuple or record of the bytes hashed.                                    *)
(***************************************************************************)
EXTENDS Naturals, Sequences, FiniteSets, FiniteSetsExt

CONSTANTS
  RowId,       \* memory ids, ordered (exact matches break ties by lowest id)
  Project, Global,   \* project ids, and the NULL project of global rows
  Entity,      \* server-minted entity ids
  Text, Vol,
  Account,     \* contributor account ids
  ServerSet,   \* conflict-set ids minted by the server
  Clean,       \* [Text -> Text], the projection's cleaning
  Nil          \* an absent row, entry, set, hash or alias

ASSUME DataAssumption ==
  /\ RowId \subseteq Nat
  /\ Clean \in [Text -> Text]
  /\ \A x \in Text : Clean[Clean[x]] = Clean[x]
  /\ Global \notin Project

Status == {"active", "invalidated", "superseded"}

RowType ==
  [project: Project \cup {Global}, text: Text, vol: Vol, status: Status,
   optedOut: BOOLEAN,   \* share_state = 'local'
   author: BOOLEAN]     \* author stamped: renders as team content

Hash(p, x) == <<p, x>>
HashType == (Project \cup {Global}) \X Text

\* canonical_content_hash: of the whole payload, id and volatile fields included.
CanonicalType == [id: RowId, project: Project, text: Text, vol: Vol]
InertType == [project: Project, text: Text, vol: Vol]

EntryType ==
  [row: RowId, project: Project, state: {"bound", "shadow"}, version: Nat,
   ch: CanonicalType, ph: HashType, inert: InertType \cup {Nil},
   contributors: SUBSET Account]

\* deterministicConflictSetId: both replicas of a pair mint the same id.
MintedSet == {S \in SUBSET Entity : \E e, f \in S : e # f /\ S = {e, f}}
SetName == ServerSet \cup MintedSet
ConflictSetType == [project: Project, members: SUBSET Entity, resolved: Nat]

StoreType ==
  [mem: [RowId -> RowType \cup {Nil}],
   emap: [Entity -> EntryType \cup {Nil}],
   contrib: [Entity -> SUBSET Account],
   aliases: [Entity -> Entity \cup {Nil}],
   csets: [SetName -> ConflictSetType \cup {Nil}],
   notices: SUBSET RowId,
   used: SUBSET RowId]   \* every id ever inserted: generateId never repeats one

ASSUME NilAssumption ==
  Nil \notin RowType \cup EntryType \cup ConflictSetType \cup HashType \cup Entity

EmptyStore ==
  [mem |-> [r \in RowId |-> Nil], emap |-> [e \in Entity |-> Nil],
   contrib |-> [e \in Entity |-> {}], aliases |-> [e \in Entity |-> Nil],
   csets |-> [n \in SetName |-> Nil], notices |-> {}, used |-> {}]

-----------------------------------------------------------------------------
(* Reading the store: projection.ts and entity-map.ts.                       *)

Present(s, r) == s.mem[r] # Nil
Mapped(s, e) == s.emap[e] # Nil
IsBound(s, e) == Mapped(s, e) /\ s.emap[e].state = "bound"
AssociatedTo(s, r) == {e \in Entity : Mapped(s, e) /\ s.emap[e].row = r}
IsRowSyncBound(s, r) == \E e \in AssociatedTo(s, r) : IsBound(s, e)

\* projectionHashOfRow: the row as stored, null when absent.
RowHash(s, r) ==
  IF Present(s, r) THEN Hash(s.mem[r].project, s.mem[r].text) ELSE Nil

IsLocallyRetracted(s, r) == Present(s, r) /\ s.mem[r].status # "active"
IsRowOptedOut(s, r) == Present(s, r) /\ s.mem[r].optedOut

HasEntry(j, r, classes) == \E i \in DOMAIN j : j[i].row = r /\ j[i].class \in classes

\* The fork predicate: evidence that the row carries work not yet pushed.
HasUnpushedLocalIntent(s, j, r, ph) ==
  \/ RowHash(s, r) # ph
  \/ IsLocallyRetracted(s, r)
  \/ IsRowOptedOut(s, r)
  \/ HasEntry(j, r, {"pending", "deferred"})

\* Fault: an enqueued push taken for an acknowledged one.
HasUnsentVolatileIntent(j, r) == HasEntry(j, r, {"pending", "deferred"})

\* The erase-protection predicate: an enqueued push is not yet acknowledged.
HasPendingVolatileIntent(j, r) == HasEntry(j, r, {"pending", "deferred", "enqueued"})

-----------------------------------------------------------------------------
(* Writing the store.                                                        *)

\* buildInertProjection: the row an inbound payload is stored as.
Incoming(p, ev) ==
  [project |-> p, text |-> Clean[ev.text], vol |-> ev.vol, status |-> "active",
   optedOut |-> FALSE, author |-> TRUE]

CanonicalHash(p, ev) == [id |-> ev.id, project |-> p, text |-> ev.text, vol |-> ev.vol]

InsertProjectedRow(s, id, row) == [s EXCEPT !.mem[id] = row, !.used = @ \cup {id}]

InsertIfAbsent(s, id, row) == IF Present(s, id) THEN s ELSE InsertProjectedRow(s, id, row)

StampAuthor(s, id) == [s EXCEPT !.mem[id].author = TRUE]

FreshIds(s) == RowId \ s.used

CloseEntry(s, e) == [s EXCEPT !.emap[e] = Nil]

MergeContributors(s, e, accounts) == [s EXCEPT !.contrib[e] = @ \cup accounts]

BoundEntry(s, r, p, version, ch) ==
  [row |-> r, project |-> p, state |-> "bound", version |-> version, ch |-> ch,
   ph |-> RowHash(s, r), inert |-> Nil, contributors |-> {}]

\* assertNoForeignAssociation
NoForeignAssociation(s, r, e) == AssociatedTo(s, r) \subseteq {e}

\* Fault: the guard dropped, the two associations share the row.
BindSharing(s, e, r, p, version, ch) ==
  {[s EXCEPT !.emap[e] = BoundEntry(s, r, p, version, ch)]}

BindEntity(s, e, r, p, version, ch) ==
  IF NoForeignAssociation(s, r, e)
    THEN {[s EXCEPT !.emap[e] = BoundEntry(s, r, p, version, ch)]}
    ELSE {}

\* The tail every materialising row of the transition table shares.
BindUpsert(s, p, ev, r) ==
  {MergeContributors(t, ev.entity, ev.contributors) :
     t \in BindEntity(s, ev.entity, r, p, ev.version, CanonicalHash(p, ev))}

WriteShadowAssoc(s, p, ev, r) ==
  IF NoForeignAssociation(s, r, ev.entity)
    THEN {[s EXCEPT !.emap[ev.entity] =
             [row |-> r, project |-> p, state |-> "shadow", version |-> ev.version,
              ch |-> CanonicalHash(p, ev), ph |-> Hash(p, Clean[ev.text]),
              inert |-> [project |-> p, text |-> Clean[ev.text], vol |-> ev.vol],
              contributors |-> ev.contributors]]}
    ELSE {}

OpenConflictSet(s, name, p, members) ==
  IF s.csets[name] = Nil
    THEN [s EXCEPT !.csets[name] = [project |-> p, members |-> members, resolved |-> 0]]
    ELSE s

\* The forked row becomes local-only, with a durable fork notice (also when
\* the row itself is already gone).
ForkLocal(s, r) ==
  [s EXCEPT !.mem[r] = IF Present(s, r) THEN [s.mem[r] EXCEPT !.optedOut = TRUE] ELSE Nil,
            !.notices = @ \cup {r}]

-----------------------------------------------------------------------------
(* applyUpsert: rows S8, T2, T3 for an entity already mapped.                *)

RefreshShadow(s, p, ev, r) == WriteShadowAssoc(s, p, ev, r)

\* S8: the edit diverged from the opted-out row, so it becomes its own row.
MaterialiseShadow(s, p, ev) ==
  UNION {BindUpsert(CloseEntry(InsertProjectedRow(s, f, Incoming(p, ev)), ev.entity), p, ev, f) :
           f \in FreshIds(s)}

\* T2: the bytes are replaced, the volatile fields only when none is pending.
\* The project column is not written.
CleanUpdate(s, j, p, ev, r) ==
  LET vol == IF HasPendingVolatileIntent(j, r) THEN s.mem[r].vol ELSE ev.vol
  IN  BindUpsert([s EXCEPT !.mem[r].text = Clean[ev.text], !.mem[r].vol = vol], p, ev, r)

\* T3: the edit materialises as a new row and takes the binding; the local
\* row is kept, local-only.
Fork(s, p, ev, r) ==
  UNION {BindUpsert(ForkLocal(InsertProjectedRow(s, f, Incoming(p, ev)), r), p, ev, f) :
           f \in FreshIds(s)}

\* Fault: byte equality outranks a pending retraction.
IsEchoByBytes(s, r, ph) == RowHash(s, r) = ph

\* The incoming bytes are the row's own push coming back.
IsEcho(s, r, ph) ==
  /\ ~IsLocallyRetracted(s, r)
  /\ ~IsRowOptedOut(s, r)
  /\ RowHash(s, r) = ph

UpsertMapped(s, j, p, ev) ==
  LET entry == s.emap[ev.entity]
      r  == entry.row
      ph == Hash(p, Clean[ev.text])
      news == ev.version > entry.version
  IN  CASE ~news -> {s}
        [] news /\ entry.state = "shadow" /\ RowHash(s, r) = ph -> RefreshShadow(s, p, ev, r)
        [] news /\ entry.state = "shadow" /\ RowHash(s, r) # ph -> MaterialiseShadow(s, p, ev)
        [] news /\ entry.state = "bound" /\ ~IsEcho(s, r, ph)
             /\ HasUnpushedLocalIntent(s, j, r, entry.ph) -> Fork(s, p, ev, r)
        [] OTHER -> CleanUpdate(s, j, p, ev, r)

-----------------------------------------------------------------------------
(* applyUpsert: rows T1, T4, T5, T8a, T8b for an entity not mapped.          *)

\* Fault: only the id is compared.
RebindById(s, id, ph) == TRUE

\* assertRebindLegal: an existing row is reused only if it provably is the
\* same one: same project and bytes, still active.
RebindLegal(s, id, ph) ==
  Present(s, id) => RowHash(s, id) = ph /\ s.mem[id].status = "active"

\* selectExactMatch: bound to another entity, else opted out, else unbound; a
\* row carrying a shadow association is excluded; lowest id within a class.
SelectExactMatch(s, ph) ==
  LET same == {r \in RowId : Present(s, r) /\ s.mem[r].status = "active" /\ RowHash(s, r) = ph}
      bound == {r \in same : IsRowSyncBound(s, r)}
      free == {r \in same : AssociatedTo(s, r) = {}}
      optedOut == {r \in free : s.mem[r].optedOut}
  IN  CASE bound # {} -> Min(bound)
        [] bound = {} /\ optedOut # {} -> Min(optedOut)
        [] bound = {} /\ optedOut = {} /\ free # {} -> Min(free)
        [] OTHER -> Nil

\* T1, or a rebind after a lost map entry: the adopted row is stamped.
ApplyFresh(s, p, ev) ==
  IF Present(s, ev.id)
    THEN BindUpsert(StampAuthor(s, ev.id), p, ev, ev.id)
    ELSE BindUpsert(InsertProjectedRow(s, ev.id, Incoming(p, ev)), p, ev, ev.id)

\* T8b: equal projection, distinct canonicals: both stay, with a near-dup set.
Coexist(s, p, ev, f) ==
  {OpenConflictSet(t, {ev.entity, f}, p, {ev.entity, f}) :
     t \in BindUpsert(InsertIfAbsent(s, ev.id, Incoming(p, ev)), p, ev, ev.id)}

\* T5: an offline twin is inserted beside the unbound match; the match itself
\* is adopted when it is the incoming row.
ApplyTwin(s, p, ev, match) ==
  IF match = ev.id
    THEN BindUpsert(StampAuthor(s, ev.id), p, ev, ev.id)
    ELSE BindUpsert(InsertIfAbsent(s, ev.id, Incoming(p, ev)), p, ev, ev.id)

UpsertUnmapped(s, p, ev) ==
  LET ph == Hash(p, Clean[ev.text])
      match == SelectExactMatch(s, ph)
      boundTo == IF match = Nil THEN {} ELSE {e \in AssociatedTo(s, match) : IsBound(s, e)}
      legal == RebindLegal(s, ev.id, ph)
  IN  CASE match = Nil -> IF legal THEN ApplyFresh(s, p, ev) ELSE {}
        [] boundTo # {} ->
             UNION {IF s.emap[f].ch # CanonicalHash(p, ev) /\ legal    \* else T8a: halt
                      THEN Coexist(s, p, ev, f) ELSE {} : f \in boundTo}
        [] match # Nil /\ boundTo = {} /\ s.mem[match].optedOut -> WriteShadowAssoc(s, p, ev, match)
        [] OTHER -> IF match = ev.id \/ legal THEN ApplyTwin(s, p, ev, match) ELSE {}

ApplyUpsert(s, j, p, ev) ==
  IF Mapped(s, ev.entity) THEN UpsertMapped(s, j, p, ev) ELSE UpsertUnmapped(s, p, ev)

-----------------------------------------------------------------------------
(* applyTombstone, applyAlias, conflict sets.                                *)

IsPreserved(s, j, e) ==
  /\ Present(s, s.emap[e].row)
  /\ HasUnpushedLocalIntent(s, j, s.emap[e].row, s.emap[e].ph)

\* The entries of T close.  A shadow association leaves its row alone, a row
\* with unpushed local intent is fork-preserved (S9), a clean row goes (S5).
Retire(s, j, T) ==
  LET bound == {e \in T : IsBound(s, e)}
      kept  == {s.emap[e].row : e \in {x \in bound : IsPreserved(s, j, x)}}
      gone  == {s.emap[e].row : e \in bound} \ kept
  IN  [s EXCEPT
         !.mem = [r \in RowId |->
                    CASE r \in gone -> Nil
                      [] r \in kept -> [s.mem[r] EXCEPT !.optedOut = TRUE]
                      [] OTHER -> s.mem[r]],
         !.notices = @ \cup kept,
         !.emap = [e \in Entity |-> IF e \in T THEN Nil ELSE s.emap[e]]]

\* Fault: the entry's project is not compared with the batch's.
ApplyTombstoneAnywhere(s, j, p, e, version) ==
  IF Mapped(s, e) /\ version > s.emap[e].version THEN {Retire(s, j, {e})} ELSE {s}

ApplyTombstone(s, j, p, e, version) ==
  CASE ~Mapped(s, e) -> {s}
    [] Mapped(s, e) /\ s.emap[e].project # p -> {}
    [] Mapped(s, e) /\ s.emap[e].project = p /\ version <= s.emap[e].version -> {s}
    [] OTHER -> {Retire(s, j, {e})}

InheritProvenance(s, from, to) == MergeContributors(s, to, s.contrib[from])

RecordAlias(s, from, to) ==
  IF s.aliases[from] = Nil THEN [s EXCEPT !.aliases[from] = to] ELSE s

DeleteBoundRow(s, e) == IF IsBound(s, e) THEN [s EXCEPT !.mem[s.emap[e].row] = Nil] ELSE s

\* The alias target has only its inert projection: it becomes a row of its own,
\* and the snapshot of its contributors becomes part of its provenance.
MaterialiseInert(s, p, e) ==
  LET entry == s.emap[e]
      row == [project |-> entry.inert.project, text |-> entry.inert.text,
              vol |-> entry.inert.vol, status |-> "active", optedOut |-> FALSE,
              author |-> TRUE]
  IN  UNION {{MergeContributors(t, e, entry.contributors) :
                t \in BindEntity(CloseEntry(InsertProjectedRow(s, f, row), e),
                                 e, f, p, entry.version, entry.ch)} :
               f \in FreshIds(s)}

\* Fault: the target stays shadowed, its content never materialises.
AliasTargetAsIs(s, p, e) == {s}

AliasTarget(s, p, e) ==
  IF s.emap[e].state = "shadow" THEN MaterialiseInert(s, p, e) ELSE {s}

ApplyAlias(s, p, from, to, version) ==
  LET logged == RecordAlias(s, from, to)
      legal == /\ s.emap[from].project = p
               /\ Mapped(s, to)
               /\ s.emap[to].project = p
               /\ s.emap[to].state = "shadow" => s.emap[to].inert # Nil
  IN  CASE Mapped(s, from) /\ version < s.emap[from].version -> {s}
        [] ~Mapped(s, from) -> {logged}
        [] Mapped(s, from) /\ version >= s.emap[from].version /\ legal ->
             {InheritProvenance(t, from, to) :
                t \in AliasTarget(CloseEntry(DeleteBoundRow(logged, from), from), p, to)}
        [] OTHER -> {}

\* Set ids are not compared with their reason: a mismatch is refused like a
\* different member list.
ApplyConflictOpen(s, p, name, members) ==
  CASE \E m \in members : ~Mapped(s, m) \/ s.emap[m].project # p -> {}
    [] s.csets[name] # Nil /\ (s.csets[name].project # p \/ s.csets[name].members # members) -> {}
    [] OTHER -> {OpenConflictSet(s, name, p, members)}

IsResolved(s, name) == s.csets[name].resolved # 0

\* Tombstones before the upsert, one transaction, one resolution per set.
ApplyResolveCommit(s, j, p, seq, name, tombstoned, ev) ==
  LET set == s.csets[name]
      known == {e \in tombstoned \ {ev.entity} : Mapped(s, e)}
      legal == /\ tombstoned \subseteq set.members
               /\ ev.entity \in set.members \/ ~Mapped(s, ev.entity)
               /\ \A e \in known : s.emap[e].project = p
  IN  CASE set = Nil -> {}
        [] set # Nil /\ set.project # p -> {}
        [] set # Nil /\ set.project = p /\ IsResolved(s, name) ->
             IF set.resolved = seq THEN {s} ELSE {}
        [] set # Nil /\ set.project = p /\ ~IsResolved(s, name) /\ legal ->
             {[MergeContributors(t, ev.entity, ev.contributors)
                 EXCEPT !.csets[name].resolved = seq] :
                t \in ApplyUpsert(Retire(s, j, known), j, p, ev)}
        [] OTHER -> {}
=============================================================================
