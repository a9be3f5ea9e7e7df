---------------------------- MODULE ReplicaProofs ----------------------------
(***************************************************************************)
(* Theorems about one replica, for every set of rows, projects, entities   *)
(* and payloads, and every bound.                                          *)
(***************************************************************************)
EXTENDS Replica, FiniteSetTheorems, TLAPS

-----------------------------------------------------------------------------
(* What the proofs say of a store, and of what a transaction does to one.    *)

\* A row that exists has been inserted: its id is never handed out again.
UsedRows(s) ==
  /\ IsFiniteSet(s.used)
  /\ \A r \in RowId : Present(s, r) => r \in s.used

OnePerRow(s) ==
  \A e, f \in Entity :
    Mapped(s, e) /\ Mapped(s, f) /\ s.emap[e].row = s.emap[f].row => e = f

\* The hash an entry records, and the row it can still become, are those of
\* its canonical payload.
CanonicalEntry(entry) ==
  /\ \E q \in Project : entry.ph = Hash(q, Clean[entry.ch.text])
  /\ entry.inert # Nil => entry.inert.text = Clean[entry.ch.text]

Canonical(s) == \A e \in Entity : Mapped(s, e) => CanonicalEntry(s.emap[e])

Sound(s) == s \in StoreType /\ UsedRows(s) /\ OnePerRow(s) /\ Canonical(s)

EventTyped(ev) ==
  /\ ev.entity \in Entity /\ ev.version \in Nat /\ ev.id \in RowId
  /\ ev.text \in Text /\ ev.vol \in Vol /\ ev.contributors \in SUBSET Account

\* Aliases stay, sets that exist stay, provenance grows.
Frame(s, t) ==
  /\ t.aliases = s.aliases
  /\ \A n \in SetName : s.csets[n] # Nil => t.csets[n] = s.csets[n]
  /\ \A f \in Entity : s.contrib[f] \subseteq t.contrib[f]

\* The other entities keep their entries and the rows these hold.
OthersKept(s, t, E) ==
  \A f \in Entity \ E :
    t.emap[f] = s.emap[f] /\ (Mapped(s, f) => t.mem[s.emap[f].row] = s.mem[s.emap[f].row])

\* A binding of e that is what the reader sees.
Visible(t, e) ==
  IsBound(t, e) =>
    /\ Present(t, t.emap[e].row)
    /\ t.mem[t.emap[e].row].status = "active"
    /\ RowHash(t, t.emap[e].row) = t.emap[e].ph

-----------------------------------------------------------------------------
(* A set of numbers that is not empty has a least one: of the initial        *)
(* segments below its elements one is minimal, strict inclusion being        *)
(* well-founded on finite sets.                                              *)

LEMMA LeastNumber ==
  ASSUME NEW S \in SUBSET Nat, S # {}
  PROVE  \E x \in S : \A y \in S : x =< y
<1> DEFINE T == {1 .. x : x \in S}
           R == StrictSubsetOrdering(Nat)
<1>1. IsWellFoundedOn(R, FiniteSubsetsOf(Nat))
  BY FS_StrictSubsetOrderingWellFounded
<1>2. \A x \in S : 1 .. x \in FiniteSubsetsOf(Nat)
  BY FS_Interval DEF FiniteSubsetsOf
<1>3. T \subseteq FiniteSubsetsOf(Nat) /\ T # {}
  BY <1>2
<1> HIDE DEF R
<1>4. PICK t \in T : \A u \in T : <<u, t>> \notin R
  BY <1>1, <1>3, WFMin
<1>5. PICK x \in S : t = 1 .. x
  OBVIOUS
<1>6. ASSUME NEW y \in S, y < x
      PROVE  <<1 .. y, 1 .. x>> \in R
  <2>1. 1 .. y \subseteq 1 .. x /\ x \in 1 .. x /\ x \notin 1 .. y
    BY <1>6
  <2>2. 1 .. y \in SUBSET Nat /\ 1 .. x \in SUBSET Nat
    OBVIOUS
  <2> QED  BY <2>1, <2>2 DEF R, StrictSubsetOrdering
<1>7. \A y \in S : ~(y < x)
  BY <1>4, <1>5, <1>6
<1> QED  BY <1>7

LEMMA LeastId ==
  ASSUME NEW S \in SUBSET RowId, S # {}
  PROVE  Min(S) \in S
BY LeastNumber, DataAssumption DEF Min

-----------------------------------------------------------------------------
(* Elements of the types are not Nil, and what is not Nil is an element.     *)

LEMMA NilApart ==
  /\ \A row \in RowType : row # Nil
  /\ \A entry \in EntryType : entry # Nil
  /\ \A set \in ConflictSetType : set # Nil
  /\ \A h \in HashType : h # Nil
  /\ \A e \in Entity : e # Nil
BY NilAssumption

LEMMA RowPresent ==
  ASSUME NEW s, Sound(s), NEW r \in RowId, Present(s, r)
  PROVE  /\ s.mem[r] \in RowType /\ r \in s.used
         /\ RowHash(s, r) = Hash(s.mem[r].project, s.mem[r].text)
         /\ RowHash(s, r) \in HashType
<1>1. s.mem[r] \in RowType /\ r \in s.used
  BY DEF Sound, StoreType, Present, UsedRows
<1>2. RowHash(s, r) = Hash(s.mem[r].project, s.mem[r].text)
  BY DEF RowHash
<1> QED  BY <1>1, <1>2 DEF RowType, Hash, HashType

LEMMA EntryMapped ==
  ASSUME NEW s, Sound(s), NEW e \in Entity, Mapped(s, e)
  PROVE  s.emap[e] \in EntryType /\ s.emap[e].row \in RowId
<1>1. s.emap[e] \in EntryType
  BY DEF Sound, StoreType, Mapped
<1> QED  BY <1>1 DEF EntryType

\* The fields of a row that say what it means.
SameMeaning(a, b) ==
  a.project = b.project /\ a.text = b.text /\ a.vol = b.vol /\ a.status = b.status

\* A field of a row is set.
LEMMA RowFields ==
  ASSUME NEW row \in RowType
  PROVE  /\ [row EXCEPT !.author = TRUE] \in RowType
         /\ SameMeaning([row EXCEPT !.author = TRUE], row)
         /\ [row EXCEPT !.optedOut = TRUE] \in RowType
         /\ SameMeaning([row EXCEPT !.optedOut = TRUE], row)
         /\ \A x \in Text, v \in Vol : [row EXCEPT !.text = x, !.vol = v] \in RowType
         /\ \A st \in Status : [row EXCEPT !.status = st] \in RowType
         /\ \A p \in Project \cup {Global} : [row EXCEPT !.project = p] \in RowType
BY DEF RowType, SameMeaning

-----------------------------------------------------------------------------
(* The writers of the store, field by field.                                 *)

LEMMA InsertFields ==
  ASSUME NEW s, Sound(s), NEW id \in RowId, NEW row \in RowType
  PROVE  LET t == InsertProjectedRow(s, id, row) IN
         /\ Sound(t)
         /\ t.mem = [s.mem EXCEPT ![id] = row]
         /\ t.used = s.used \cup {id} /\ t.emap = s.emap /\ t.contrib = s.contrib
         /\ t.aliases = s.aliases /\ t.csets = s.csets
<1>1. IsFiniteSet(s.used \cup {id})
  BY FS_AddElement DEF Sound, UsedRows
<1> QED  BY <1>1 DEF Sound, StoreType, InsertProjectedRow, UsedRows, OnePerRow, Canonical, Present, Mapped

LEMMA StampFields ==
  ASSUME NEW s, Sound(s), NEW id \in RowId, Present(s, id)
  PROVE  LET t == StampAuthor(s, id) IN
         /\ Sound(t)
         /\ t.mem = [s.mem EXCEPT ![id] = [s.mem[id] EXCEPT !.author = TRUE]]
         /\ t.used = s.used /\ t.emap = s.emap /\ t.contrib = s.contrib
         /\ t.aliases = s.aliases /\ t.csets = s.csets
<1>1. s.mem[id] \in RowType /\ [s.mem[id] EXCEPT !.author = TRUE] \in RowType
  BY RowPresent, RowFields
<1> QED  BY <1>1 DEF Sound, StoreType, StampAuthor, UsedRows, OnePerRow, Canonical, Present, Mapped

LEMMA ForkFields ==
  ASSUME NEW s, Sound(s), NEW r \in RowId
  PROVE  LET t == ForkLocal(s, r) IN
         /\ Sound(t)
         /\ \A q \in RowId \ {r} : t.mem[q] = s.mem[q]
         /\ Present(s, r) => t.mem[r] = [s.mem[r] EXCEPT !.optedOut = TRUE]
         /\ ~Present(s, r) => t.mem[r] = s.mem[r]
         /\ t.used = s.used /\ t.emap = s.emap /\ t.contrib = s.contrib
         /\ t.aliases = s.aliases /\ t.csets = s.csets
<1> DEFINE new == IF Present(s, r) THEN [s.mem[r] EXCEPT !.optedOut = TRUE] ELSE Nil
<1>1. new \in RowType \cup {Nil} /\ (new # Nil => Present(s, r))
  BY RowPresent, RowFields
<1> HIDE DEF new
<1> DEFINE t == ForkLocal(s, r)
<1>2. t = [s EXCEPT !.mem[r] = new, !.notices = @ \cup {r}]
  BY DEF ForkLocal, new
<1> HIDE DEF t
<1>3. /\ t \in StoreType
      /\ t.mem = [s.mem EXCEPT ![r] = new]
      /\ t.used = s.used /\ t.emap = s.emap /\ t.contrib = s.contrib
      /\ t.aliases = s.aliases /\ t.csets = s.csets
  BY <1>1, <1>2 DEF Sound, StoreType
<1>6. UsedRows(t) /\ OnePerRow(t) /\ Canonical(t)
  BY <1>1, <1>3 DEF Sound, StoreType, UsedRows, OnePerRow, Canonical, Present, Mapped
<1>4. Present(s, r) => new = [s.mem[r] EXCEPT !.optedOut = TRUE]
  BY DEF new
<1>5. ~Present(s, r) => new = s.mem[r]
  BY DEF new, Present
<1> QED  BY <1>3, <1>4, <1>5, <1>6 DEF Sound, StoreType, t

LEMMA CloseFields ==
  ASSUME NEW s, Sound(s), NEW e \in Entity
  PROVE  LET t == CloseEntry(s, e) IN
         /\ Sound(t)
         /\ t.emap = [s.emap EXCEPT ![e] = Nil]
         /\ t.mem = s.mem /\ t.used = s.used /\ t.contrib = s.contrib
         /\ t.aliases = s.aliases /\ t.csets = s.csets
BY DEF Sound, StoreType, CloseEntry, UsedRows, OnePerRow, Canonical, Present, Mapped

LEMMA MergeFields ==
  ASSUME NEW s, Sound(s), NEW e \in Entity, NEW accounts \in SUBSET Account
  PROVE  LET t == MergeContributors(s, e, accounts) IN
         /\ Sound(t)
         /\ t.contrib = [s.contrib EXCEPT ![e] = @ \cup accounts]
         /\ t.mem = s.mem /\ t.used = s.used /\ t.emap = s.emap
         /\ t.aliases = s.aliases /\ t.csets = s.csets
BY DEF Sound, StoreType, MergeContributors, UsedRows, OnePerRow, Canonical, Present, Mapped

\* An entry that is written for a row no other entity is associated with.
LEMMA EntryFields ==
  ASSUME NEW s, Sound(s), NEW e \in Entity, NEW r \in RowId, NEW entry \in EntryType,
         entry.row = r, CanonicalEntry(entry), NoForeignAssociation(s, r, e)
  PROVE  LET t == [s EXCEPT !.emap[e] = entry] IN
         /\ Sound(t)
         /\ t.emap = [s.emap EXCEPT ![e] = entry]
         /\ t.mem = s.mem /\ t.used = s.used /\ t.contrib = s.contrib
         /\ t.aliases = s.aliases /\ t.csets = s.csets
         /\ \A f \in Entity \ {e} : Mapped(s, f) => s.emap[f].row # r
<1> DEFINE t == [s EXCEPT !.emap[e] = entry]
<1>1. \A f \in Entity \ {e} : Mapped(s, f) => s.emap[f].row # r
  BY DEF NoForeignAssociation, AssociatedTo
<1>2. /\ t \in StoreType
      /\ t.emap = [s.emap EXCEPT ![e] = entry]
      /\ t.mem = s.mem /\ t.used = s.used /\ t.contrib = s.contrib
      /\ t.aliases = s.aliases /\ t.csets = s.csets
  BY DEF Sound, StoreType
<1> HIDE DEF t
<1>3. UsedRows(t)
  BY <1>2 DEF Sound, UsedRows, Present
<1>4. OnePerRow(t)
  BY <1>1, <1>2 DEF Sound, OnePerRow, Mapped, StoreType
<1>5. Canonical(t)
  BY <1>2 DEF Sound, Canonical, Mapped, StoreType
<1> QED  BY <1>1, <1>2, <1>3, <1>4, <1>5 DEF Sound, t

\* What a binding of e to the active row r leaves, whoever makes it.
BoundTo(s, t, e, r, p, version, ch) ==
  /\ \A f \in Entity \ {e} : t.emap[f] = s.emap[f] /\ (Mapped(s, f) => s.emap[f].row # r)
  /\ IsBound(t, e) /\ t.emap[e].row = r /\ t.emap[e].project = p
  /\ t.emap[e].version = version /\ t.emap[e].ch = ch
  /\ t.emap[e].ph = RowHash(s, r)
  /\ Visible(t, e)

LEMMA BindFields ==
  ASSUME NEW s, Sound(s), NEW e \in Entity, NEW r \in RowId, NEW p \in Project,
         NEW version \in Nat, NEW ch \in CanonicalType,
         Present(s, r), s.mem[r].status = "active",
         s.mem[r].project \in Project, s.mem[r].text = Clean[ch.text],
         NEW t \in BindEntity(s, e, r, p, version, ch)
  PROVE  /\ Sound(t)
         /\ t.mem = s.mem /\ t.used = s.used /\ t.contrib = s.contrib
         /\ t.aliases = s.aliases /\ t.csets = s.csets
         /\ BoundTo(s, t, e, r, p, version, ch)
<1> DEFINE entry == BoundEntry(s, r, p, version, ch)
<1>1. entry \in EntryType
  BY RowPresent DEF BoundEntry, EntryType
<1>2. /\ entry.row = r /\ entry.project = p /\ entry.state = "bound"
      /\ entry.version = version /\ entry.ch = ch /\ entry.ph = RowHash(s, r)
      /\ entry.inert = Nil
  BY DEF BoundEntry
<1>8. CanonicalEntry(entry)
  BY <1>2, RowPresent DEF CanonicalEntry
<1>3. NoForeignAssociation(s, r, e) /\ t = [s EXCEPT !.emap[e] = entry]
  BY DEF BindEntity
<1> HIDE DEF entry
<1>4. /\ Sound(t)
      /\ t.emap = [s.emap EXCEPT ![e] = entry]
      /\ t.mem = s.mem /\ t.used = s.used /\ t.contrib = s.contrib
      /\ t.aliases = s.aliases /\ t.csets = s.csets
      /\ \A f \in Entity \ {e} : Mapped(s, f) => s.emap[f].row # r
  BY <1>1, <1>2, <1>3, <1>8, EntryFields
<1>5. t.emap[e] = entry /\ \A f \in Entity \ {e} : t.emap[f] = s.emap[f]
  BY <1>4 DEF Sound, StoreType
<1>6. IsBound(t, e)
  BY <1>1, <1>2, <1>5, NilApart DEF IsBound, Mapped
<1>7. Visible(t, e)
  BY <1>2, <1>4, <1>5 DEF Visible, Present, RowHash
<1> QED  BY <1>2, <1>4, <1>5, <1>6, <1>7 DEF BoundTo

LEMMA UpsertFields ==
  ASSUME NEW s, Sound(s), NEW p \in Project, NEW ev, EventTyped(ev), NEW r \in RowId,
         Present(s, r), s.mem[r].status = "active",
         s.mem[r].project \in Project, s.mem[r].text = Clean[ev.text],
         NEW t \in BindUpsert(s, p, ev, r)
  PROVE  /\ Sound(t)
         /\ t.mem = s.mem /\ t.used = s.used /\ t.aliases = s.aliases /\ t.csets = s.csets
         /\ \A f \in Entity : s.contrib[f] \subseteq t.contrib[f]
         /\ BoundTo(s, t, ev.entity, r, p, ev.version, CanonicalHash(p, ev))
<1>1. CanonicalHash(p, ev) \in CanonicalType /\ CanonicalHash(p, ev).text = ev.text
  BY DEF CanonicalHash, CanonicalType, EventTyped
<1>2. PICK u \in BindEntity(s, ev.entity, r, p, ev.version, CanonicalHash(p, ev)) :
        t = MergeContributors(u, ev.entity, ev.contributors)
  BY DEF BindUpsert
<1>3. /\ Sound(u)
      /\ u.mem = s.mem /\ u.used = s.used /\ u.contrib = s.contrib
      /\ u.aliases = s.aliases /\ u.csets = s.csets
      /\ BoundTo(s, u, ev.entity, r, p, ev.version, CanonicalHash(p, ev))
  BY <1>1, BindFields DEF EventTyped
<1>4. /\ Sound(t)
      /\ t.contrib = [u.contrib EXCEPT ![ev.entity] = @ \cup ev.contributors]
      /\ t.mem = u.mem /\ t.used = u.used /\ t.emap = u.emap
      /\ t.aliases = u.aliases /\ t.csets = u.csets
  BY <1>2, <1>3, MergeFields DEF EventTyped
<1>5. \A f \in Entity : s.contrib[f] \subseteq t.contrib[f]
  BY <1>3, <1>4 DEF Sound, StoreType
<1>6. BoundTo(s, t, ev.entity, r, p, ev.version, CanonicalHash(p, ev))
  BY <1>3, <1>4 DEF BoundTo, Visible, IsBound, Mapped, Present, RowHash
<1> QED  BY <1>3, <1>4, <1>5, <1>6

LEMMA ShadowFields ==
  ASSUME NEW s, Sound(s), NEW p \in Project, NEW ev, EventTyped(ev), NEW r \in RowId,
         NEW t \in WriteShadowAssoc(s, p, ev, r)
  PROVE  /\ Sound(t)
         /\ t.mem = s.mem /\ t.used = s.used /\ t.contrib = s.contrib
         /\ t.aliases = s.aliases /\ t.csets = s.csets
         /\ \A f \in Entity \ {ev.entity} : t.emap[f] = s.emap[f]
         /\ Mapped(t, ev.entity) /\ ~IsBound(t, ev.entity)
         /\ t.emap[ev.entity].project = p /\ t.emap[ev.entity].version = ev.version
<1> DEFINE entry == [row |-> r, project |-> p, state |-> "shadow", version |-> ev.version,
              ch |-> CanonicalHash(p, ev), ph |-> Hash(p, Clean[ev.text]),
              inert |-> [project |-> p, text |-> Clean[ev.text], vol |-> ev.vol],
              contributors |-> ev.contributors]
<1>0. Clean[ev.text] \in Text
  BY DataAssumption DEF EventTyped
<1>1. entry \in EntryType
  <2>1. CanonicalHash(p, ev) \in CanonicalType
    BY DEF CanonicalHash, CanonicalType, EventTyped
  <2>2. Hash(p, Clean[ev.text]) \in HashType
    BY <1>0 DEF Hash, HashType
  <2>3. [project |-> p, text |-> Clean[ev.text], vol |-> ev.vol] \in InertType
    BY <1>0 DEF InertType, EventTyped
  <2> QED  BY <2>1, <2>2, <2>3 DEF EntryType, EventTyped
<1>2. entry.row = r /\ entry.project = p /\ entry.state = "shadow" /\ entry.version = ev.version
  OBVIOUS
<1>6. CanonicalEntry(entry)
  BY DEF CanonicalEntry, CanonicalHash
<1>3. NoForeignAssociation(s, r, ev.entity) /\ t = [s EXCEPT !.emap[ev.entity] = entry]
  BY DEF WriteShadowAssoc
<1> HIDE DEF entry
<1>4. /\ Sound(t)
      /\ t.emap = [s.emap EXCEPT ![ev.entity] = entry]
      /\ t.mem = s.mem /\ t.used = s.used /\ t.contrib = s.contrib
      /\ t.aliases = s.aliases /\ t.csets = s.csets
  BY <1>1, <1>2, <1>3, <1>6, EntryFields DEF EventTyped
<1>5. t.emap[ev.entity] = entry /\ \A f \in Entity \ {ev.entity} : t.emap[f] = s.emap[f]
  BY <1>4 DEF Sound, StoreType, EventTyped
<1> QED  BY <1>1, <1>2, <1>4, <1>5, NilApart DEF IsBound, Mapped

-----------------------------------------------------------------------------
(* applyUpsert.                                                              *)

\* No row ends or changes its status; bytes are replaced only in the row of e,
\* when nothing there is unpushed, and volatile fields when nothing is pending.
RowsKept(s, j, t, e) ==
  \A r \in RowId : Present(s, r) =>
    /\ Present(t, r) /\ t.mem[r].status = s.mem[r].status
    /\ \/ t.mem[r].text = s.mem[r].text
       \/ /\ e \in Entity /\ IsBound(s, e) /\ r = s.emap[e].row
          /\ ~HasUnpushedLocalIntent(s, j, r, s.emap[e].ph)
    /\ \/ t.mem[r].vol = s.mem[r].vol
       \/ e \in Entity /\ Mapped(s, e) /\ r = s.emap[e].row /\ ~HasPendingVolatileIntent(j, r)

\* A row that is not p's changes only if e holds it, rows stay in their
\* projects, and a row that is made is p's.
RowsReached(s, p, t, e) ==
  \A r \in RowId :
    /\ Present(s, r) =>
         /\ t.mem[r].project = s.mem[r].project
         /\ \/ t.mem[r] = s.mem[r]
            \/ s.mem[r].project = p
            \/ e \in Entity /\ IsBound(s, e) /\ r = s.emap[e].row
    /\ ~Present(s, r) /\ Present(t, r) => t.mem[r].project = p

\* The entry of e is that of a newer event.
Lands(s, t, p, ev) ==
  /\ Mapped(t, ev.entity) /\ Visible(t, ev.entity)
  /\ t.emap[ev.entity].project = p
  /\ t.emap[ev.entity].version = ev.version
  /\ Mapped(s, ev.entity) => ev.version > s.emap[ev.entity].version

UpsertEffect(s, j, p, ev, t) ==
  /\ Sound(t) /\ Frame(s, t)
  /\ OthersKept(s, t, {ev.entity})
  /\ RowsKept(s, j, t, ev.entity) /\ RowsReached(s, p, t, ev.entity)
  /\ t = s \/ Lands(s, t, p, ev)

\* q is s made ready for the entity of ev to be bound to the row r.
Ready(s, j, p, q, ev, r) ==
  /\ Sound(q) /\ q.aliases = s.aliases /\ q.csets = s.csets
  /\ \A f \in Entity : s.contrib[f] \subseteq q.contrib[f]
  /\ \A f \in Entity \ {ev.entity} :
       /\ q.emap[f] = s.emap[f]
       /\ Mapped(s, f) /\ s.emap[f].row # r => q.mem[s.emap[f].row] = s.mem[s.emap[f].row]
  /\ RowsKept(s, j, q, ev.entity) /\ RowsReached(s, p, q, ev.entity)
  /\ Present(q, r) /\ q.mem[r].status = "active"
  /\ q.mem[r].project \in Project /\ q.mem[r].text = Clean[ev.text]

LEMMA BindsReady ==
  ASSUME NEW s, NEW j, NEW q, NEW p \in Project, NEW ev, EventTyped(ev), NEW r \in RowId,
         Ready(s, j, p, q, ev, r), NEW t \in BindUpsert(q, p, ev, r),
         Mapped(s, ev.entity) => ev.version > s.emap[ev.entity].version
  PROVE  UpsertEffect(s, j, p, ev, t) /\ Lands(s, t, p, ev)
<1> DEFINE e == ev.entity
<1>1. /\ Sound(t)
      /\ t.mem = q.mem /\ t.used = q.used /\ t.aliases = q.aliases /\ t.csets = q.csets
      /\ \A f \in Entity : q.contrib[f] \subseteq t.contrib[f]
      /\ BoundTo(q, t, e, r, p, ev.version, CanonicalHash(p, ev))
  BY UpsertFields DEF Ready
<1>2. Frame(s, t)
  BY <1>1 DEF Ready, Frame
<1>3. OthersKept(s, t, {e})
  BY <1>1 DEF Ready, OthersKept, BoundTo, Mapped
<1>4. RowsKept(s, j, t, e) /\ RowsReached(s, p, t, e)
  BY <1>1 DEF Ready, RowsKept, RowsReached, Present
<1>5. Lands(s, t, p, ev)
  BY <1>1 DEF Lands, BoundTo, IsBound
<1> QED  BY <1>1, <1>2, <1>3, <1>4, <1>5 DEF UpsertEffect

LEMMA IncomingRow ==
  ASSUME NEW p \in Project, NEW ev, EventTyped(ev)
  PROVE  /\ Incoming(p, ev) \in RowType /\ Incoming(p, ev).status = "active"
         /\ Incoming(p, ev).project = p /\ Incoming(p, ev).text = Clean[ev.text]
BY DataAssumption DEF Incoming, RowType, Status, EventTyped

LEMMA InsertReady ==
  ASSUME NEW s, Sound(s), NEW j, NEW p \in Project, NEW ev, NEW r \in RowId, ~Present(s, r),
         NEW row \in RowType, row.status = "active",
         row.project = p, row.text = Clean[ev.text]
  PROVE  Ready(s, j, p, InsertProjectedRow(s, r, row), ev, r)
<1> DEFINE e == ev.entity
           q == InsertProjectedRow(s, r, row)
<1>1. /\ Sound(q) /\ q.mem = [s.mem EXCEPT ![r] = row] /\ q.emap = s.emap
      /\ q.contrib = s.contrib /\ q.aliases = s.aliases /\ q.csets = s.csets
  BY InsertFields
<1> HIDE DEF q
<1>2. q.mem[r] = row /\ \A x \in RowId \ {r} : q.mem[x] = s.mem[x]
  BY <1>1 DEF Sound, StoreType
<1>3. RowsKept(s, j, q, e) /\ RowsReached(s, p, q, e)
  BY <1>2 DEF RowsKept, RowsReached, Present
<1>4. Present(q, r)
  BY <1>2, NilApart DEF Present
<1>5. \A f \in Entity : Mapped(s, f) /\ s.emap[f].row # r => q.mem[s.emap[f].row] = s.mem[s.emap[f].row]
  BY <1>2, EntryMapped
<1> QED  BY <1>1, <1>2, <1>3, <1>4, <1>5 DEF Ready, q

LEMMA StampReady ==
  ASSUME NEW s, Sound(s), NEW j, NEW p \in Project, NEW ev, NEW r \in RowId,
         Present(s, r), s.mem[r].status = "active",
         s.mem[r].project = p, s.mem[r].text = Clean[ev.text]
  PROVE  Ready(s, j, p, StampAuthor(s, r), ev, r)
<1> DEFINE e == ev.entity
           q == StampAuthor(s, r)
           row == [s.mem[r] EXCEPT !.author = TRUE]
<1>1. /\ Sound(q) /\ q.mem = [s.mem EXCEPT ![r] = row] /\ q.emap = s.emap
      /\ q.contrib = s.contrib /\ q.aliases = s.aliases /\ q.csets = s.csets
  BY StampFields
<1>2. /\ row \in RowType /\ row.status = s.mem[r].status
      /\ row.text = s.mem[r].text /\ row.vol = s.mem[r].vol /\ row.project = s.mem[r].project
  BY RowPresent, RowFields DEF SameMeaning
<1> HIDE DEF q, row
<1>3. q.mem[r] = row /\ \A x \in RowId \ {r} : q.mem[x] = s.mem[x]
  BY <1>1 DEF Sound, StoreType
<1>4. Present(q, r)
  BY <1>2, <1>3, NilApart DEF Present
<1>5. RowsKept(s, j, q, e) /\ RowsReached(s, p, q, e)
  BY <1>2, <1>3, <1>4 DEF RowsKept, RowsReached, Present
<1>6. \A f \in Entity : Mapped(s, f) /\ s.emap[f].row # r => q.mem[s.emap[f].row] = s.mem[s.emap[f].row]
  BY <1>3, EntryMapped
<1> QED  BY <1>1, <1>2, <1>3, <1>4, <1>5, <1>6 DEF Ready, q

\* An active row is there, or one is inserted.
LEMMA PlaceReady ==
  ASSUME NEW s, Sound(s), NEW j, NEW p \in Project, NEW ev, EventTyped(ev),
         Present(s, ev.id) => /\ s.mem[ev.id].status = "active"
                              /\ s.mem[ev.id].project = p
                              /\ s.mem[ev.id].text = Clean[ev.text]
  PROVE  Ready(s, j, p, InsertIfAbsent(s, ev.id, Incoming(p, ev)), ev, ev.id)
<1>1. CASE Present(s, ev.id)
  <2>1. InsertIfAbsent(s, ev.id, Incoming(p, ev)) = s
    BY <1>1 DEF InsertIfAbsent
  <2> QED  BY <1>1, <2>1 DEF Ready, RowsKept, RowsReached
<1>2. CASE ~Present(s, ev.id)
  BY <1>2, IncomingRow, InsertReady DEF InsertIfAbsent, EventTyped
<1> QED  BY <1>1, <1>2

LEMMA FreshApart ==
  ASSUME NEW s, Sound(s), NEW f \in FreshIds(s)
  PROVE  f \in RowId /\ ~Present(s, f)
BY DEF FreshIds, Sound, UsedRows

LEMMA MaterialiseShadowEffect ==
  ASSUME NEW s, Sound(s), NEW j, NEW p \in Project, NEW ev, EventTyped(ev),
         Mapped(s, ev.entity), ev.version > s.emap[ev.entity].version,
         NEW t \in MaterialiseShadow(s, p, ev)
  PROVE  UpsertEffect(s, j, p, ev, t)
<1> DEFINE e == ev.entity
<1>1. PICK f \in FreshIds(s) :
        t \in BindUpsert(CloseEntry(InsertProjectedRow(s, f, Incoming(p, ev)), e), p, ev, f)
  BY DEF MaterialiseShadow
<1> DEFINE u == InsertProjectedRow(s, f, Incoming(p, ev))
           q == CloseEntry(u, e)
<1>2. Ready(s, j, p, u, ev, f)
  BY FreshApart, IncomingRow, InsertReady
<1>3. /\ Sound(q) /\ q.emap = [u.emap EXCEPT ![e] = Nil] /\ q.mem = u.mem
      /\ q.contrib = u.contrib /\ q.aliases = u.aliases /\ q.csets = u.csets
  BY <1>2, CloseFields DEF Ready, EventTyped
<1>4. Ready(s, j, p, q, ev, f)
  <2>1. \A x \in Entity \ {e} : q.emap[x] = u.emap[x]
    BY <1>2, <1>3 DEF Ready, Sound, StoreType
  <2> HIDE DEF q, u
  <2> QED  BY <1>2, <1>3, <2>1 DEF Ready, RowsKept, RowsReached, Present
<1> QED  BY <1>1, <1>4, FreshApart, BindsReady

LEMMA CleanUpdateEffect ==
  ASSUME NEW s, Sound(s), NEW j, NEW p \in Project, NEW ev, EventTyped(ev),
         IsBound(s, ev.entity), ev.version > s.emap[ev.entity].version,
         NEW r, r = s.emap[ev.entity].row,
         Present(s, r), s.mem[r].status = "active", s.mem[r].project \in Project,
         Clean[ev.text] = s.mem[r].text \/ ~HasUnpushedLocalIntent(s, j, r, s.emap[ev.entity].ph),
         NEW t \in CleanUpdate(s, j, p, ev, r)
  PROVE  UpsertEffect(s, j, p, ev, t)
<1> DEFINE e == ev.entity
           x == Clean[ev.text]
           v == IF HasPendingVolatileIntent(j, r) THEN s.mem[r].vol ELSE ev.vol
           q == [s EXCEPT !.mem[r].text = x, !.mem[r].vol = v]
           row == [s.mem[r] EXCEPT !.text = x, !.vol = v]
<1>1. r \in RowId /\ s.mem[r] \in RowType
  BY EntryMapped, RowPresent DEF IsBound, EventTyped
<1>2. x \in Text /\ v \in Vol
  BY <1>1, DataAssumption DEF EventTyped, RowType
<1>3. t \in BindUpsert(q, p, ev, r)
  BY DEF CleanUpdate
<1>4. HasPendingVolatileIntent(j, r) => v = s.mem[r].vol
  OBVIOUS
<1> HIDE DEF x, v
<1>5. /\ row \in RowType /\ row.text = x /\ row.vol = v /\ row.status = s.mem[r].status
      /\ row.project = s.mem[r].project
  BY <1>1, <1>2 DEF RowType
<1>6. q = [s EXCEPT !.mem = [s.mem EXCEPT ![r] = row]]
  BY <1>1, <1>2 DEF Sound, StoreType, RowType
<1> HIDE DEF q, row
<1>7. /\ q \in StoreType /\ q.mem = [s.mem EXCEPT ![r] = row] /\ q.emap = s.emap
      /\ q.contrib = s.contrib /\ q.aliases = s.aliases /\ q.csets = s.csets /\ q.used = s.used
  BY <1>1, <1>5, <1>6 DEF Sound, StoreType
<1>8. q.mem[r] = row /\ \A y \in RowId \ {r} : q.mem[y] = s.mem[y]
  BY <1>1, <1>7 DEF Sound, StoreType
<1>9. Present(q, r)
  BY <1>5, <1>8, NilApart DEF Present
<1>10. Sound(q)
  BY <1>1, <1>7, <1>8 DEF Sound, UsedRows, OnePerRow, Canonical, Mapped, Present
<1>11. RowsKept(s, j, q, e) /\ RowsReached(s, p, q, e)
  BY <1>4, <1>5, <1>8, <1>9 DEF RowsKept, RowsReached, Present, IsBound, EventTyped, x
<1>12. \A f \in Entity : Mapped(s, f) /\ s.emap[f].row # r => q.mem[s.emap[f].row] = s.mem[s.emap[f].row]
  BY <1>8, EntryMapped
<1>13. Ready(s, j, p, q, ev, r)
  BY <1>5, <1>7, <1>8, <1>9, <1>10, <1>11, <1>12 DEF Ready, x
<1> QED  BY <1>1, <1>3, <1>13, BindsReady

LEMMA ForkEffect ==
  ASSUME NEW s, Sound(s), NEW j, NEW p \in Project, NEW ev, EventTyped(ev),
         IsBound(s, ev.entity), ev.version > s.emap[ev.entity].version,
         NEW r, r = s.emap[ev.entity].row, NEW t \in Fork(s, p, ev, r)
  PROVE  UpsertEffect(s, j, p, ev, t)
<1> DEFINE e == ev.entity
<1>1. PICK f \in FreshIds(s) :
        t \in BindUpsert(ForkLocal(InsertProjectedRow(s, f, Incoming(p, ev)), r), p, ev, f)
  BY DEF Fork
<1> DEFINE u == InsertProjectedRow(s, f, Incoming(p, ev))
           q == ForkLocal(u, r)
<1>2. Ready(s, j, p, u, ev, f) /\ f \in RowId
  BY FreshApart, IncomingRow, InsertReady
<1>3. r \in RowId /\ \A x \in Entity \ {e} : Mapped(s, x) => s.emap[x].row \in RowId \ {r}
  BY EntryMapped DEF Sound, OnePerRow, EventTyped, IsBound
<1> HIDE DEF u
<1>9. /\ Sound(u) /\ Present(u, f) /\ u.mem[f].status = "active"
      /\ u.mem[f].project \in Project /\ u.mem[f].text = Clean[ev.text]
  BY <1>2 DEF Ready
<1>4. /\ Sound(q) /\ \A x \in RowId \ {r} : q.mem[x] = u.mem[x]
      /\ Present(u, r) => q.mem[r] = [u.mem[r] EXCEPT !.optedOut = TRUE]
      /\ ~Present(u, r) => q.mem[r] = u.mem[r]
      /\ q.emap = u.emap /\ q.contrib = u.contrib /\ q.aliases = u.aliases /\ q.csets = u.csets
  BY <1>3, <1>9, ForkFields
<1> HIDE DEF q
<1>5. ASSUME Present(u, r)
      PROVE  Present(q, r) /\ SameMeaning(q.mem[r], u.mem[r])
  <2> DEFINE row == [u.mem[r] EXCEPT !.optedOut = TRUE]
  <2>1. u.mem[r] \in RowType
    BY <1>3, <1>5, <1>9, RowPresent
  <2>2. row \in RowType /\ SameMeaning(row, u.mem[r])
    BY <2>1, RowFields
  <2>3. q.mem[r] = row
    BY <1>4, <1>5
  <2> HIDE DEF row
  <2> QED  BY <2>2, <2>3, NilApart DEF Present
<1>6. RowsKept(s, j, q, e) /\ RowsReached(s, p, q, e)
  <2>1. RowsKept(s, j, u, e) /\ RowsReached(s, p, u, e)
    BY <1>2 DEF Ready
  <2>2. \A x \in RowId : Present(u, x) => Present(q, x) /\ SameMeaning(q.mem[x], u.mem[x])
    BY <1>4, <1>5 DEF Present, SameMeaning
  <2>3. \A x \in RowId : ~Present(u, x) => q.mem[x] = u.mem[x]
    BY <1>4
  <2>4. RowsKept(s, j, q, e)
    BY <2>1, <2>2 DEF RowsKept, SameMeaning
  <2> QED  BY <1>4, <2>1, <2>2, <2>3, <2>4 DEF RowsKept, RowsReached, SameMeaning, Present, EventTyped
<1>7. /\ Present(q, f) /\ q.mem[f].status = "active"
      /\ q.mem[f].project \in Project /\ q.mem[f].text = Clean[ev.text]
  <2>1. Present(q, f) /\ SameMeaning(q.mem[f], u.mem[f])
    BY <1>2, <1>4, <1>5, <1>9 DEF Present, SameMeaning
  <2> QED  BY <1>9, <2>1 DEF SameMeaning
<1>8. Ready(s, j, p, q, ev, f)
  BY <1>2, <1>3, <1>4, <1>6, <1>7 DEF Ready
<1> QED  BY <1>1, <1>2, <1>8, BindsReady DEF q, u

\* An event that is not news.
LEMMA NothingUpserted ==
  ASSUME NEW s, Sound(s), NEW j, NEW p, NEW ev
  PROVE  UpsertEffect(s, j, p, ev, s)
BY DEF UpsertEffect, Frame, OthersKept, RowsKept, RowsReached

LEMMA ShadowEffect ==
  ASSUME NEW s, Sound(s), NEW j, NEW p \in Project, NEW ev, EventTyped(ev), NEW r \in RowId,
         Mapped(s, ev.entity) => ev.version > s.emap[ev.entity].version,
         NEW t \in WriteShadowAssoc(s, p, ev, r)
  PROVE  UpsertEffect(s, j, p, ev, t)
<1>1. /\ Sound(t)
      /\ t.mem = s.mem /\ t.used = s.used /\ t.contrib = s.contrib
      /\ t.aliases = s.aliases /\ t.csets = s.csets
      /\ \A f \in Entity \ {ev.entity} : t.emap[f] = s.emap[f]
      /\ Mapped(t, ev.entity) /\ ~IsBound(t, ev.entity)
      /\ t.emap[ev.entity].project = p /\ t.emap[ev.entity].version = ev.version
  BY ShadowFields
<1> QED  BY <1>1 DEF UpsertEffect, Frame, OthersKept, RowsKept, RowsReached, Lands, Visible, Present

LEMMA UpsertMappedEffect ==
  ASSUME NEW s, Sound(s), NEW j, NEW p \in Project, NEW ev, EventTyped(ev),
         Mapped(s, ev.entity), NEW t \in UpsertMapped(s, j, p, ev)
  PROVE  UpsertEffect(s, j, p, ev, t)
<1> DEFINE entry == s.emap[ev.entity]
           r == entry.row
           ph == Hash(p, Clean[ev.text])
           news == ev.version > entry.version
<1>1. entry \in EntryType /\ r \in RowId /\ entry.state \in {"bound", "shadow"}
  BY EntryMapped DEF EntryType, EventTyped
<1>2. CASE ~news
  BY <1>2, NothingUpserted DEF UpsertMapped
<1>3. CASE news /\ entry.state = "shadow" /\ RowHash(s, r) = ph
  <2>1. t \in WriteShadowAssoc(s, p, ev, r)
    BY <1>3 DEF UpsertMapped, RefreshShadow
  <2> QED  BY <1>1, <1>3, <2>1, ShadowEffect
<1>4. CASE news /\ entry.state = "shadow" /\ RowHash(s, r) # ph
  <2>1. t \in MaterialiseShadow(s, p, ev)
    BY <1>4 DEF UpsertMapped
  <2> QED  BY <1>4, <2>1, MaterialiseShadowEffect
<1>5. CASE /\ news /\ entry.state = "bound"
           /\ ~IsEcho(s, r, ph) /\ HasUnpushedLocalIntent(s, j, r, entry.ph)
  <2>1. t \in Fork(s, p, ev, r)
    BY <1>5 DEF UpsertMapped
  <2> QED  BY <1>5, <2>1, ForkEffect DEF IsBound
<1>6. CASE /\ news /\ entry.state = "bound"
           /\ IsEcho(s, r, ph) \/ ~HasUnpushedLocalIntent(s, j, r, entry.ph)
  <2>1. t \in CleanUpdate(s, j, p, ev, r)
    BY <1>6 DEF UpsertMapped
  <2>2. entry.ph \in HashType /\ ph \in HashType
    BY <1>1, DataAssumption DEF EntryType, Hash, HashType, EventTyped
  <2>3. Present(s, r) /\ ~IsLocallyRetracted(s, r)
    BY <1>6, <2>2, NilApart DEF IsEcho, HasUnpushedLocalIntent, RowHash
  <2>4. s.mem[r].status = "active"
    BY <2>3 DEF IsLocallyRetracted
  <2>7. s.mem[r].project \in Project
    <3>1. RowHash(s, r) = ph \/ RowHash(s, r) = entry.ph
      BY <1>6 DEF IsEcho, HasUnpushedLocalIntent
    <3>2. \E q \in Project : \E x : entry.ph = Hash(q, x)
      BY DEF Sound, Canonical, CanonicalEntry, EventTyped
    <3>3. RowHash(s, r) = Hash(s.mem[r].project, s.mem[r].text)
      BY <1>1, <2>3, RowPresent
    <3> QED  BY <3>1, <3>2, <3>3 DEF Hash
  <2>5. Clean[ev.text] = s.mem[r].text \/ ~HasUnpushedLocalIntent(s, j, r, entry.ph)
    <3>1. IsEcho(s, r, ph) => Hash(s.mem[r].project, s.mem[r].text) = Hash(p, Clean[ev.text])
      BY <1>1, <2>3, RowPresent DEF IsEcho
    <3> QED  BY <1>6, <3>1 DEF Hash
  <2>6. IsBound(s, ev.entity)
    BY <1>6 DEF IsBound
  <2> HIDE DEF ph
  <2> QED  BY <1>6, <2>1, <2>3, <2>4, <2>5, <2>6, <2>7, CleanUpdateEffect
<1> QED  BY <1>1, <1>2, <1>3, <1>4, <1>5, <1>6

LEMMA ExactMatch ==
  ASSUME NEW s, NEW ph, SelectExactMatch(s, ph) # Nil
  PROVE  LET m == SelectExactMatch(s, ph) IN
         m \in RowId /\ Present(s, m) /\ s.mem[m].status = "active" /\ RowHash(s, m) = ph
<1> DEFINE same == {r \in RowId : Present(s, r) /\ s.mem[r].status = "active" /\ RowHash(s, r) = ph}
           bound == {r \in same : IsRowSyncBound(s, r)}
           free == {r \in same : AssociatedTo(s, r) = {}}
           optedOut == {r \in free : s.mem[r].optedOut}
<1>1. \A S \in SUBSET same : S # {} => Min(S) \in same
  BY LeastId
<1>2. bound \in SUBSET same /\ free \in SUBSET same /\ optedOut \in SUBSET same
  OBVIOUS
<1>3. \/ bound # {} /\ SelectExactMatch(s, ph) = Min(bound)
      \/ optedOut # {} /\ SelectExactMatch(s, ph) = Min(optedOut)
      \/ free # {} /\ SelectExactMatch(s, ph) = Min(free)
  BY DEF SelectExactMatch
<1>4. SelectExactMatch(s, ph) \in same
  <2> HIDE DEF same, bound, free, optedOut
  <2> QED  BY <1>1, <1>2, <1>3
<1> QED  BY <1>4

LEMMA UpsertUnmappedEffect ==
  ASSUME NEW s, Sound(s), NEW j, NEW p \in Project, NEW ev, EventTyped(ev),
         ~Mapped(s, ev.entity), NEW t \in UpsertUnmapped(s, p, ev)
  PROVE  UpsertEffect(s, j, p, ev, t)
<1> DEFINE e == ev.entity
           ph == Hash(p, Clean[ev.text])
           match == SelectExactMatch(s, ph)
           boundTo == IF match = Nil THEN {} ELSE {f \in AssociatedTo(s, match) : IsBound(s, f)}
           legal == RebindLegal(s, ev.id, ph)
<1>3. ev.id \in RowId
  BY DEF EventTyped
<1>10. ASSUME NEW r \in RowId, Present(s, r), RowHash(s, r) = ph
       PROVE  s.mem[r].project = p /\ s.mem[r].text = Clean[ev.text]
  BY <1>10, RowPresent DEF Hash
<1>1. legal => (Present(s, ev.id) => /\ s.mem[ev.id].status = "active"
                                     /\ s.mem[ev.id].project = p
                                     /\ s.mem[ev.id].text = Clean[ev.text])
  BY <1>3, <1>10 DEF RebindLegal
<1>2. match # Nil =>
        /\ match \in RowId /\ Present(s, match) /\ s.mem[match].status = "active"
        /\ s.mem[match].project = p /\ s.mem[match].text = Clean[ev.text]
  BY <1>10, ExactMatch
<1>4. ASSUME Present(s, ev.id), s.mem[ev.id].status = "active",
             s.mem[ev.id].project = p, s.mem[ev.id].text = Clean[ev.text],
             t \in BindUpsert(StampAuthor(s, ev.id), p, ev, ev.id)
      PROVE  UpsertEffect(s, j, p, ev, t)
  BY <1>3, <1>4, StampReady, BindsReady
<1>5. ASSUME legal, NEW u \in BindUpsert(InsertIfAbsent(s, ev.id, Incoming(p, ev)), p, ev, ev.id)
      PROVE  UpsertEffect(s, j, p, ev, u) /\ Lands(s, u, p, ev)
  BY <1>1, <1>3, <1>5, PlaceReady, BindsReady
<1>6. CASE match = Nil
  <2>1. legal /\ t \in ApplyFresh(s, p, ev)
    BY <1>6 DEF UpsertUnmapped
  <2>2. CASE Present(s, ev.id)
    BY <1>1, <1>4, <2>1, <2>2 DEF ApplyFresh
  <2>3. CASE ~Present(s, ev.id)
    <3>1. t \in BindUpsert(InsertIfAbsent(s, ev.id, Incoming(p, ev)), p, ev, ev.id)
      BY <2>1, <2>3 DEF ApplyFresh, InsertIfAbsent
    <3> QED  BY <1>5, <2>1, <3>1
  <2> QED  BY <2>2, <2>3
<1>7. CASE boundTo # {}
  <2>1. PICK f \in boundTo : legal /\ t \in Coexist(s, p, ev, f)
    BY <1>7 DEF UpsertUnmapped
  <2>2. PICK u \in BindUpsert(InsertIfAbsent(s, ev.id, Incoming(p, ev)), p, ev, ev.id) :
          t = OpenConflictSet(u, {e, f}, p, {e, f})
    BY <2>1 DEF Coexist
  <2>3. UpsertEffect(s, j, p, ev, u) /\ Lands(s, u, p, ev)
    BY <1>5, <2>1, <2>2
  <2>4. e \in Entity /\ f \in Entity /\ f # e
    BY <2>1 DEF AssociatedTo, EventTyped
  <2> HIDE DEF boundTo, legal
  <2>5. /\ Sound(t)
        /\ t.mem = u.mem /\ t.emap = u.emap /\ t.contrib = u.contrib /\ t.aliases = u.aliases
        /\ \A n \in SetName : u.csets[n] # Nil => t.csets[n] = u.csets[n]
    <3>1. {e, f} \in SetName
      BY <2>4 DEF SetName, MintedSet
    <3>2. [project |-> p, members |-> {e, f}, resolved |-> 0] \in ConflictSetType
      BY <2>4 DEF ConflictSetType
    <3>3. Sound(u)
      BY <2>3 DEF UpsertEffect
    <3>4. CASE u.csets[{e, f}] = Nil
      <4>1. t = [u EXCEPT !.csets[{e, f}] = [project |-> p, members |-> {e, f}, resolved |-> 0]]
        BY <2>2, <3>4 DEF OpenConflictSet
      <4>2. /\ t \in StoreType
            /\ t.mem = u.mem /\ t.emap = u.emap /\ t.contrib = u.contrib /\ t.aliases = u.aliases
            /\ t.used = u.used
            /\ \A n \in SetName : u.csets[n] # Nil => t.csets[n] = u.csets[n]
        BY <3>1, <3>2, <3>3, <3>4, <4>1 DEF Sound, StoreType
      <4> QED  BY <3>3, <4>2 DEF Sound, UsedRows, OnePerRow, Canonical, Present, Mapped
    <3>5. CASE u.csets[{e, f}] # Nil
      BY <2>2, <3>3, <3>5 DEF OpenConflictSet
    <3> QED  BY <3>4, <3>5
  <2>6. Lands(s, t, p, ev)
    BY <2>3, <2>5 DEF Lands, Visible, IsBound, Mapped, Present, RowHash
  <2>7. Frame(s, t)
    BY <2>3, <2>5 DEF UpsertEffect, Frame
  <2>8. OthersKept(s, t, {e}) /\ RowsKept(s, j, t, e) /\ RowsReached(s, p, t, e)
    BY <2>3, <2>5 DEF UpsertEffect, OthersKept, RowsKept, RowsReached, Present
  <2> QED  BY <2>5, <2>6, <2>7, <2>8 DEF UpsertEffect
<1>8. CASE match # Nil /\ boundTo = {} /\ s.mem[match].optedOut
  <2>1. t \in WriteShadowAssoc(s, p, ev, match)
    BY <1>8 DEF UpsertUnmapped
  <2> QED  BY <1>2, <1>8, <2>1, ShadowEffect
<1>9. CASE match # Nil /\ boundTo = {} /\ ~s.mem[match].optedOut
  <2>1. (match = ev.id \/ legal) /\ t \in ApplyTwin(s, p, ev, match)
    BY <1>9 DEF UpsertUnmapped
  <2>2. CASE match = ev.id
    <3>1. t \in BindUpsert(StampAuthor(s, ev.id), p, ev, ev.id)
      BY <2>1, <2>2 DEF ApplyTwin
    <3> QED  BY <1>2, <1>4, <1>9, <2>2, <3>1
  <2>3. CASE match # ev.id
    <3>1. t \in BindUpsert(InsertIfAbsent(s, ev.id, Incoming(p, ev)), p, ev, ev.id)
      BY <2>1, <2>3 DEF ApplyTwin
    <3> QED  BY <1>5, <2>1, <2>3, <3>1
  <2> QED  BY <2>2, <2>3
<1> QED  BY <1>6, <1>7, <1>8, <1>9

(* What an upsert does, whichever row of the transition table it takes.      *)
LEMMA ApplyUpsertEffect ==
  ASSUME NEW s, Sound(s), NEW j, NEW p \in Project, NEW ev, EventTyped(ev),
         NEW t \in ApplyUpsert(s, j, p, ev)
  PROVE  UpsertEffect(s, j, p, ev, t)
BY UpsertMappedEffect, UpsertUnmappedEffect DEF ApplyUpsert

-----------------------------------------------------------------------------
(* Retirement, and what follows from a retirement and an upsert.             *)

\* A row goes only with a bound entity of T, and with nothing unpushed on it.
Retained(s, j, t, T) ==
  \A r \in RowId : Present(s, r) =>
    \/ Present(t, r) /\ SameMeaning(t.mem[r], s.mem[r])
    \/ \E e \in T : /\ IsBound(s, e) /\ s.emap[e].row = r
                    /\ ~HasUnpushedLocalIntent(s, j, r, s.emap[e].ph)

\* Only rows of bound entities of T change; none moves or is made.
RowsRetired(s, t, T) ==
  \A r \in RowId :
    /\ t.mem[r] = s.mem[r] \/ \E e \in T : IsBound(s, e) /\ s.emap[e].row = r
    /\ Present(t, r) => Present(s, r) /\ t.mem[r].project = s.mem[r].project

RetireEffect(s, j, t, T) ==
  /\ Sound(t) /\ t.aliases = s.aliases /\ t.csets = s.csets /\ t.contrib = s.contrib
  /\ \A e \in T : ~Mapped(t, e)
  /\ OthersKept(s, t, T) /\ Retained(s, j, t, T) /\ RowsRetired(s, t, T)

LEMMA NothingRetired ==
  ASSUME NEW s, Sound(s), NEW j
  PROVE  RetireEffect(s, j, s, {})
BY DEF RetireEffect, OthersKept, Retained, RowsRetired, SameMeaning

LEMMA Retires ==
  ASSUME NEW s, Sound(s), NEW j, NEW T \in SUBSET Entity
  PROVE  RetireEffect(s, j, Retire(s, j, T), T)
<1> DEFINE bound == {e \in T : IsBound(s, e)}
           kept == {s.emap[e].row : e \in {x \in bound : IsPreserved(s, j, x)}}
           gone == {s.emap[e].row : e \in bound} \ kept
           mem == [r \in RowId |->
                     CASE r \in gone -> Nil
                       [] r \in kept -> [s.mem[r] EXCEPT !.optedOut = TRUE]
                       [] OTHER -> s.mem[r]]
           emap == [e \in Entity |-> IF e \in T THEN Nil ELSE s.emap[e]]
           t == Retire(s, j, T)
<1>1. t = [s EXCEPT !.mem = mem, !.notices = @ \cup kept, !.emap = emap]
  BY DEF Retire
<1>2. \A r \in kept : r \in RowId /\ Present(s, r) /\ s.mem[r] \in RowType
  <2>1. ASSUME NEW e \in T, IsBound(s, e), IsPreserved(s, j, e)
        PROVE  LET r == s.emap[e].row IN r \in RowId /\ Present(s, r) /\ s.mem[r] \in RowType
    BY <2>1, EntryMapped, RowPresent DEF IsBound, IsPreserved
  <2> QED  BY <2>1
<1>3. \A r \in gone : \E e \in T : IsBound(s, e) /\ s.emap[e].row = r /\ ~IsPreserved(s, j, e)
  OBVIOUS
<1>4. \A r \in gone \cup kept : \E e \in T : IsBound(s, e) /\ s.emap[e].row = r
  OBVIOUS
<1>5. \A r \in RowId : r \in kept =>
        /\ [s.mem[r] EXCEPT !.optedOut = TRUE] \in RowType
        /\ SameMeaning([s.mem[r] EXCEPT !.optedOut = TRUE], s.mem[r])
  BY <1>2, RowFields
<1>6. \A r \in gone : r \notin kept
  OBVIOUS
<1> HIDE DEF bound, kept, gone
<1>7. \A r \in RowId :
        /\ r \in gone => mem[r] = Nil
        /\ r \in kept => mem[r] \in RowType /\ SameMeaning(mem[r], s.mem[r])
        /\ r \notin gone \cup kept => mem[r] = s.mem[r]
  BY <1>5, <1>6
<1>8. mem \in [RowId -> RowType \cup {Nil}] /\ emap \in [Entity -> EntryType \cup {Nil}]
  BY <1>7 DEF Sound, StoreType
<1>9. kept \subseteq RowId
  BY <1>2
<1>10. \A e \in Entity : emap[e] = IF e \in T THEN Nil ELSE s.emap[e]
  OBVIOUS
<1> HIDE DEF mem, emap, t
<1>11. /\ t \in StoreType /\ t.mem = mem /\ t.emap = emap /\ t.used = s.used
       /\ t.aliases = s.aliases /\ t.csets = s.csets /\ t.contrib = s.contrib
  BY <1>1, <1>8, <1>9 DEF Sound, StoreType
<1>12. UsedRows(t)
  BY <1>2, <1>7, <1>11 DEF Sound, UsedRows, Present
<1>13. OnePerRow(t)
  BY <1>10, <1>11 DEF Sound, OnePerRow, Mapped
<1>17. Canonical(t)
  BY <1>10, <1>11 DEF Sound, Canonical, Mapped
<1>14. \A e \in T : ~Mapped(t, e)
  BY <1>10, <1>11 DEF Mapped
<1>15. OthersKept(s, t, T)
  <2>1. ASSUME NEW f \in Entity \ T, Mapped(s, f)
        PROVE  s.emap[f].row \in RowId /\ s.emap[f].row \notin gone \cup kept
    BY <1>4, <2>1, EntryMapped DEF Sound, OnePerRow, IsBound
  <2> QED  BY <1>7, <1>10, <1>11, <2>1 DEF OthersKept
<1>16. Retained(s, j, t, T)
  <2> SUFFICES ASSUME NEW r \in RowId, Present(s, r)
               PROVE  \/ Present(t, r) /\ SameMeaning(t.mem[r], s.mem[r])
                      \/ \E e \in T : /\ IsBound(s, e) /\ s.emap[e].row = r
                                      /\ ~HasUnpushedLocalIntent(s, j, r, s.emap[e].ph)
    BY DEF Retained
  <2>1. CASE r \in gone
    BY <1>3, <2>1 DEF IsPreserved
  <2>2. CASE r \in kept
    BY <1>7, <1>11, <2>2, NilApart DEF Present
  <2>3. CASE r \notin gone \cup kept
    BY <1>7, <1>11, <2>3 DEF Present, SameMeaning
  <2> QED  BY <2>1, <2>2, <2>3
<1>18. RowsRetired(s, t, T)
  BY <1>2, <1>4, <1>7, <1>11 DEF RowsRetired, Present, SameMeaning
<1> QED  BY <1>11, <1>12, <1>13, <1>14, <1>15, <1>16, <1>17, <1>18 DEF RetireEffect, Sound, t

-----------------------------------------------------------------------------
(* The properties of a step from s to t by an event of project p.            *)

IntentKept(s, j, t) ==
  \A e \in Entity :
    IsBound(s, e) /\ Present(s, s.emap[e].row) /\ t.aliases[e] = Nil
      /\ HasUnpushedLocalIntent(s, j, s.emap[e].row, s.emap[e].ph) =>
        /\ Present(t, s.emap[e].row)
        /\ t.mem[s.emap[e].row].text = s.mem[s.emap[e].row].text
        /\ t.mem[s.emap[e].row].status = s.mem[s.emap[e].row].status

TrustKept(s, j, t) ==
  \A e \in Entity :
    LET r == s.emap[e].row IN
    IsBound(s, e) /\ Present(s, r) /\ IsBound(t, e) /\ t.emap[e].row = r
      /\ HasEntry(j, r, {"pending", "deferred", "enqueued"}) =>
        t.mem[r].vol = s.mem[r].vol

NewBindingsVisible(s, t) ==
  \A e \in Entity : IsBound(t, e) /\ t.emap[e] # s.emap[e] => Visible(t, e)

VersionsGrow(s, t) ==
  \A e \in Entity : Mapped(s, e) /\ Mapped(t, e) =>
    /\ t.emap[e].version >= s.emap[e].version
    /\ t.emap[e].ch # s.emap[e].ch => t.emap[e].version > s.emap[e].version

Bounded(s, p, t) ==
  /\ \A e \in Entity : Mapped(s, e) /\ s.emap[e].project # p =>
       \/ t.emap[e] = s.emap[e]
       \/ Mapped(t, e) /\ t.emap[e].project = p
  /\ \A r \in RowId : Present(s, r) /\ s.mem[r].project # p /\ t.mem[r] # s.mem[r] =>
       /\ \E e \in Entity : /\ IsBound(s, e) /\ s.emap[e].row = r
                            /\ s.emap[e].project = p \/ (Mapped(t, e) /\ t.emap[e].project = p)
       /\ Present(t, r) => t.mem[r].project \in {s.mem[r].project, p}
  /\ \A r \in RowId : ~Present(s, r) /\ Present(t, r) =>
       \/ t.mem[r].project = p
       \/ \E e \in Entity : /\ Mapped(s, e) /\ s.emap[e].project = p /\ s.emap[e].state = "shadow"
                            /\ t.mem[r].project = s.emap[e].inert.project
  /\ \A r \in RowId :
       Present(s, r) /\ s.mem[r].project = p /\ Present(t, r) => t.mem[r].project = p

SetsFinal(s, t) ==
  \A n \in SetName : s.csets[n] # Nil =>
    /\ t.csets[n] # Nil
    /\ t.csets[n].members = s.csets[n].members
    /\ s.csets[n].resolved # 0 => t.csets[n].resolved = s.csets[n].resolved

Keeps(s, j, p, t) ==
  /\ IntentKept(s, j, t) /\ TrustKept(s, j, t)
  /\ NewBindingsVisible(s, t) /\ VersionsGrow(s, t) /\ Bounded(s, p, t)

LEMMA RetireThenUpsert ==
  ASSUME NEW s, Sound(s), NEW j, NEW p, NEW T \in SUBSET Entity,
         \A e \in T : Mapped(s, e) /\ s.emap[e].project = p,
         NEW u, RetireEffect(s, j, u, T),
         NEW ev, ev.entity \notin T, NEW t, UpsertEffect(u, j, p, ev, t)
  PROVE  /\ Keeps(s, j, p, t)
         /\ \A e \in Entity \ T : Mapped(s, e) => Mapped(t, e)
         /\ \A e \in T : ~Mapped(t, e)
         /\ \A e \in Entity \ (T \cup {ev.entity}) : t.emap[e] = s.emap[e]
<1>1. \A e \in T : ~Mapped(u, e) /\ ~Mapped(t, e)
  BY DEF RetireEffect, UpsertEffect, OthersKept, Mapped
<1>2. \A e \in Entity \ T : u.emap[e] = s.emap[e] /\ (Mapped(s, e) => u.mem[s.emap[e].row] = s.mem[s.emap[e].row])
  BY DEF RetireEffect, OthersKept
<1>3. \A e \in Entity \ (T \cup {ev.entity}) :
        t.emap[e] = s.emap[e] /\ (Mapped(s, e) => t.mem[s.emap[e].row] = s.mem[s.emap[e].row])
  BY <1>2 DEF UpsertEffect, OthersKept, Mapped
<1>4. ev.entity \in Entity => t = u \/ Lands(u, t, p, ev)
  BY DEF UpsertEffect
<1>5. \A e \in Entity \ T : Mapped(s, e) => Mapped(t, e)
  BY <1>2, <1>3, <1>4 DEF Lands, Mapped
<1>6. IntentKept(s, j, t)
  <2> SUFFICES ASSUME NEW e \in Entity, IsBound(s, e), Present(s, s.emap[e].row),
                      HasUnpushedLocalIntent(s, j, s.emap[e].row, s.emap[e].ph)
               PROVE  /\ Present(t, s.emap[e].row)
                      /\ t.mem[s.emap[e].row].text = s.mem[s.emap[e].row].text
                      /\ t.mem[s.emap[e].row].status = s.mem[s.emap[e].row].status
    BY DEF IntentKept
  <2> DEFINE r == s.emap[e].row
  <2>1. r \in RowId
    BY EntryMapped DEF IsBound
  <2>2. \A f \in Entity : IsBound(s, f) /\ s.emap[f].row = r => f = e
    BY DEF Sound, OnePerRow, IsBound
  <2>3. Present(u, r) /\ SameMeaning(u.mem[r], s.mem[r])
    <3>1. Retained(s, j, u, T)
      BY DEF RetireEffect
    <3> QED  BY <2>1, <2>2, <3>1 DEF Retained
  <2>4. RowsKept(u, j, t, ev.entity)
    BY DEF UpsertEffect
  <2>5. ASSUME ev.entity \in Entity, IsBound(u, ev.entity), r = u.emap[ev.entity].row
        PROVE  HasUnpushedLocalIntent(u, j, r, u.emap[ev.entity].ph)
    <3>1. ev.entity = e /\ e \notin T
      BY <1>2, <2>2, <2>5 DEF IsBound, Mapped
    <3>2. u.emap[e] = s.emap[e] /\ u.mem[r] = s.mem[r]
      BY <1>2, <3>1 DEF IsBound
    <3> QED  BY <3>1, <3>2 DEF HasUnpushedLocalIntent, RowHash, Present, IsLocallyRetracted, IsRowOptedOut
  <2> HIDE DEF r
  <2>6. Present(t, r) /\ t.mem[r].status = u.mem[r].status /\ t.mem[r].text = u.mem[r].text
    BY <2>1, <2>3, <2>4, <2>5 DEF RowsKept
  <2> QED  BY <2>3, <2>6 DEF SameMeaning, r
<1>7. TrustKept(s, j, t)
  <2> SUFFICES ASSUME NEW e \in Entity, IsBound(s, e), Present(s, s.emap[e].row), IsBound(t, e),
                      HasEntry(j, s.emap[e].row, {"pending", "deferred", "enqueued"})
               PROVE  t.mem[s.emap[e].row].vol = s.mem[s.emap[e].row].vol
    BY DEF TrustKept
  <2>1. s.emap[e].row \in RowId /\ u.mem[s.emap[e].row] = s.mem[s.emap[e].row]
    BY <1>1, <1>2, EntryMapped DEF IsBound
  <2> QED  BY <2>1 DEF UpsertEffect, RowsKept, HasPendingVolatileIntent, Present
<1>8. NewBindingsVisible(s, t)
  BY <1>1, <1>2, <1>3, <1>4 DEF NewBindingsVisible, Lands, IsBound
<1>9. VersionsGrow(s, t)
  <2> SUFFICES ASSUME NEW e \in Entity \ T, Mapped(s, e), Mapped(t, e)
               PROVE  /\ t.emap[e].version >= s.emap[e].version
                      /\ t.emap[e].ch # s.emap[e].ch => t.emap[e].version > s.emap[e].version
    BY <1>1 DEF VersionsGrow
  <2>1. s.emap[e].version \in Nat
    BY EntryMapped DEF EntryType
  <2>2. t.emap[e] = s.emap[e] \/ (e = ev.entity /\ Lands(u, t, p, ev))
    BY <1>2, <1>3, <1>4
  <2>3. Lands(u, t, p, ev) /\ e = ev.entity => t.emap[e].version = ev.version /\ ev.version > s.emap[e].version
    BY <1>2 DEF Lands, Mapped
  <2>4. CASE t.emap[e] = s.emap[e]
    BY <2>1, <2>4
  <2>5. CASE e = ev.entity /\ Lands(u, t, p, ev)
    <3>1. Sound(t)
      BY DEF UpsertEffect
    <3>2. t.emap[e].version \in Nat
      BY <3>1, EntryMapped DEF EntryType
    <3> QED  BY <2>1, <2>3, <2>5, <3>2
  <2> QED  BY <2>2, <2>4, <2>5
<1>10. Bounded(s, p, t)
  <2>1. RowsRetired(s, u, T) /\ RowsReached(u, p, t, ev.entity)
    BY DEF RetireEffect, UpsertEffect
  <2>2. \A r \in RowId : ~Present(s, r) => ~Present(u, r)
    BY <2>1 DEF RowsRetired
  <2>3. \A r \in RowId : ~Present(u, r) /\ Present(t, r) => t.mem[r].project = p
    BY <2>1 DEF RowsReached
  <2>4. \A r \in RowId : Present(u, r) => Present(s, r) /\ t.mem[r].project = s.mem[r].project
    BY <2>1 DEF RowsRetired, RowsReached
  <2>5. ASSUME NEW r \in RowId, Present(s, r), s.mem[r].project # p, t.mem[r] # s.mem[r]
        PROVE  \E e \in Entity : /\ IsBound(s, e) /\ s.emap[e].row = r
                                 /\ s.emap[e].project = p \/ (Mapped(t, e) /\ t.emap[e].project = p)
    <3>1. CASE u.mem[r] # s.mem[r]
      BY <2>1, <3>1 DEF RowsRetired
    <3>2. CASE u.mem[r] = s.mem[r]
      <4> DEFINE e == ev.entity
      <4>1. e \in Entity /\ IsBound(u, e) /\ r = u.emap[e].row
        BY <2>1, <2>5, <3>2 DEF RowsReached, Present
      <4>2. Lands(u, t, p, ev)
        BY <1>4, <2>5, <3>2, <4>1
      <4>3. u.emap[e] = s.emap[e]
        BY <1>2, <4>1
      <4> QED  BY <4>1, <4>2, <4>3 DEF Lands, IsBound, Mapped
    <3> QED  BY <3>1, <3>2
  <2>6. \A e \in Entity : Mapped(s, e) /\ s.emap[e].project # p =>
          t.emap[e] = s.emap[e] \/ (Mapped(t, e) /\ t.emap[e].project = p)
    BY <1>2, <1>3, <1>4 DEF Lands
  <2> QED  BY <2>2, <2>3, <2>4, <2>5, <2>6 DEF Bounded
<1> QED  BY <1>1, <1>3, <1>5, <1>6, <1>7, <1>8, <1>9, <1>10 DEF Keeps

-----------------------------------------------------------------------------
(* The five events.                                                          *)

NoneLost(s, t) ==
  \A e \in Entity : Mapped(s, e) /\ ~Mapped(t, e) =>
    \/ \E n \in SetName : s.csets[n] # Nil /\ s.csets[n] # t.csets[n] /\ e \in s.csets[n].members
    \/ \A f \in Entity \ {e} :
         /\ Mapped(t, f) <=> Mapped(s, f)
         /\ Mapped(s, f) => t.emap[f].ch = s.emap[f].ch

TargetsLand(s, t) ==
  \A e \in Entity : Mapped(s, e) /\ ~Mapped(t, e) /\ t.aliases[e] # s.aliases[e] =>
    /\ IsBound(t, t.aliases[e])
    /\ IsBound(s, e) => s.contrib[e] \subseteq t.contrib[t.aliases[e]]

Inbound(s, j, p, t) ==
  /\ Sound(t) /\ Keeps(s, j, p, t)
  /\ SetsFinal(s, t) /\ NoneLost(s, t) /\ TargetsLand(s, t)

LEMMA SameInbound ==
  ASSUME NEW s, Sound(s), NEW j, NEW p \in Project
  PROVE  Inbound(s, j, p, s)
<1> DEFINE ev == [entity |-> Nil]
<1>1. UpsertEffect(s, j, p, ev, s)
  BY NothingUpserted
<1>2. ev.entity \notin {}
  OBVIOUS
<1> HIDE DEF ev
<1>3. Keeps(s, j, p, s)
  BY <1>1, <1>2, NothingRetired, RetireThenUpsert
<1> QED  BY <1>3 DEF Inbound, SetsFinal, NoneLost, TargetsLand

LEMMA UpsertInbound ==
  ASSUME NEW s, Sound(s), NEW j, NEW p \in Project, NEW ev, EventTyped(ev),
         NEW t \in ApplyUpsert(s, j, p, ev)
  PROVE  Inbound(s, j, p, t)
<1>1. UpsertEffect(s, j, p, ev, t)
  BY ApplyUpsertEffect
<1>2. Keeps(s, j, p, t) /\ \A e \in Entity : Mapped(s, e) => Mapped(t, e)
  BY <1>1, NothingRetired, RetireThenUpsert
<1>3. Sound(t) /\ SetsFinal(s, t)
  BY <1>1 DEF UpsertEffect, Frame, SetsFinal
<1> QED  BY <1>2, <1>3 DEF Inbound, NoneLost, TargetsLand

LEMMA TombstoneInbound ==
  ASSUME NEW s, Sound(s), NEW j, NEW p \in Project, NEW e \in Entity, NEW version \in Nat,
         NEW t \in ApplyTombstone(s, j, p, e, version)
  PROVE  Inbound(s, j, p, t)
<1>1. CASE t = s
  BY <1>1, SameInbound
<1>2. CASE Mapped(s, e) /\ s.emap[e].project = p /\ t = Retire(s, j, {e})
  <2> DEFINE ev == [entity |-> Nil]
  <2>1. RetireEffect(s, j, t, {e})
    BY <1>2, Retires
  <2>2. UpsertEffect(t, j, p, ev, t)
    BY <2>1, NothingUpserted DEF RetireEffect
  <2>3. ev.entity \notin {e} /\ ev.entity \notin Entity
    BY NilApart
  <2> HIDE DEF ev
  <2> DEFINE T == {e}
  <2>6. T \in SUBSET Entity /\ ev.entity \notin T /\ \A x \in T : Mapped(s, x) /\ s.emap[x].project = p
    BY <1>2, <2>3
  <2>7. RetireEffect(s, j, t, T)
    BY <2>1
  <2> HIDE DEF T
  <2>8. /\ Keeps(s, j, p, t)
        /\ \A f \in Entity \ (T \cup {ev.entity}) : t.emap[f] = s.emap[f]
    BY <2>2, <2>6, <2>7, RetireThenUpsert
  <2>4. /\ Keeps(s, j, p, t)
        /\ \A f \in Entity \ {e} : t.emap[f] = s.emap[f]
    BY <2>3, <2>8 DEF T
  <2>5. Sound(t) /\ SetsFinal(s, t) /\ t.aliases = s.aliases
    BY <2>1 DEF RetireEffect, SetsFinal
  <2> QED  BY <2>4, <2>5 DEF Inbound, NoneLost, TargetsLand, Mapped
<1>3. t = s \/ (Mapped(s, e) /\ s.emap[e].project = p /\ t = Retire(s, j, {e}))
  BY DEF ApplyTombstone
<1> QED  BY <1>1, <1>2, <1>3

LEMMA ConflictOpenInbound ==
  ASSUME NEW s, Sound(s), NEW j, NEW p \in Project, NEW name \in SetName,
         NEW members \in SUBSET Entity, NEW t \in ApplyConflictOpen(s, p, name, members)
  PROVE  Inbound(s, j, p, t)
<1> DEFINE set == [project |-> p, members |-> members, resolved |-> 0]
<1>1. t = OpenConflictSet(s, name, p, members)
  BY DEF ApplyConflictOpen
<1>2. CASE s.csets[name] # Nil
  BY <1>1, <1>2, SameInbound DEF OpenConflictSet
<1>3. CASE s.csets[name] = Nil
  <2>1. set \in ConflictSetType
    BY DEF ConflictSetType
  <2>2. t = [s EXCEPT !.csets[name] = set]
    BY <1>1, <1>3 DEF OpenConflictSet
  <2> HIDE DEF set
  <2>3. /\ t \in StoreType /\ t.mem = s.mem /\ t.emap = s.emap /\ t.contrib = s.contrib
        /\ t.aliases = s.aliases /\ t.used = s.used
        /\ \A n \in SetName : s.csets[n] # Nil => t.csets[n] = s.csets[n]
    BY <1>3, <2>1, <2>2 DEF Sound, StoreType
  <2>4. Sound(t)
    BY <2>3 DEF Sound, UsedRows, OnePerRow, Canonical, Present, Mapped
  <2>5. Keeps(s, j, p, s)
    BY SameInbound DEF Inbound
  <2>6. Keeps(s, j, p, t)
    BY <2>3, <2>5 DEF Keeps, IntentKept, TrustKept, NewBindingsVisible, Visible, VersionsGrow,
       Bounded, IsBound, Mapped, Present, RowHash
  <2> QED  BY <2>3, <2>4, <2>6 DEF Inbound, SetsFinal, NoneLost, TargetsLand, Mapped
<1> QED  BY <1>2, <1>3

LEMMA ResolveInbound ==
  ASSUME NEW s, Sound(s), NEW j, NEW p \in Project, NEW seq \in Nat, seq # 0, NEW name \in SetName,
         NEW tombstoned \in SUBSET Entity, NEW ev, EventTyped(ev),
         NEW t \in ApplyResolveCommit(s, j, p, seq, name, tombstoned, ev)
  PROVE  Inbound(s, j, p, t)
<1> DEFINE set == s.csets[name]
           known == {e \in tombstoned \ {ev.entity} : Mapped(s, e)}
           legal == /\ tombstoned \subseteq set.members
                    /\ ev.entity \in set.members \/ ~Mapped(s, ev.entity)
                    /\ \A e \in known : s.emap[e].project = p
           u == Retire(s, j, known)
<1>1. CASE t = s
  BY <1>1, SameInbound
<1>2. ASSUME set # Nil, set.resolved = 0, legal, NEW w \in ApplyUpsert(u, j, p, ev),
             t = [MergeContributors(w, ev.entity, ev.contributors) EXCEPT !.csets[name].resolved = seq]
      PROVE  Inbound(s, j, p, t)
  <2>1. known \in SUBSET Entity /\ ev.entity \notin known /\ known \subseteq set.members
    BY <1>2
  <2>2. RetireEffect(s, j, u, known)
    BY <2>1, Retires
  <2>3. \A e \in known : Mapped(s, e) /\ s.emap[e].project = p
    BY <1>2
  <2> HIDE DEF known, u
  <2>4. UpsertEffect(u, j, p, ev, w)
    BY <1>2, <2>2, ApplyUpsertEffect DEF RetireEffect
  <2>5. /\ Keeps(s, j, p, w)
        /\ \A e \in Entity \ known : Mapped(s, e) => Mapped(w, e)
    BY <2>1, <2>2, <2>3, <2>4, RetireThenUpsert
  <2> DEFINE x == MergeContributors(w, ev.entity, ev.contributors)
  <2>6. /\ Sound(x) /\ x.mem = w.mem /\ x.emap = w.emap
        /\ x.aliases = w.aliases /\ x.csets = w.csets /\ x.used = w.used
    BY <2>4, MergeFields DEF UpsertEffect, EventTyped
  <2>7. x.aliases = s.aliases /\ \A n \in SetName : s.csets[n] # Nil => x.csets[n] = s.csets[n]
    BY <2>2, <2>4, <2>6 DEF UpsertEffect, Frame, RetireEffect
  <2>8. t = [x EXCEPT !.csets[name].resolved = seq]
    BY <1>2
  <2> HIDE DEF x
  <2> DEFINE resolved == [set EXCEPT !.resolved = seq]
  <2>9. set \in ConflictSetType
    BY <1>2 DEF Sound, StoreType
  <2>10. /\ resolved \in ConflictSetType /\ resolved.members = set.members
         /\ resolved.resolved = seq
    BY <2>9 DEF ConflictSetType
  <2>11. x.csets[name] = set
    BY <1>2, <2>7
  <2>12. t = [x EXCEPT !.csets = [x.csets EXCEPT ![name] = resolved]]
    BY <2>6, <2>8, <2>11 DEF Sound, StoreType
  <2> HIDE DEF resolved
  <2>13. /\ t \in StoreType /\ t.mem = x.mem /\ t.emap = x.emap /\ t.contrib = x.contrib
         /\ t.aliases = x.aliases /\ t.used = x.used
         /\ t.csets = [x.csets EXCEPT ![name] = resolved]
    BY <2>6, <2>10, <2>12 DEF Sound, StoreType
  <2>14. t.csets[name] = resolved /\ \A n \in SetName \ {name} : t.csets[n] = x.csets[n]
    BY <2>6, <2>13 DEF Sound, StoreType
  <2>15. Sound(t)
    BY <2>6, <2>13 DEF Sound, UsedRows, OnePerRow, Canonical, Present, Mapped
  <2>16. Keeps(s, j, p, t)
    BY <2>5, <2>6, <2>13 DEF Keeps, IntentKept, TrustKept, NewBindingsVisible, Visible, VersionsGrow,
       Bounded, IsBound, Mapped, Present, RowHash
  <2>17. resolved # Nil /\ resolved # set
    BY <1>2, <2>10, NilApart
  <2>18. SetsFinal(s, t)
    BY <1>2, <2>7, <2>10, <2>14, <2>17 DEF SetsFinal
  <2>19. NoneLost(s, t)
    BY <1>2, <2>1, <2>5, <2>6, <2>13, <2>14, <2>17 DEF NoneLost, Mapped
  <2>20. TargetsLand(s, t)
    BY <2>7, <2>13 DEF TargetsLand
  <2> QED  BY <2>15, <2>16, <2>18, <2>19, <2>20 DEF Inbound
<1>3. \/ t = s
      \/ /\ set # Nil /\ set.resolved = 0 /\ legal
         /\ \E w \in ApplyUpsert(u, j, p, ev) :
              t = [MergeContributors(w, ev.entity, ev.contributors) EXCEPT !.csets[name].resolved = seq]
  BY DEF ApplyResolveCommit, IsResolved
<1> QED  BY <1>1, <1>2, <1>3

\* The source of an alias: the alias is logged, its row and entry are gone.
AliasSource(s, from, to) == CloseEntry(DeleteBoundRow(RecordAlias(s, from, to), from), from)

LEMMA AliasLogged ==
  ASSUME NEW s, Sound(s), NEW from \in Entity, NEW to \in Entity
  PROVE  LET t == RecordAlias(s, from, to) IN
         /\ Sound(t)
         /\ t.mem = s.mem /\ t.used = s.used /\ t.emap = s.emap /\ t.contrib = s.contrib
         /\ t.csets = s.csets
         /\ t.aliases[from] # Nil
         /\ t.aliases[from] # s.aliases[from] => t.aliases[from] = to
         /\ \A e \in Entity \ {from} : t.aliases[e] = s.aliases[e]
<1> DEFINE t == RecordAlias(s, from, to)
<1>1. CASE s.aliases[from] # Nil
  BY <1>1 DEF RecordAlias
<1>2. CASE s.aliases[from] = Nil
  <2>1. t = [s EXCEPT !.aliases[from] = to]
    BY <1>2 DEF RecordAlias
  <2> HIDE DEF t
  <2>2. /\ t \in StoreType
        /\ t.mem = s.mem /\ t.used = s.used /\ t.emap = s.emap /\ t.contrib = s.contrib
        /\ t.csets = s.csets
        /\ t.aliases[from] = to
        /\ \A e \in Entity \ {from} : t.aliases[e] = s.aliases[e]
    BY <2>1 DEF Sound, StoreType
  <2>3. Sound(t)
    BY <2>2 DEF Sound, UsedRows, OnePerRow, Canonical, Present, Mapped
  <2> QED  BY <2>2, <2>3, NilApart DEF t
<1> QED  BY <1>1, <1>2

LEMMA AliasSourceFields ==
  ASSUME NEW s, Sound(s), NEW from \in Entity, NEW to \in Entity, Mapped(s, from)
  PROVE  LET u == AliasSource(s, from, to) IN
         /\ Sound(u)
         /\ u.used = s.used /\ u.contrib = s.contrib /\ u.csets = s.csets
         /\ u.aliases[from] # Nil
         /\ u.aliases[from] # s.aliases[from] => u.aliases[from] = to
         /\ \A e \in Entity \ {from} : u.aliases[e] = s.aliases[e]
         /\ ~Mapped(u, from) /\ OthersKept(s, u, {from})
         /\ \A x \in RowId : \/ u.mem[x] = s.mem[x]
                             \/ IsBound(s, from) /\ x = s.emap[from].row /\ ~Present(u, x)
<1> DEFINE l == RecordAlias(s, from, to)
           d == DeleteBoundRow(l, from)
           u == AliasSource(s, from, to)
           r == s.emap[from].row
<1>1. /\ Sound(l)
      /\ l.mem = s.mem /\ l.used = s.used /\ l.emap = s.emap /\ l.contrib = s.contrib
      /\ l.csets = s.csets
      /\ l.aliases[from] # Nil
      /\ l.aliases[from] # s.aliases[from] => l.aliases[from] = to
      /\ \A e \in Entity \ {from} : l.aliases[e] = s.aliases[e]
  BY AliasLogged
<1>2. r \in RowId /\ \A e \in Entity \ {from} : Mapped(s, e) => s.emap[e].row \in RowId \ {r}
  BY EntryMapped DEF Sound, OnePerRow
<1> HIDE DEF l
<1>3. /\ Sound(d)
      /\ d.used = l.used /\ d.emap = l.emap /\ d.contrib = l.contrib
      /\ d.csets = l.csets /\ d.aliases = l.aliases
      /\ \A x \in RowId \ {r} : d.mem[x] = l.mem[x]
      /\ d.mem[r] = l.mem[r] \/ (IsBound(l, from) /\ d.mem[r] = Nil)
  <2>1. CASE IsBound(l, from)
    <3>1. d = [l EXCEPT !.mem[r] = Nil]
      BY <1>1, <2>1 DEF DeleteBoundRow
    <3> HIDE DEF d
    <3>2. /\ d \in StoreType /\ d.mem = [l.mem EXCEPT ![r] = Nil]
          /\ d.used = l.used /\ d.emap = l.emap /\ d.contrib = l.contrib
          /\ d.csets = l.csets /\ d.aliases = l.aliases
      BY <1>1, <1>2, <3>1 DEF Sound, StoreType
    <3>3. d.mem[r] = Nil /\ \A x \in RowId \ {r} : d.mem[x] = l.mem[x]
      BY <1>1, <1>2, <3>2 DEF Sound, StoreType
    <3>4. UsedRows(d) /\ OnePerRow(d) /\ Canonical(d)
      BY <1>1, <3>2 DEF Sound, StoreType, UsedRows, OnePerRow, Canonical, Present, Mapped
    <3> QED  BY <2>1, <3>2, <3>3, <3>4 DEF Sound
  <2>2. CASE ~IsBound(l, from)
    BY <1>1, <2>2 DEF DeleteBoundRow
  <2> QED  BY <2>1, <2>2
<1> HIDE DEF d
<1>4. /\ Sound(u)
      /\ u.emap = [d.emap EXCEPT ![from] = Nil]
      /\ u.mem = d.mem /\ u.used = d.used /\ u.contrib = d.contrib
      /\ u.aliases = d.aliases /\ u.csets = d.csets
  BY <1>3, CloseFields DEF AliasSource, d, l
<1> HIDE DEF u
<1>5. u.emap[from] = Nil /\ \A e \in Entity \ {from} : u.emap[e] = s.emap[e]
  BY <1>1, <1>3, <1>4 DEF Sound, StoreType
<1>6. OthersKept(s, u, {from})
  BY <1>1, <1>2, <1>3, <1>4, <1>5 DEF OthersKept
<1>7. \A x \in RowId : u.mem[x] = s.mem[x] \/ (IsBound(s, from) /\ x = r /\ ~Present(u, x))
  BY <1>1, <1>3, <1>4 DEF IsBound, Mapped, Present
<1> QED  BY <1>1, <1>3, <1>4, <1>5, <1>6, <1>7 DEF u, Mapped

LEMMA AliasTargetEffect ==
  ASSUME NEW s, Sound(s), NEW p \in Project, NEW e \in Entity, Mapped(s, e), s.emap[e].project = p,
         s.emap[e].state = "shadow" => s.emap[e].inert # Nil,
         NEW t \in AliasTarget(s, p, e)
  PROVE  /\ Sound(t) /\ Frame(s, t) /\ OthersKept(s, t, {e})
         /\ \A r \in RowId : Present(s, r) => t.mem[r] = s.mem[r]
         /\ \A r \in RowId : ~Present(s, r) /\ Present(t, r) =>
              /\ r \notin s.used
              /\ s.emap[e].state = "shadow" /\ t.mem[r].project = s.emap[e].inert.project
         /\ IsBound(t, e) /\ t.emap[e].project = p
         /\ t.emap[e].version = s.emap[e].version /\ t.emap[e].ch = s.emap[e].ch
         /\ t.emap[e] = s.emap[e] \/ (~IsBound(s, e) /\ Visible(t, e))
<1> DEFINE entry == s.emap[e]
<1>1. /\ entry \in EntryType /\ entry.state \in {"bound", "shadow"} /\ entry.version \in Nat
      /\ entry.ch \in CanonicalType /\ entry.contributors \in SUBSET Account
      /\ entry.inert \in InertType \cup {Nil}
  BY EntryMapped DEF EntryType
<1>2. CASE entry.state = "bound"
  <2>1. t = s
    BY <1>2 DEF AliasTarget
  <2> QED  BY <1>2, <2>1 DEF Frame, OthersKept, IsBound
<1>3. CASE entry.state = "shadow"
  <2> DEFINE row == [project |-> entry.inert.project, text |-> entry.inert.text,
                     vol |-> entry.inert.vol, status |-> "active", optedOut |-> FALSE,
                     author |-> TRUE]
  <2>1. /\ row \in RowType /\ row.status = "active" /\ row.project \in Project
        /\ row.project = entry.inert.project
    BY <1>1, <1>3 DEF InertType, RowType, Status
  <2>19. row.text = Clean[entry.ch.text]
    BY <1>3 DEF Sound, Canonical, CanonicalEntry
  <2>2. PICK r \in FreshIds(s) :
          t \in {MergeContributors(x, e, entry.contributors) :
                   x \in BindEntity(CloseEntry(InsertProjectedRow(s, r, row), e),
                                    e, r, p, entry.version, entry.ch)}
    BY <1>3 DEF AliasTarget, MaterialiseInert
  <2> HIDE DEF row
  <2> DEFINE i == InsertProjectedRow(s, r, row)
             q == CloseEntry(i, e)
  <2>3. PICK x \in BindEntity(q, e, r, p, entry.version, entry.ch) :
          t = MergeContributors(x, e, entry.contributors)
    BY <2>2
  <2>4. r \in RowId /\ ~Present(s, r) /\ r \notin s.used
    BY FreshApart DEF FreshIds
  <2>5. /\ Sound(i) /\ i.mem = [s.mem EXCEPT ![r] = row]
        /\ i.emap = s.emap /\ i.contrib = s.contrib /\ i.aliases = s.aliases /\ i.csets = s.csets
    BY <2>1, <2>4, InsertFields
  <2>6. /\ Sound(q) /\ q.emap = [i.emap EXCEPT ![e] = Nil] /\ q.mem = i.mem
        /\ q.contrib = i.contrib /\ q.aliases = i.aliases /\ q.csets = i.csets
    BY <2>5, CloseFields
  <2> HIDE DEF i, q
  <2>7. q.mem[r] = row /\ \A y \in RowId \ {r} : q.mem[y] = s.mem[y]
    BY <2>4, <2>5, <2>6 DEF Sound, StoreType
  <2>8. \A f \in Entity \ {e} : q.emap[f] = s.emap[f]
    BY <2>5, <2>6 DEF Sound, StoreType
  <2>9. Present(q, r)
    BY <2>1, <2>7, NilApart DEF Present
  <2>10. /\ Sound(x)
         /\ x.mem = q.mem /\ x.used = q.used /\ x.contrib = q.contrib
         /\ x.aliases = q.aliases /\ x.csets = q.csets
         /\ BoundTo(q, x, e, r, p, entry.version, entry.ch)
    BY <1>1, <2>1, <2>3, <2>4, <2>6, <2>7, <2>9, <2>19, BindFields
  <2>11. /\ Sound(t)
         /\ t.contrib = [x.contrib EXCEPT ![e] = @ \cup entry.contributors]
         /\ t.mem = x.mem /\ t.used = x.used /\ t.emap = x.emap
         /\ t.aliases = x.aliases /\ t.csets = x.csets
    BY <1>1, <2>3, <2>10, MergeFields
  <2>12. \A f \in Entity : s.contrib[f] \subseteq t.contrib[f]
    BY <2>5, <2>6, <2>10, <2>11 DEF Sound, StoreType
  <2>13. Frame(s, t)
    BY <2>5, <2>6, <2>10, <2>11, <2>12 DEF Frame
  <2>14. \A f \in Entity \ {e} : t.emap[f] = s.emap[f] /\ (Mapped(s, f) => s.emap[f].row \in RowId \ {r})
    BY <2>8, <2>10, <2>11, EntryMapped DEF BoundTo, Mapped
  <2>15. OthersKept(s, t, {e})
    BY <2>7, <2>10, <2>11, <2>14 DEF OthersKept
  <2>16. \A y \in RowId : Present(s, y) => t.mem[y] = s.mem[y]
    BY <2>4, <2>7, <2>10, <2>11
  <2>17. IsBound(t, e) /\ Visible(t, e) /\ t.emap[e] = x.emap[e]
    BY <2>10, <2>11 DEF BoundTo, Visible, IsBound, Mapped, Present, RowHash
  <2>18. ~IsBound(s, e)
    BY <1>3 DEF IsBound
  <2>20. \A y \in RowId : ~Present(s, y) /\ Present(t, y) =>
           y \notin s.used /\ t.mem[y].project = entry.inert.project
    BY <2>1, <2>4, <2>7, <2>10, <2>11 DEF Present
  <2> QED  BY <1>3, <2>10, <2>11, <2>13, <2>15, <2>16, <2>17, <2>18, <2>20 DEF BoundTo
<1> QED  BY <1>1, <1>2, <1>3

LEMMA AliasInbound ==
  ASSUME NEW s, Sound(s), NEW j, NEW p \in Project, NEW from \in Entity, NEW to \in Entity,
         from # to, NEW version \in Nat, NEW t \in ApplyAlias(s, p, from, to, version)
  PROVE  Inbound(s, j, p, t)
<1> DEFINE logged == RecordAlias(s, from, to)
           u == AliasSource(s, from, to)
           legal == /\ s.emap[from].project = p
                    /\ Mapped(s, to)
                    /\ s.emap[to].project = p
                    /\ s.emap[to].state = "shadow" => s.emap[to].inert # Nil
<1>1. CASE t = s
  BY <1>1, SameInbound
<1>2. CASE ~Mapped(s, from) /\ t = logged
  <2>5. /\ Sound(logged)
        /\ logged.mem = s.mem /\ logged.used = s.used /\ logged.emap = s.emap
        /\ logged.contrib = s.contrib /\ logged.csets = s.csets
        /\ logged.aliases[from] # Nil
        /\ logged.aliases[from] # s.aliases[from] => logged.aliases[from] = to
        /\ \A e \in Entity \ {from} : logged.aliases[e] = s.aliases[e]
    BY AliasLogged
  <2> HIDE DEF logged
  <2>1. /\ Sound(t)
        /\ t.mem = s.mem /\ t.used = s.used /\ t.emap = s.emap /\ t.contrib = s.contrib
        /\ t.csets = s.csets
        /\ t.aliases[from] # Nil
        /\ t.aliases[from] # s.aliases[from] => t.aliases[from] = to
        /\ \A e \in Entity \ {from} : t.aliases[e] = s.aliases[e]
    BY <1>2, <2>5
  <2>2. Keeps(s, j, p, s)
    BY SameInbound DEF Inbound
  <2>3. \A e \in Entity : t.aliases[e] = Nil => s.aliases[e] = Nil
    BY <2>1
  <2>4. Keeps(s, j, p, t)
    BY <2>1, <2>2, <2>3 DEF Keeps, IntentKept, TrustKept, NewBindingsVisible, Visible, VersionsGrow,
       Bounded, IsBound, Mapped, Present, RowHash
  <2> QED  BY <2>1, <2>4 DEF Inbound, SetsFinal, NoneLost, TargetsLand, Mapped
<1>3. ASSUME Mapped(s, from), legal, NEW x \in AliasTarget(u, p, to), t = InheritProvenance(x, from, to)
      PROVE  Inbound(s, j, p, t)
  <2>1. /\ Sound(u)
        /\ u.used = s.used /\ u.contrib = s.contrib /\ u.csets = s.csets
        /\ u.aliases[from] # Nil
        /\ u.aliases[from] # s.aliases[from] => u.aliases[from] = to
        /\ \A e \in Entity \ {from} : u.aliases[e] = s.aliases[e]
        /\ ~Mapped(u, from) /\ OthersKept(s, u, {from})
        /\ \A r \in RowId : \/ u.mem[r] = s.mem[r]
                            \/ IsBound(s, from) /\ r = s.emap[from].row /\ ~Present(u, r)
    BY <1>3, AliasSourceFields
  <2> HIDE DEF u
  <2>2. \A e \in Entity \ {from} :
          u.emap[e] = s.emap[e] /\ (Mapped(s, e) => u.mem[s.emap[e].row] = s.mem[s.emap[e].row])
    BY <2>1 DEF OthersKept
  <2>3. /\ Mapped(u, to) /\ u.emap[to].project = p
        /\ u.emap[to].state = "shadow" => u.emap[to].inert # Nil
    BY <1>3, <2>2 DEF Mapped
  <2>4. /\ Sound(x) /\ Frame(u, x) /\ OthersKept(u, x, {to})
        /\ \A r \in RowId : Present(u, r) => x.mem[r] = u.mem[r]
        /\ \A r \in RowId : ~Present(u, r) /\ Present(x, r) =>
             /\ r \notin u.used
             /\ u.emap[to].state = "shadow" /\ x.mem[r].project = u.emap[to].inert.project
        /\ IsBound(x, to) /\ x.emap[to].project = p
        /\ x.emap[to].version = u.emap[to].version /\ x.emap[to].ch = u.emap[to].ch
        /\ x.emap[to] = u.emap[to] \/ (~IsBound(u, to) /\ Visible(x, to))
    BY <1>3, <2>1, <2>3, AliasTargetEffect
  <2>5. x.contrib[from] \in SUBSET Account /\ s.contrib[from] \subseteq x.contrib[from]
    BY <2>1, <2>4 DEF Sound, StoreType, Frame
  <2>6. /\ Sound(t)
        /\ t.contrib = [x.contrib EXCEPT ![to] = @ \cup x.contrib[from]]
        /\ t.mem = x.mem /\ t.used = x.used /\ t.emap = x.emap
        /\ t.aliases = x.aliases /\ t.csets = x.csets
    BY <1>3, <2>4, <2>5, MergeFields DEF InheritProvenance
  <2>7. x.contrib[from] \subseteq t.contrib[to]
    BY <2>4, <2>6 DEF Sound, StoreType
  <2>8. t.aliases = u.aliases /\ \A n \in SetName : s.csets[n] # Nil => t.csets[n] = s.csets[n]
    BY <2>1, <2>4, <2>6 DEF Frame
  <2>9. ~Mapped(t, from)
    BY <2>1, <2>4, <2>6 DEF OthersKept, Mapped
  <2>10. \A e \in Entity \ {from, to} :
           t.emap[e] = s.emap[e] /\ (Mapped(s, e) => t.mem[s.emap[e].row] = s.mem[s.emap[e].row])
    BY <2>2, <2>4, <2>6 DEF OthersKept, Mapped
  <2>11. /\ IsBound(t, to) /\ t.emap[to].project = p
         /\ t.emap[to].version = s.emap[to].version /\ t.emap[to].ch = s.emap[to].ch
         /\ t.emap[to] = s.emap[to] \/ (~IsBound(s, to) /\ Visible(t, to))
    BY <2>2, <2>4, <2>6 DEF IsBound, Mapped, Visible, Present, RowHash
  <2>12. \A e \in Entity \ {from} : Mapped(s, e) /\ Present(s, s.emap[e].row) =>
           t.mem[s.emap[e].row] = s.mem[s.emap[e].row]
    BY <2>2, <2>4, <2>6, EntryMapped DEF Present
  <2>13. IntentKept(s, j, t)
    BY <2>1, <2>8, <2>12 DEF IntentKept, IsBound, Present
  <2>14. TrustKept(s, j, t)
    BY <2>9, <2>12 DEF TrustKept, IsBound
  <2>15. NewBindingsVisible(s, t)
    BY <2>9, <2>10, <2>11 DEF NewBindingsVisible, IsBound
  <2>16. VersionsGrow(s, t)
    <3>1. \A e \in Entity \ {from} : t.emap[e].version = s.emap[e].version /\ t.emap[e].ch = s.emap[e].ch
      BY <2>10, <2>11
    <3>2. \A e \in Entity : Mapped(s, e) => s.emap[e].version \in Nat
      BY EntryMapped DEF EntryType
    <3> QED  BY <2>9, <3>1, <3>2 DEF VersionsGrow
  <2>17. Bounded(s, p, t)
    <3>1. \A r \in RowId : Present(u, r) => t.mem[r] = s.mem[r]
      BY <2>1, <2>4, <2>6
    <3>2. \A r \in RowId : ~Present(u, r) /\ Present(t, r) =>
            /\ r \notin s.used
            /\ s.emap[to].state = "shadow" /\ t.mem[r].project = s.emap[to].inert.project
      BY <1>3, <2>1, <2>2, <2>4, <2>6 DEF Present
    <3>3. \A r \in RowId : Present(s, r) =>
            \/ t.mem[r] = s.mem[r]
            \/ IsBound(s, from) /\ r = s.emap[from].row /\ ~Present(t, r)
      BY <2>1, <3>1, <3>2, RowPresent DEF Present
    <3>4. \A r \in RowId : ~Present(s, r) /\ Present(t, r) =>
            s.emap[to].state = "shadow" /\ t.mem[r].project = s.emap[to].inert.project
      BY <2>1, <3>2 DEF Present
    <3> QED  BY <1>3, <2>10, <3>3, <3>4 DEF Bounded
  <2>18. SetsFinal(s, t)
    BY <2>8 DEF SetsFinal
  <2>19. NoneLost(s, t)
    BY <1>3, <2>9, <2>10, <2>11 DEF NoneLost, Mapped, IsBound
  <2>20. TargetsLand(s, t)
    BY <2>1, <2>5, <2>7, <2>8, <2>10, <2>11 DEF TargetsLand, Mapped, IsBound
  <2> QED  BY <2>6, <2>13, <2>14, <2>15, <2>16, <2>17, <2>18, <2>19, <2>20 DEF Inbound, Keeps
<1>4. \/ t = s
      \/ ~Mapped(s, from) /\ t = logged
      \/ Mapped(s, from) /\ legal /\ \E x \in AliasTarget(u, p, to) : t = InheritProvenance(x, from, to)
  BY DEF ApplyAlias, AliasSource
<1> QED  BY <1>1, <1>2, <1>3, <1>4

-----------------------------------------------------------------------------
(* Local work: rows change, associations stay what they are.                 *)

LocalEffect(s, t) ==
  /\ Sound(t) /\ t.aliases = s.aliases
  /\ \A e \in Entity :
       /\ Mapped(t, e) <=> Mapped(s, e)
       /\ Mapped(s, e) =>
            /\ t.emap[e].row = s.emap[e].row /\ t.emap[e].state = s.emap[e].state
            /\ t.emap[e].version = s.emap[e].version /\ t.emap[e].ch = s.emap[e].ch
            /\ t.emap[e].ph = s.emap[e].ph
  /\ \A n \in SetName : s.csets[n] # Nil =>
       /\ t.csets[n] # Nil
       /\ t.csets[n].members = s.csets[n].members /\ t.csets[n].resolved = s.csets[n].resolved

LEMMA SameLocal ==
  ASSUME NEW s, Sound(s)
  PROVE  LocalEffect(s, s)
BY DEF LocalEffect

LEMMA RowsSet ==
  ASSUME NEW s, Sound(s), NEW mem \in [RowId -> RowType \cup {Nil}],
         \A r \in RowId : mem[r] # Nil => r \in s.used
  PROVE  LocalEffect(s, [s EXCEPT !.mem = mem])
<1> DEFINE t == [s EXCEPT !.mem = mem]
<1>1. /\ t \in StoreType /\ t.mem = mem
      /\ t.used = s.used /\ t.emap = s.emap /\ t.aliases = s.aliases /\ t.csets = s.csets
  BY DEF Sound, StoreType
<1> HIDE DEF t
<1>2. Sound(t)
  BY <1>1 DEF Sound, UsedRows, OnePerRow, Canonical, Present, Mapped
<1> QED  BY <1>1, <1>2 DEF LocalEffect, Mapped, t

LEMMA RowSet ==
  ASSUME NEW s, Sound(s), NEW r \in RowId, NEW row \in RowType \cup {Nil}, row # Nil => r \in s.used
  PROVE  LocalEffect(s, [s EXCEPT !.mem[r] = row])
<1> DEFINE mem == [s.mem EXCEPT ![r] = row]
<1>1. /\ mem \in [RowId -> RowType \cup {Nil}]
      /\ \A q \in RowId : mem[q] # Nil => q \in s.used
  BY DEF Sound, StoreType, UsedRows, Present
<1>2. [s EXCEPT !.mem[r] = row] = [s EXCEPT !.mem = mem]
  BY DEF Sound, StoreType
<1> HIDE DEF mem
<1> QED  BY <1>1, <1>2, RowsSet

LEMMA RowInserted ==
  ASSUME NEW s, Sound(s), NEW r \in RowId, NEW row \in RowType
  PROVE  LocalEffect(s, InsertProjectedRow(s, r, row))
<1> DEFINE t == InsertProjectedRow(s, r, row)
<1>1. /\ Sound(t) /\ t.emap = s.emap /\ t.aliases = s.aliases /\ t.csets = s.csets
  BY InsertFields
<1> HIDE DEF t
<1> QED  BY <1>1 DEF LocalEffect, Mapped, t

LEMMA RowRewritten ==
  ASSUME NEW s, Sound(s), NEW r \in RowId, Present(s, r), NEW x \in Text, NEW v \in Vol
  PROVE  LocalEffect(s, [s EXCEPT !.mem[r].text = x, !.mem[r].vol = v])
<1> DEFINE row == [s.mem[r] EXCEPT !.text = x, !.vol = v]
<1>1. s.mem[r] \in RowType /\ r \in s.used /\ row \in RowType
  BY RowPresent, RowFields
<1>2. [s EXCEPT !.mem[r].text = x, !.mem[r].vol = v] = [s EXCEPT !.mem[r] = row]
  BY <1>1 DEF Sound, StoreType, RowType
<1> HIDE DEF row
<1> QED  BY <1>1, <1>2, RowSet

\* MoveProjectRows: project columns only.
LEMMA ProjectsMoved ==
  ASSUME NEW s, Sound(s), NEW old, NEW new \in Project, NEW t,
         t = [s EXCEPT
           !.mem = [r \in RowId |-> IF Present(s, r) /\ s.mem[r].project = old
                                      THEN [s.mem[r] EXCEPT !.project = new] ELSE s.mem[r]],
           !.emap = [e \in Entity |->
                       IF Mapped(s, e) /\ s.emap[e].project = old
                         THEN [s.emap[e] EXCEPT !.project = new] ELSE s.emap[e]],
           !.csets = [n \in SetName |->
                        IF s.csets[n] # Nil /\ s.csets[n].project = old
                          THEN [s.csets[n] EXCEPT !.project = new] ELSE s.csets[n]]]
  PROVE  LocalEffect(s, t)
<1> DEFINE mem == [r \in RowId |-> IF Present(s, r) /\ s.mem[r].project = old
                                     THEN [s.mem[r] EXCEPT !.project = new] ELSE s.mem[r]]
           emap == [e \in Entity |->
                      IF Mapped(s, e) /\ s.emap[e].project = old
                        THEN [s.emap[e] EXCEPT !.project = new] ELSE s.emap[e]]
           csets == [n \in SetName |->
                       IF s.csets[n] # Nil /\ s.csets[n].project = old
                         THEN [s.csets[n] EXCEPT !.project = new] ELSE s.csets[n]]
<1>1. \A r \in RowId : mem[r] \in RowType \cup {Nil} /\ (mem[r] # Nil => Present(s, r))
  BY RowPresent, RowFields DEF Present
<1>2. ASSUME NEW e \in Entity
      PROVE  /\ emap[e] \in EntryType \cup {Nil} /\ (emap[e] # Nil <=> Mapped(s, e))
             /\ Mapped(s, e) =>
                  /\ emap[e].row = s.emap[e].row /\ emap[e].state = s.emap[e].state
                  /\ emap[e].version = s.emap[e].version /\ emap[e].ch = s.emap[e].ch
                  /\ emap[e].ph = s.emap[e].ph /\ emap[e].inert = s.emap[e].inert
  <2> DEFINE moved == [s.emap[e] EXCEPT !.project = new]
  <2>1. CASE ~Mapped(s, e)
    BY <2>1 DEF Mapped
  <2>2. CASE Mapped(s, e)
    <3>1. s.emap[e] \in EntryType
      BY <2>2, EntryMapped
    <3>2. /\ moved \in EntryType
          /\ moved.row = s.emap[e].row /\ moved.state = s.emap[e].state
          /\ moved.version = s.emap[e].version /\ moved.ch = s.emap[e].ch
          /\ moved.ph = s.emap[e].ph /\ moved.inert = s.emap[e].inert
      BY <3>1 DEF EntryType
    <3>3. emap[e] = moved \/ emap[e] = s.emap[e]
      OBVIOUS
    <3> HIDE DEF moved, emap
    <3> QED  BY <2>2, <3>1, <3>2, <3>3, NilApart
  <2> QED  BY <2>1, <2>2
<1>3. ASSUME NEW n \in SetName
      PROVE  /\ csets[n] \in ConflictSetType \cup {Nil}
             /\ s.csets[n] # Nil =>
                  /\ csets[n] # Nil
                  /\ csets[n].members = s.csets[n].members /\ csets[n].resolved = s.csets[n].resolved
  <2> DEFINE moved == [s.csets[n] EXCEPT !.project = new]
  <2>1. s.csets[n] \in ConflictSetType \cup {Nil}
    BY DEF Sound, StoreType
  <2>2. CASE s.csets[n] = Nil
    BY <2>2
  <2>3. CASE s.csets[n] # Nil
    <3>1. /\ moved \in ConflictSetType
          /\ moved.members = s.csets[n].members /\ moved.resolved = s.csets[n].resolved
      BY <2>1, <2>3 DEF ConflictSetType
    <3>2. csets[n] = moved \/ csets[n] = s.csets[n]
      OBVIOUS
    <3> HIDE DEF moved, csets
    <3> QED  BY <2>1, <2>3, <3>1, <3>2, NilApart
  <2> QED  BY <2>2, <2>3
<1>4. /\ mem \in [RowId -> RowType \cup {Nil}]
      /\ emap \in [Entity -> EntryType \cup {Nil}]
      /\ csets \in [SetName -> ConflictSetType \cup {Nil}]
  BY <1>1, <1>2, <1>3
<1> HIDE DEF mem, emap, csets
<1>5. /\ t \in StoreType /\ t.mem = mem /\ t.emap = emap /\ t.csets = csets
      /\ t.used = s.used /\ t.aliases = s.aliases
  BY <1>4 DEF Sound, StoreType, mem, emap, csets
<1>6. UsedRows(t)
  BY <1>1, <1>5 DEF Sound, UsedRows, Present
<1>7. OnePerRow(t)
  BY <1>2, <1>5 DEF Sound, OnePerRow, Mapped
<1>8. Canonical(t)
  BY <1>2, <1>5 DEF Sound, Canonical, CanonicalEntry, Mapped
<1> QED  BY <1>2, <1>3, <1>5, <1>6, <1>7, <1>8 DEF LocalEffect, Sound, Mapped

LEMMA LocalStep ==
  ASSUME Sound(store), LocalNext
  PROVE  LocalEffect(store, store') /\ cursor' = cursor
<1> USE BoundAssumption
<1>1. \A r \in RowId : Present(store, r) => Row(r) \in RowType /\ r \in store.used
  BY RowPresent DEF Row
<1>2. ASSUME NEW r \in RowId, NEW row \in RowType \cup {Nil}, row # Nil => r \in store.used,
             SetRow(r, row)
      PROVE  LocalEffect(store, store')
  BY <1>2, RowSet DEF SetRow
<1>3. ASSUME NEW r \in RowId, NEW p \in Scopes, NEW x \in LocalText, NEW v \in Vol
      PROVE  [project |-> p, text |-> x, vol |-> v, status |-> "active",
              optedOut |-> FALSE, author |-> FALSE] \in RowType
  BY DEF RowType, Status
<1>4. ASSUME NEW r \in RowId, NEW p \in Scopes, NEW x \in LocalText, NEW v \in Vol,
             CreateMemory(r, p, x, v)
      PROVE  LocalEffect(store, store') /\ cursor' = cursor
  BY <1>3, <1>4, RowInserted DEF CreateMemory
<1>5. ASSUME NEW r \in RowId, NEW p \in Scopes, NEW x \in LocalText, NEW v \in Vol,
             MergeIntoSimilar(r, p, x, v)
      PROVE  LocalEffect(store, store') /\ cursor' = cursor
  BY <1>5, RowRewritten, SameLocal DEF MergeIntoSimilar
<1>6. ASSUME NEW r \in RowId, NEW p \in Scopes, NEW x \in LocalText, NEW v \in Vol,
             Restore(r, p, x, v)
      PROVE  LocalEffect(store, store') /\ cursor' = cursor
  <2>1. CASE Present(store, r)
    <3> DEFINE row == [Row(r) EXCEPT !.project = p, !.text = x, !.vol = v, !.status = "active"]
    <3>1. row \in RowType /\ r \in store.used
      BY <1>1, <2>1 DEF RowType, Status
    <3>2. SetRow(r, row) /\ cursor' = cursor
      BY <1>6, <2>1 DEF Restore, SetRow
    <3> HIDE DEF row
    <3> QED  BY <1>2, <3>1, <3>2
  <2>2. CASE ~Present(store, r)
    BY <1>3, <1>6, <2>2, RowInserted DEF Restore
  <2> QED  BY <2>1, <2>2
<1>7. ASSUME NEW r \in RowId, NEW x \in LocalText, NEW v \in Vol, Update(r, x, v)
      PROVE  LocalEffect(store, store') /\ cursor' = cursor
  <2> DEFINE row == [Row(r) EXCEPT !.text = x, !.vol = v]
  <2>1. row \in RowType /\ r \in store.used
    BY <1>1, <1>7, RowFields DEF Update, NotInvalidated
  <2>2. SetRow(r, row) /\ cursor' = cursor
    BY <1>7 DEF Update
  <2> HIDE DEF row
  <2> QED  BY <1>2, <2>1, <2>2
<1>8. ASSUME NEW r \in RowId, NEW v \in Vol, Present(store, r), SetRow(r, [Row(r) EXCEPT !.vol = v])
      PROVE  LocalEffect(store, store')
  <2>1. [Row(r) EXCEPT !.vol = v] \in RowType /\ r \in store.used
    BY <1>1, <1>8 DEF RowType
  <2> QED  BY <1>2, <1>8, <2>1
<1>9. ASSUME NEW r \in RowId, NEW st \in Status, Present(store, r),
             SetRow(r, [Row(r) EXCEPT !.status = st])
      PROVE  LocalEffect(store, store')
  <2>1. [Row(r) EXCEPT !.status = st] \in RowType /\ r \in store.used
    BY <1>1, <1>9, RowFields
  <2> QED  BY <1>2, <1>9, <2>1
<1>10. ASSUME NEW r \in RowId, NEW v \in Vol, ChangeTrust(r, v)
       PROVE  LocalEffect(store, store') /\ cursor' = cursor
  BY <1>8, <1>10 DEF ChangeTrust, NotInvalidated
<1>11. ASSUME NEW r \in RowId, NEW v \in Vol, WeakenToDeath(r, v)
       PROVE  LocalEffect(store, store') /\ cursor' = cursor
  <2>1. Present(store, r) /\ cursor' = cursor
    BY <1>11 DEF WeakenToDeath, NotInvalidated
  <2>2. CASE IsRowSyncBound(store, r)
    BY <1>8, <1>11, <2>1, <2>2 DEF WeakenToDeath
  <2>3. CASE ~IsRowSyncBound(store, r)
    BY <1>9, <1>11, <2>1, <2>3 DEF WeakenToDeath, Status
  <2> QED  BY <2>1, <2>2, <2>3
<1>12. ASSUME NEW r \in RowId, NEW how, Retract(r, how)
       PROVE  LocalEffect(store, store') /\ cursor' = cursor
  <2>1. Present(store, r) /\ cursor' = cursor
    BY <1>12 DEF Retract
  <2>2. CASE how = "delete"
    BY <1>2, <1>12, <2>1, <2>2 DEF Retract
  <2>3. CASE how # "delete"
    BY <1>9, <1>12, <2>1, <2>3 DEF Retract, Status
  <2> QED  BY <2>1, <2>2, <2>3
<1>13. ASSUME NEW r \in RowId, DetectConflicts(r)
       PROVE  LocalEffect(store, store') /\ cursor' = cursor
  <2>1. CASE store' = store
    BY <1>13, <2>1, SameLocal DEF DetectConflicts
  <2>2. ASSUME NEW loser \in store.used,
               SetRow(loser, IF Present(store, loser) /\ Row(loser).status = "active"
                               THEN [Row(loser) EXCEPT !.status = "superseded"] ELSE Row(loser))
        PROVE  LocalEffect(store, store')
    <3>1. loser \in RowId /\ Row(loser) \in RowType \cup {Nil}
      BY DEF Sound, StoreType, Row
    <3>2. CASE Present(store, loser) /\ Row(loser).status = "active"
      BY <1>9, <2>2, <3>1, <3>2 DEF Status
    <3>3. CASE ~(Present(store, loser) /\ Row(loser).status = "active")
      BY <1>2, <2>2, <3>1, <3>3
    <3> QED  BY <3>2, <3>3
  <2> QED  BY <1>13, <2>1, <2>2 DEF DetectConflicts
<1>14. ASSUME NEW r \in RowId, Promote(r)
       PROVE  LocalEffect(store, store') /\ cursor' = cursor
  <2>1. [Row(r) EXCEPT !.project = Global] \in RowType /\ r \in store.used
    BY <1>1, <1>14, RowFields DEF Promote, NotInvalidated
  <2> QED  BY <1>2, <1>14, <2>1 DEF Promote
<1>15. ASSUME NEW r \in RowId, OptOut(r)
       PROVE  LocalEffect(store, store') /\ cursor' = cursor
  <2>1. [Row(r) EXCEPT !.optedOut = TRUE] \in RowType /\ r \in store.used
    BY <1>1, <1>15, RowFields DEF OptOut
  <2> QED  BY <1>2, <1>15, <2>1 DEF OptOut
<1>16. ASSUME NEW old, NEW new \in Project \cup {Global}, RenameFile(old, new)
       PROVE  LocalEffect(store, store') /\ cursor' = cursor
  <2> DEFINE active == {r \in RowId : Present(store, r) /\ Row(r).status = "active" /\ Row(r).project = old}
             mem == [r \in RowId |-> IF r \in active THEN [Row(r) EXCEPT !.project = new] ELSE Row(r)]
  <2>1. store' = [store EXCEPT !.mem = mem] /\ cursor' = cursor
    BY <1>16 DEF RenameFile
  <2>2. \A r \in RowId : mem[r] \in RowType \cup {Nil} /\ (mem[r] # Nil => Present(store, r))
    BY <1>1, RowFields DEF Present, Row, Sound, StoreType
  <2>3. mem \in [RowId -> RowType \cup {Nil}] /\ \A r \in RowId : mem[r] # Nil => r \in store.used
    BY <1>1, <2>2
  <2> HIDE DEF mem, active
  <2> QED  BY <2>1, <2>3, RowsSet
<1> QED  BY <1>4, <1>5, <1>6, <1>7, <1>10, <1>11, <1>12, <1>13, <1>14, <1>15, <1>16 DEF LocalNext

LEMMA AutonomousStep ==
  ASSUME Sound(store), AutonomousNext
  PROVE  LocalEffect(store, store') /\ cursor' = cursor
<1> USE BoundAssumption
<1>1. \A r \in RowId : Present(store, r) => Row(r) \in RowType /\ r \in store.used
  BY RowPresent DEF Row
<1>2. ASSUME NEW r \in RowId, NEW row \in RowType \cup {Nil}, row # Nil => r \in store.used,
             SetRow(r, row)
      PROVE  LocalEffect(store, store')
  BY <1>2, RowSet DEF SetRow
<1>3. ASSUME NEW r \in RowId, NEW v \in Vol, ChurnTrust(r, v)
      PROVE  LocalEffect(store, store') /\ cursor' = cursor
  <2>1. [Row(r) EXCEPT !.vol = v] \in RowType /\ r \in store.used
    BY <1>1, <1>3 DEF RowType, ChurnTrust
  <2> QED  BY <1>2, <1>3, <2>1 DEF ChurnTrust
<1>4. ASSUME NEW r \in RowId, Prune(r)
      PROVE  LocalEffect(store, store') /\ cursor' = cursor
  BY <1>2, <1>4 DEF Prune
<1>5. ASSUME NEW r \in RowId, AutoPromote(r)
      PROVE  LocalEffect(store, store') /\ cursor' = cursor
  <2>1. [Row(r) EXCEPT !.project = Global] \in RowType /\ r \in store.used
    BY <1>1, <1>5, RowFields DEF AutoPromote, Promote, NotInvalidated
  <2> QED  BY <1>2, <1>5, <2>1 DEF AutoPromote, Promote
<1>6. ASSUME NEW r \in RowId, RepairAnchor(r)
      PROVE  LocalEffect(store, store') /\ cursor' = cursor
  <2> DEFINE row == [Row(r) EXCEPT !.text = Repair[@]]
  <2>1. row \in RowType /\ r \in store.used
    BY <1>1, <1>6 DEF RowType, RepairAnchor, NotInvalidated
  <2>2. SetRow(r, row) /\ cursor' = cursor
    BY <1>6 DEF RepairAnchor
  <2> HIDE DEF row
  <2> QED  BY <1>2, <2>1, <2>2
<1>7. ASSUME NEW rep \in RowId, NEW member \in RowId, NEW x \in LocalText, NEW v \in Vol,
             ConsolidateCluster(rep, member, x, v)
      PROVE  LocalEffect(store, store') /\ cursor' = cursor
  <2> DEFINE rows == {r \in {rep, member} : Present(store, r)}
             mem == [r \in RowId |->
                       CASE r \in rows /\ r = rep -> [Row(r) EXCEPT !.text = x, !.vol = v]
                         [] r \in rows /\ r = member -> [Row(r) EXCEPT !.status = "invalidated"]
                         [] OTHER -> Row(r)]
  <2>1. store' = [store EXCEPT !.mem = mem] /\ cursor' = cursor
    BY <1>7 DEF ConsolidateCluster
  <2>2. \A r \in RowId : r \in rows =>
          /\ [Row(r) EXCEPT !.text = x, !.vol = v] \in RowType
          /\ [Row(r) EXCEPT !.status = "invalidated"] \in RowType
    BY <1>1, RowFields DEF Status
  <2>3. \A r \in RowId : mem[r] \in RowType \cup {Nil} /\ (mem[r] # Nil => Present(store, r))
    BY <2>2 DEF Present, Row, Sound, StoreType
  <2>4. mem \in [RowId -> RowType \cup {Nil}] /\ \A r \in RowId : mem[r] # Nil => r \in store.used
    BY <1>1, <2>3
  <2> HIDE DEF mem, rows
  <2> QED  BY <2>1, <2>4, RowsSet
<1>8. ASSUME NEW pair \in Rescopes, MoveProjectRows(pair[1], pair[2])
      PROVE  LocalEffect(store, store') /\ cursor' = cursor
  BY <1>8, ProjectsMoved DEF MoveProjectRows, Row
<1> QED  BY <1>3, <1>4, <1>5, <1>6, <1>7, <1>8 DEF AutonomousNext

LEMMA ConsumeStep ==
  ASSUME Sound(store), ConsumeNext
  PROVE  LocalEffect(store, store') /\ cursor' = cursor
BY SameLocal DEF ConsumeNext

LEMMA NotApplying ==
  ASSUME Sound(store), LocalNext \/ AutonomousNext \/ ConsumeNext
  PROVE  LocalEffect(store, store') /\ cursor' = cursor
BY LocalStep, AutonomousStep, ConsumeStep

-----------------------------------------------------------------------------
(* The steps of the replica.                                                 *)

LEMMA EnvelopeTyped ==
  ASSUME NEW ev \in Envelope
  PROVE  EventTyped(ev)
<1>1. PICK e \in Entity :
        ev \in [entity: {e}, version: 1 .. MaxVersion, id: RowId, text: Text, vol: Vol,
                contributors: Contribs[e]]
  BY DEF Envelope
<1>2. Contribs[e] \subseteq SUBSET Account /\ 1 .. MaxVersion \subseteq Nat
  BY BoundAssumption
<1> QED  BY <1>1, <1>2 DEF EventTyped

ReplicaInv == Sound(store) /\ cursor \in [Project -> Nat]

LEMMA ApplyStep ==
  ASSUME ReplicaInv, NEW p \in Project,
         \/ UpsertEvent(p) \/ TombstoneEvent(p) \/ AliasEvent(p)
         \/ ConflictOpenEvent(p) \/ ResolveEvent(p)
  PROVE  /\ Inbound(store, journal, p, store')
         /\ cursor' = [cursor EXCEPT ![p] = cursor[p] + 1]
<1> USE DEF ReplicaInv
<1>1. 1 .. MaxVersion \subseteq Nat
  BY BoundAssumption
<1>2. CASE UpsertEvent(p)
  BY <1>2, EnvelopeTyped, UpsertInbound DEF UpsertEvent, Commit
<1>3. CASE TombstoneEvent(p)
  BY <1>1, <1>3, TombstoneInbound DEF TombstoneEvent, Commit
<1>4. CASE AliasEvent(p)
  BY <1>1, <1>4, AliasInbound DEF AliasEvent, Commit
<1>5. CASE ConflictOpenEvent(p)
  BY <1>5, ConflictOpenInbound DEF ConflictOpenEvent, Commit
<1>6. CASE ResolveEvent(p)
  <2>1. PICK name \in SetName, T \in SUBSET Entity, ev \in Envelope :
          store' \in ApplyResolveCommit(store, journal, p, cursor[p] + 1, name, T, ev)
    BY <1>6 DEF ResolveEvent
  <2>2. cursor[p] + 1 \in Nat /\ cursor[p] + 1 # 0
    OBVIOUS
  <2>3. EventTyped(ev)
    BY EnvelopeTyped
  <2>4. Inbound(store, journal, p, store')
    BY <2>1, <2>2, <2>3, ResolveInbound
  <2> QED  BY <1>6, <2>4 DEF ResolveEvent, Commit
<1> QED  BY <1>2, <1>3, <1>4, <1>5, <1>6

\* Every step is an event of one project, or leaves every association alone.
LEMMA StepCases ==
  ASSUME ReplicaInv, [Next]_vars
  PROVE  \/ \E p \in Project :
              /\ Inbound(store, journal, p, store')
              /\ cursor' = [cursor EXCEPT ![p] = cursor[p] + 1]
              /\ cursor'[p] # cursor[p]
         \/ LocalEffect(store, store') /\ cursor' = cursor
<1>1. ASSUME NEW p \in Project, cursor' = [cursor EXCEPT ![p] = cursor[p] + 1]
      PROVE  cursor'[p] # cursor[p]
  BY <1>1 DEF ReplicaInv
<1>2. CASE ApplyNext
  BY <1>1, <1>2, ApplyStep DEF ApplyNext
<1>3. CASE LocalNext \/ AutonomousNext \/ ConsumeNext
  BY <1>3, NotApplying DEF ReplicaInv
<1>4. CASE UNCHANGED vars
  BY <1>4, SameLocal DEF vars, ReplicaInv
<1> QED  BY <1>2, <1>3, <1>4 DEF Next

LEMMA ReplicaInvInductive == Spec => []ReplicaInv
<1>1. Init => ReplicaInv
  BY FS_EmptySet DEF Init, EmptyStore, ReplicaInv, Sound, StoreType, UsedRows, OnePerRow, Canonical, Present, Mapped
<1>2. ReplicaInv /\ [Next]_vars => ReplicaInv'
  <2> SUFFICES ASSUME ReplicaInv, [Next]_vars PROVE ReplicaInv'
    OBVIOUS
  <2> QED  BY StepCases DEF ReplicaInv, Inbound, LocalEffect
<1> QED  BY <1>1, <1>2, PTL DEF Spec

(* X26: in every reachable state a local row carries at most one association *)
(* (assertNoForeignAssociation, entity-map.ts).                              *)
THEOREM RowsCarryOneEntity == Spec => []OneEntityPerRow
<1>1. ReplicaInv => OneEntityPerRow
  BY DEF ReplicaInv, Sound, OnePerRow, OneEntityPerRow, Emap
<1> QED  BY <1>1, ReplicaInvInductive, PTL

(* What is pending of the user's own survives every event but an alias: the  *)
(* bytes, status and existence of the row, and its trust (T3, S9).           *)
THEOREM IntentSurvives == Spec => PendingIntentSurvives
<1>1. ReplicaInv /\ [Next]_vars =>
        [Applying => \A e \in Entity :
           IsBound(store, e) /\ Present(store, Emap[e].row) /\ IntentOn(e)
             /\ store'.aliases[e] = Nil =>
               /\ Present(store', Emap[e].row)
               /\ Mem'[Emap[e].row].text = Mem[Emap[e].row].text
               /\ Mem'[Emap[e].row].status = Mem[Emap[e].row].status]_vars
  <2> SUFFICES ASSUME ReplicaInv, [Next]_vars, Applying
               PROVE  \E p \in Project : Inbound(store, journal, p, store')
    BY DEF Inbound, Keeps, IntentKept, IntentOn, Mem, Emap
  <2> QED  BY StepCases DEF Applying
<1>2. ReplicaInv /\ [Next]_vars =>
        [Applying => \A e \in Entity :
           LET r == Emap[e].row IN
           IsBound(store, e) /\ Present(store, r) /\ IsBound(store', e) /\ Emap'[e].row = r
             /\ HasEntry(journal, r, {"pending", "deferred", "enqueued"}) =>
               Mem'[r].vol = Mem[r].vol]_vars
  <2> SUFFICES ASSUME ReplicaInv, [Next]_vars, Applying
               PROVE  \E p \in Project : Inbound(store, journal, p, store')
    BY DEF Inbound, Keeps, TrustKept, Mem, Emap
  <2> QED  BY StepCases DEF Applying
<1>3. Spec => LocalIntentSurvives
  BY <1>1, ReplicaInvInductive, PTL DEF Spec, LocalIntentSurvives
<1>4. Spec => PendingTrustSurvives
  BY <1>2, ReplicaInvInductive, PTL DEF Spec, PendingTrustSurvives
<1> QED  BY <1>3, <1>4 DEF PendingIntentSurvives

(* Replays, stale events and alias materialisations never move an entry      *)
(* back, and what an event binds exists, is active and has the bytes whose   *)
(* hash is recorded (bindEntity calls of upsert-apply.ts).                   *)
THEOREM EntriesEarned == Spec => EntriesAreEarned
<1>1. ReplicaInv /\ [Next]_vars =>
        [\A e \in Entity : Mapped(store, e) /\ Mapped(store', e) =>
           /\ Emap'[e].version >= Emap[e].version
           /\ Emap'[e].ch # Emap[e].ch => Emap'[e].version > Emap[e].version]_vars
  <2> SUFFICES ASSUME ReplicaInv, [Next]_vars
               PROVE  VersionsGrow(store, store')
    BY DEF VersionsGrow, Emap
  <2>1. LocalEffect(store, store') => VersionsGrow(store, store')
    <3>1. \A e \in Entity : Mapped(store, e) => store.emap[e].version \in Nat
      BY EntryMapped DEF ReplicaInv, EntryType
    <3> QED  BY <3>1 DEF LocalEffect, VersionsGrow
  <2> QED  BY <2>1, StepCases DEF Inbound, Keeps
<1>2. ReplicaInv /\ [Next]_vars =>
        [Applying => \A e \in Entity :
           IsBound(store', e) /\ Emap'[e] # Emap[e] =>
             LET r == Emap'[e].row IN
             Present(store', r) /\ Mem'[r].status = "active" /\ RowHash(store', r) = Emap'[e].ph]_vars
  <2> SUFFICES ASSUME ReplicaInv, [Next]_vars, Applying
               PROVE  NewBindingsVisible(store, store')
    BY DEF NewBindingsVisible, Visible, Mem, Emap
  <2> QED  BY StepCases DEF Applying, Inbound, Keeps
<1>3. Spec => VersionsAdvance
  BY <1>1, ReplicaInvInductive, PTL DEF Spec, VersionsAdvance
<1>4. Spec => BindingsAreVisible
  BY <1>2, ReplicaInvInductive, PTL DEF Spec, BindingsAreVisible
<1> QED  BY <1>3, <1>4 DEF EntriesAreEarned

(* What an event of one project may do to the rows and entries of another:   *)
(* it takes an entity over, and then reaches the row that entity holds, or   *)
(* it leaves them alone; no row goes to a third project, and what is made is *)
(* the event's (upsert-apply.ts, which compares no project of an entity it   *)
(* finds mapped; apply.ts, apply-alias.ts and conflict-sets.ts, which do).   *)
THEOREM BoundaryKept == Spec => ProjectBoundary
<1>1. ReplicaInv /\ [Next]_vars =>
        [\A p \in Project : cursor'[p] # cursor[p] =>
           EntriesStayOrMove(p) /\ OtherRowsAreReached(p) /\ RowsAreMade(p) /\ RowsOfPStay(p)]_vars
  <2> SUFFICES ASSUME ReplicaInv, [Next]_vars, NEW p \in Project, cursor'[p] # cursor[p]
               PROVE  EntriesStayOrMove(p) /\ OtherRowsAreReached(p) /\ RowsAreMade(p) /\ RowsOfPStay(p)
    OBVIOUS
  <2>1. PICK q \in Project : /\ Inbound(store, journal, q, store')
                             /\ cursor' = [cursor EXCEPT ![q] = cursor[q] + 1]
    BY StepCases
  <2>2. q = p
    BY <2>1 DEF ReplicaInv
  <2>3. Bounded(store, p, store')
    BY <2>1, <2>2 DEF Inbound, Keeps
  <2>4. EntriesStayOrMove(p) /\ OtherRowsAreReached(p)
    BY <2>3 DEF Bounded, EntriesStayOrMove, OtherRowsAreReached, TakenOver, Mem, Emap
  <2>5. RowsAreMade(p) /\ RowsOfPStay(p)
    BY <2>3 DEF Bounded, RowsAreMade, RowsOfPStay, Mem, Emap
  <2> QED  BY <2>4, <2>5
<1> QED  BY <1>1, ReplicaInvInductive, PTL DEF Spec, ProjectBoundary

(* Nothing of the team's vanishes silently: an association ends only by an   *)
(* event about its entity, the target of an alias is materialised and        *)
(* inherits the provenance, a set keeps its members and its resolution (D2,  *)
(* T6, apply-alias.ts, conflict-sets.ts).                                    *)
THEOREM NothingIsLost == Spec => NothingVanishes
<1>1. ReplicaInv /\ [Next]_vars =>
        [LET lost == {e \in Entity : Mapped(store, e) /\ ~Mapped(store', e)} IN
         /\ ~Applying => lost = {}
         /\ \A e \in lost :
              \/ \E n \in SetName : /\ store.csets[n] # Nil /\ store.csets[n] # store'.csets[n]
                                  /\ e \in store.csets[n].members
              \/ \A f \in Entity \ {e} :
                   /\ Mapped(store', f) <=> Mapped(store, f)
                   /\ Mapped(store, f) => Emap'[f].ch = Emap[f].ch]_vars
  <2> SUFFICES ASSUME ReplicaInv, [Next]_vars
               PROVE  /\ NoneLost(store, store')
                      /\ ~Applying => \A e \in Entity : Mapped(store, e) => Mapped(store', e)
    BY DEF NoneLost, Emap
  <2>1. LocalEffect(store, store') =>
          NoneLost(store, store') /\ \A e \in Entity : Mapped(store, e) => Mapped(store', e)
    BY DEF LocalEffect, NoneLost
  <2> QED  BY <2>1, StepCases DEF Applying, Inbound
<1>2. ReplicaInv /\ [Next]_vars =>
        /\ [\A from \in Entity :
              Mapped(store, from) /\ ~Mapped(store', from) /\ store'.aliases[from] # store.aliases[from] =>
                LET to == store'.aliases[from] IN IsBound(store', to)]_vars
        /\ [\A e \in Entity :
              IsBound(store, e) /\ ~Mapped(store', e) /\ store'.aliases[e] # store.aliases[e] =>
                store.contrib[e] \subseteq store'.contrib[store'.aliases[e]]]_vars
  <2> SUFFICES ASSUME ReplicaInv, [Next]_vars
               PROVE  TargetsLand(store, store')
    BY DEF TargetsLand, IsBound
  <2>1. LocalEffect(store, store') => TargetsLand(store, store')
    BY DEF LocalEffect, TargetsLand
  <2> QED  BY <2>1, StepCases DEF Inbound
<1>3. ReplicaInv /\ [Next]_vars =>
        [\A n \in SetName : store.csets[n] # Nil =>
           /\ store'.csets[n] # Nil
           /\ store'.csets[n].members = store.csets[n].members
           /\ store.csets[n].resolved # 0 => store'.csets[n].resolved = store.csets[n].resolved]_vars
  <2> SUFFICES ASSUME ReplicaInv, [Next]_vars
               PROVE  SetsFinal(store, store')
    BY DEF SetsFinal
  <2>1. LocalEffect(store, store') => SetsFinal(store, store')
    BY DEF LocalEffect, SetsFinal
  <2> QED  BY <2>1, StepCases DEF Inbound
<1>4. Spec => NoVanish
  BY <1>1, ReplicaInvInductive, PTL DEF Spec, NoVanish
<1>5. Spec => AliasTargetsMaterialise /\ BoundProvenanceInherited
  BY <1>2, ReplicaInvInductive, PTL DEF Spec, AliasTargetsMaterialise, BoundProvenanceInherited
<1>6. Spec => ResolutionIsFinal
  BY <1>3, ReplicaInvInductive, PTL DEF Spec, ResolutionIsFinal
<1> QED  BY <1>4, <1>5, <1>6 DEF NothingVanishes

-----------------------------------------------------------------------------
(* Types.                                                                    *)

LEMMA EntriesTyped ==
  ASSUME NEW r \in RowId, NEW p \in Project \cup {Global}, NEW op \in {"upsert", "tombstone"}
  PROVE  Entry(r, p, op) \in Seq(Journal!EntryType)
<1>1. CASE p = Global
  BY <1>1 DEF Entry
<1>2. CASE p # Global
  <2> DEFINE entry == [row |-> r, project |-> p, op |-> op, class |-> "pending"]
  <2>1. entry \in Journal!EntryType
    BY <1>2 DEF Journal!EntryType, Journal!JournalOp, Journal!Pending
  <2>2. Entry(r, p, op) = <<entry>>
    BY <1>2 DEF Entry
  <2> HIDE DEF entry
  <2> QED  BY <2>1, <2>2
<1> QED  BY <1>1, <1>2

LEMMA JournalGrows ==
  ASSUME Journal!TypeOK, NEW entries \in Seq(Journal!EntryType), JournalAll(entries)
  PROVE  Journal!TypeOK'
BY BoundAssumption DEF Journal!TypeOK, JournalAll

LEMMA JournalRewritten ==
  ASSUME Journal!TypeOK, Len(journal') = Len(journal), journal' \in Seq(Journal!EntryType),
         jcursor' \in [Project -> Nat]
  PROVE  Journal!TypeOK'
BY DEF Journal!TypeOK

LEMMA WorkerTyped ==
  ASSUME Journal!TypeOK, Journal!Consume \/ Journal!Reconcile
  PROVE  Journal!TypeOK'
<1>1. ASSUME NEW S \in SUBSET DOMAIN journal, NEW items \in Journal!ItemBatches(S),
             journal' = Journal!Classified(items)
      PROVE  Len(journal') = Len(journal) /\ journal' \in Seq(Journal!EntryType)
  <2>1. PICK T \in SUBSET S : items \in [T -> Journal!JournalClass]
    BY DEF Journal!ItemBatches
  <2>2. \A i \in DOMAIN journal : journal[i] \in Journal!EntryType
    BY DEF Journal!TypeOK
  <2>3. ASSUME NEW i \in DOMAIN journal, NEW class \in Journal!JournalClass
        PROVE  [journal[i] EXCEPT !.class = class] \in Journal!EntryType
    BY <2>2 DEF Journal!EntryType
  <2>4. \A i \in DOMAIN journal :
          (IF i \in DOMAIN items THEN [journal[i] EXCEPT !.class = items[i]] ELSE journal[i])
            \in Journal!EntryType
    BY <2>1, <2>2, <2>3
  <2>5. Len(journal) \in Nat /\ DOMAIN journal = 1 .. Len(journal)
    BY DEF Journal!TypeOK
  <2> QED  BY <1>1, <2>4, <2>5 DEF Journal!Classified
<1>2. CASE Journal!Consume
  <2>1. PICK p \in Project, to \in 0 .. (Len(journal) + 0) :
          \E items \in Journal!ItemBatches(Journal!Consumable(p, to)) :
            Journal!ClassifyAndAdvance(p, items, to)
    BY <1>2 DEF Journal!Consume
  <2>2. Journal!Consumable(p, to) \in SUBSET DOMAIN journal
    BY DEF Journal!Consumable
  <2>3. to \in Nat
    BY DEF Journal!TypeOK
  <2>4. jcursor' \in [Project -> Nat]
    BY <2>1, <2>3 DEF Journal!ClassifyAndAdvance, Journal!TypeOK
  <2> QED  BY <1>1, <2>1, <2>2, <2>4, JournalRewritten DEF Journal!ClassifyAndAdvance
<1>3. CASE Journal!Reconcile
  <2>1. PICK p \in Project :
          \E items \in Journal!ItemBatches({i \in DOMAIN journal : i <= jcursor[p]}) :
            Journal!ReclassifyDeferred(p, items)
    BY <1>3 DEF Journal!Reconcile
  <2>2. {i \in DOMAIN journal : i <= jcursor[p]} \in SUBSET DOMAIN journal
    OBVIOUS
  <2>3. jcursor' \in [Project -> Nat]
    BY <2>1 DEF Journal!ReclassifyDeferred, Journal!TypeOK
  <2> QED  BY <1>1, <2>1, <2>2, <2>3, JournalRewritten DEF Journal!ReclassifyDeferred
<1> QED  BY <1>2, <1>3

LEMMA RescopeTyped ==
  ASSUME Journal!TypeOK, NEW old, NEW new \in Project, Journal!MoveProjectRows(old, new)
  PROVE  Journal!TypeOK'
<1>1. \A i \in DOMAIN journal :
        (IF journal[i].project = old THEN [journal[i] EXCEPT !.project = new] ELSE journal[i])
          \in Journal!EntryType
  <2>1. ASSUME NEW i \in DOMAIN journal
        PROVE  journal[i] \in Journal!EntryType /\ [journal[i] EXCEPT !.project = new] \in Journal!EntryType
    <3>1. journal[i] \in Journal!EntryType
      BY DEF Journal!TypeOK
    <3> QED  BY <3>1 DEF Journal!EntryType
  <2> QED  BY <2>1
<1>2. Len(journal) \in Nat /\ DOMAIN journal = 1 .. Len(journal)
  BY DEF Journal!TypeOK
<1>3. Len(journal') = Len(journal) /\ journal' \in Seq(Journal!EntryType)
  BY <1>1, <1>2 DEF Journal!MoveProjectRows
<1> QED  BY <1>3, JournalRewritten DEF Journal!MoveProjectRows, Journal!TypeOK

\* What a local transaction does to the journal and to the detection queue.
JournalEffect ==
  /\ \/ UNCHANGED <<journal, jcursor>>
     \/ \E entries \in Seq(Journal!EntryType) : JournalAll(entries)
  /\ detecting' \subseteq RowId

LEMMA LocalJournals ==
  ASSUME ReplicaInv, detecting \subseteq RowId, LocalNext
  PROVE  JournalEffect
<1> USE BoundAssumption
<1>1. \A r \in RowId : Present(store, r) => Row(r).project \in Project \cup {Global}
  BY RowPresent DEF Row, RowType, ReplicaInv
<1>2. ASSUME NEW r \in RowId, NEW p \in Project \cup {Global}, NEW op \in {"upsert", "tombstone"},
             JournalAll(Entry(r, p, op))
      PROVE  \E entries \in Seq(Journal!EntryType) : JournalAll(entries)
  BY <1>2, EntriesTyped
<1>3. ASSUME NEW r \in RowId, NEW p \in Scopes, NEW x \in LocalText, NEW v \in Vol,
             CreateMemory(r, p, x, v) \/ MergeIntoSimilar(r, p, x, v) \/ Restore(r, p, x, v)
      PROVE  JournalEffect
  BY <1>2, <1>3 DEF CreateMemory, MergeIntoSimilar, Restore, JournalEffect
<1>4. ASSUME NEW r \in RowId, NEW x \in LocalText, NEW v \in Vol, Update(r, x, v)
      PROVE  JournalEffect
  BY <1>1, <1>2, <1>4 DEF Update, NotInvalidated, JournalEffect
<1>5. ASSUME NEW r \in RowId, NEW v \in Vol, ChangeTrust(r, v) \/ WeakenToDeath(r, v)
      PROVE  JournalEffect
  BY <1>1, <1>2, <1>5 DEF ChangeTrust, WeakenToDeath, NotInvalidated, JournalEffect
<1>6. ASSUME NEW r \in RowId, NEW how, Retract(r, how)
      PROVE  JournalEffect
  BY <1>1, <1>2, <1>6 DEF Retract, JournalEffect
<1>7. ASSUME NEW r \in RowId, DetectConflicts(r)
      PROVE  JournalEffect
  <2>1. store.used \subseteq RowId
    BY DEF ReplicaInv, Sound, StoreType
  <2> QED  BY <1>2, <1>7, <2>1 DEF DetectConflicts, JournalEffect
<1>8. ASSUME NEW r \in RowId, Promote(r) \/ OptOut(r)
      PROVE  JournalEffect
  BY <1>1, <1>2, <1>8 DEF Promote, OptOut, NotInvalidated, JournalEffect
<1>9. ASSUME NEW old \in Project \cup {Global}, NEW new \in Project \cup {Global}, RenameFile(old, new)
      PROVE  JournalEffect
  <2> DEFINE active == {r \in RowId : Present(store, r) /\ Row(r).status = "active" /\ Row(r).project = old}
             entries(ids, p, op) ==
               IF p = Global THEN <<>>
               ELSE [i \in DOMAIN ids |-> [row |-> ids[i], project |-> p, op |-> op, class |-> "pending"]]
  <2>1. Cardinality(active) \in Nat
    <3>1. active \subseteq store.used /\ IsFiniteSet(store.used)
      BY DEF ReplicaInv, Sound, UsedRows
    <3> QED  BY <3>1, FS_Subset, FS_CardinalityType
  <2>2. PICK ids \in [1 .. Cardinality(active) -> active] :
          JournalAll(entries(ids, old, "tombstone") \o entries(ids, new, "upsert"))
    BY <1>9 DEF RenameFile
  <2>3. active \subseteq RowId
    OBVIOUS
  <2>4. UNCHANGED detecting
    BY <1>9 DEF RenameFile
  <2> HIDE DEF active
  <2>5. ASSUME NEW p \in Project \cup {Global}, NEW op \in {"upsert", "tombstone"}
        PROVE  entries(ids, p, op) \in Seq(Journal!EntryType)
    <3>1. CASE p = Global
      BY <3>1
    <3>2. CASE p # Global
      <4>1. \A i \in DOMAIN ids :
              [row |-> ids[i], project |-> p, op |-> op, class |-> "pending"] \in Journal!EntryType
        BY <2>2, <2>3, <3>2 DEF Journal!EntryType, Journal!JournalOp, Journal!Pending
      <4>2. DOMAIN ids = 1 .. Cardinality(active)
        BY <2>2
      <4> QED  BY <2>1, <3>2, <4>1, <4>2
    <3> QED  BY <3>1, <3>2
  <2>6. /\ entries(ids, old, "tombstone") \in Seq(Journal!EntryType)
        /\ entries(ids, new, "upsert") \in Seq(Journal!EntryType)
    BY <2>5
  <2> HIDE DEF entries
  <2>7. entries(ids, old, "tombstone") \o entries(ids, new, "upsert") \in Seq(Journal!EntryType)
    BY <2>6
  <2> QED  BY <2>2, <2>4, <2>7 DEF JournalEffect
<1> QED  BY <1>3, <1>4, <1>5, <1>6, <1>7, <1>8, <1>9 DEF LocalNext

LEMMA AutonomousJournals ==
  ASSUME ReplicaInv, detecting \subseteq RowId, Journal!TypeOK, AutonomousNext
  PROVE  Journal!TypeOK' /\ detecting' \subseteq RowId
<1> USE BoundAssumption
<1>1. \A r \in RowId : Present(store, r) => Row(r).project \in Project \cup {Global}
  BY RowPresent DEF Row, RowType, ReplicaInv
<1>2. JournalEffect => Journal!TypeOK' /\ detecting' \subseteq RowId
  BY JournalGrows DEF JournalEffect, Journal!TypeOK
<1>3. ASSUME NEW r \in RowId, NEW v, ChurnTrust(r, v) \/ Prune(r) \/ RepairAnchor(r)
      PROVE  JournalEffect
  BY <1>3 DEF ChurnTrust, Prune, RepairAnchor, JournalEffect
<1>4. ASSUME NEW r \in RowId, AutoPromote(r)
      PROVE  JournalEffect
  BY <1>1, <1>4, EntriesTyped DEF AutoPromote, Promote, NotInvalidated, JournalEffect
<1>5. ASSUME NEW rep \in RowId, NEW member \in RowId, NEW x \in LocalText, NEW v \in Vol,
             ConsolidateCluster(rep, member, x, v)
      PROVE  JournalEffect
  <2> DEFINE rows == {r \in {rep, member} : Present(store, r)}
             tombstones == IF member \in rows
                             THEN Entry(member, Row(member).project, "tombstone") ELSE <<>>
             upserts == IF rep \in rows THEN Entry(rep, Row(rep).project, "upsert") ELSE <<>>
  <2>1. JournalAll(tombstones \o upserts) /\ UNCHANGED detecting
    BY <1>5 DEF ConsolidateCluster
  <2>2. tombstones \in Seq(Journal!EntryType) /\ upserts \in Seq(Journal!EntryType)
    BY <1>1, EntriesTyped
  <2> HIDE DEF tombstones, upserts
  <2>3. tombstones \o upserts \in Seq(Journal!EntryType)
    BY <2>2
  <2> QED  BY <2>1, <2>3 DEF JournalEffect
<1>6. ASSUME NEW pair \in Rescopes, MoveProjectRows(pair[1], pair[2])
      PROVE  Journal!TypeOK' /\ detecting' \subseteq RowId
  BY <1>6, RescopeTyped DEF MoveProjectRows
<1> QED  BY <1>2, <1>3, <1>4, <1>5, <1>6 DEF AutonomousNext

(* The tables, the journal, the cursors and the detection queue keep their   *)
(* types: in particular no handler leaves a half-written entry.              *)
THEOREM TypesKept == Spec => []TypeOK
<1>1. Init => TypeOK
  <2>1. Init => store \in StoreType
    BY DEF Init, EmptyStore, StoreType
  <2> QED  BY <2>1, BoundAssumption DEF Init, TypeOK, Journal!Init, Journal!TypeOK
<1>2. ReplicaInv /\ TypeOK /\ [Next]_vars => TypeOK'
  <2> SUFFICES ASSUME ReplicaInv, TypeOK, [Next]_vars PROVE TypeOK'
    OBVIOUS
  <2>1. store' \in StoreType
    BY StepCases DEF Inbound, LocalEffect, Sound
  <2>2. CASE LocalNext
    <3>1. JournalEffect
      BY <2>2, LocalJournals DEF TypeOK
    <3>2. Journal!TypeOK'
      BY <3>1, JournalGrows DEF JournalEffect, TypeOK, Journal!TypeOK
    <3>3. cursor' = cursor
      BY <2>2, LocalStep DEF ReplicaInv
    <3> QED  BY <2>1, <3>1, <3>2, <3>3 DEF TypeOK, JournalEffect
  <2>3. CASE AutonomousNext
    <3>1. Journal!TypeOK' /\ detecting' \subseteq RowId
      BY <2>3, AutonomousJournals DEF TypeOK
    <3>2. cursor' = cursor
      BY <2>3, AutonomousStep DEF ReplicaInv
    <3> QED  BY <2>1, <3>1, <3>2 DEF TypeOK
  <2>4. CASE ConsumeNext
    <3>1. Journal!TypeOK'
      BY <2>4, WorkerTyped DEF ConsumeNext, TypeOK
    <3> QED  BY <2>1, <2>4, <3>1 DEF ConsumeNext, TypeOK
  <2>5. CASE ApplyNext
    <3>1. PICK p \in Project : Commit(p, cursor[p] + 1)
      BY <2>5 DEF ApplyNext, UpsertEvent, TombstoneEvent, AliasEvent, ConflictOpenEvent, ResolveEvent
    <3>2. cursor' \in [Project -> 0 .. MaxSeq]
      BY <3>1, BoundAssumption DEF Commit, TypeOK
    <3> QED  BY <2>1, <3>1, <3>2 DEF Commit, TypeOK, Journal!TypeOK
  <2>6. CASE UNCHANGED vars
    BY <2>6 DEF vars, TypeOK, Journal!TypeOK
  <2> QED  BY <2>2, <2>3, <2>4, <2>5, <2>6 DEF Next
<1> QED  BY <1>1, <1>2, ReplicaInvInductive, PTL DEF Spec

(* R22 and S6: the hash an entry records is the projection of the canonical  *)
(* payload it was last given, whatever was bound, forked, shadowed,          *)
(* aliased or renamed (bindEntity and assertRebindLegal, upsert-apply.ts).   *)
THEOREM HashesAreCanonical == Spec => []RecordedHashIsCanonical
<1>1. ReplicaInv => RecordedHashIsCanonical
  BY DEF ReplicaInv, Sound, Canonical, CanonicalEntry, RecordedHashIsCanonical, Emap
<1> QED  BY <1>1, ReplicaInvInductive, PTL

-----------------------------------------------------------------------------
(* The outbox.                                                               *)

\* A bound row nothing was done to: as RecordedHashIsCanonical says, its
\* scope is that of a project.
Tidy(r) ==
  /\ IsRowSyncBound(store, r) /\ Present(store, r)
  /\ Row(r).status = "active" /\ Row(r).project \in Project

Undisturbed(r) ==
  /\ Present(store', r)
  /\ store'.mem[r].project = Row(r).project /\ store'.mem[r].text = Row(r).text
  /\ store'.mem[r].status = Row(r).status

Journalled(r) == \E i \in DOMAIN journal' : i > Len(journal) /\ journal'[i].row = r

Travels == \A r \in RowId : Tidy(r) => Undisturbed(r) \/ Journalled(r)

LEMMA EntryTravels ==
  ASSUME Journal!TypeOK, NEW entries \in Seq(Journal!EntryType), JournalAll(entries),
         NEW i \in DOMAIN entries
  PROVE  Journalled(entries[i].row)
<1>1. journal \in Seq(Journal!EntryType) /\ journal' = journal \o entries
  BY DEF Journal!TypeOK, JournalAll
<1>2. /\ Len(journal) + i \in DOMAIN journal' /\ Len(journal) + i > Len(journal)
      /\ journal'[Len(journal) + i] = entries[i]
  BY <1>1
<1> QED  BY <1>2 DEF Journalled

LEMMA OneEntryTravels ==
  ASSUME Journal!TypeOK, NEW r \in RowId, NEW p \in Project, NEW op \in {"upsert", "tombstone"},
         JournalAll(Entry(r, p, op))
  PROVE  Journalled(r)
<1> DEFINE entry == [row |-> r, project |-> p, op |-> op, class |-> "pending"]
<1>1. Entry(r, p, op) = <<entry>> /\ entry.row = r
  BY DataAssumption DEF Entry
<1>2. Entry(r, p, op) \in Seq(Journal!EntryType)
  BY EntriesTyped
<1> HIDE DEF entry
<1>3. 1 \in DOMAIN <<entry>> /\ <<entry>>[1] = entry
  OBVIOUS
<1> QED  BY <1>1, <1>2, <1>3, EntryTravels

\* A transaction that rewrites one row.
LEMMA OthersUndisturbed ==
  ASSUME ReplicaInv, NEW r \in RowId, NEW row, SetRow(r, row), NEW q \in RowId \ {r}, Present(store, q)
  PROVE  Undisturbed(q)
BY DEF ReplicaInv, Sound, StoreType, SetRow, Undisturbed, Row, Present

LEMMA LocalTravels ==
  ASSUME ReplicaInv, Journal!TypeOK, Global \notin Scopes, LocalNext
  PROVE  Travels
<1> USE BoundAssumption
<1>1. Scopes \subseteq Project
  BY BoundAssumption
<1>2. ASSUME NEW r \in RowId, NEW row, SetRow(r, row),
             Tidy(r) => Undisturbed(r) \/ Journalled(r)
      PROVE  Travels
  BY <1>2, OthersUndisturbed DEF Travels, Tidy
<1>3. ASSUME NEW r \in RowId, NEW p \in Project, NEW op \in {"upsert", "tombstone"},
             JournalAll(Entry(r, p, op))
      PROVE  Journalled(r)
  BY <1>3, OneEntryTravels
<1>4. ASSUME NEW r \in RowId, NEW row, SetRow(r, row)
      PROVE  store'.mem[r] = row
  BY <1>4 DEF SetRow, ReplicaInv, Sound, StoreType
<1>5. ASSUME NEW r \in RowId, Tidy(r)
      PROVE  Row(r) \in RowType /\ Row(r).project \in Project
  BY <1>5, RowPresent DEF Tidy, Row, ReplicaInv
<1>6. ASSUME NEW r \in RowId, NEW row \in RowType, ~Present(store, r) \/ r \notin store.used,
             store' = InsertProjectedRow(store, r, row)
      PROVE  Travels
  <2>1. ~Present(store, r)
    BY <1>6 DEF ReplicaInv, Sound, UsedRows
  <2>2. \A q \in RowId \ {r} : store'.mem[q] = store.mem[q]
    BY <1>6 DEF InsertProjectedRow, ReplicaInv, Sound, StoreType
  <2> QED  BY <2>1, <2>2 DEF Travels, Tidy, Undisturbed, Row, Present
<1>7. ASSUME NEW r \in RowId, NEW p \in Scopes, NEW x \in LocalText, NEW v \in Vol
      PROVE  [project |-> p, text |-> x, vol |-> v, status |-> "active",
              optedOut |-> FALSE, author |-> FALSE] \in RowType
  BY DEF RowType, Status
<1>8. ASSUME NEW r \in RowId, NEW p \in Scopes, NEW x \in LocalText, NEW v \in Vol,
             CreateMemory(r, p, x, v)
      PROVE  Travels
  BY <1>6, <1>7, <1>8 DEF CreateMemory, FreshIds
<1>9. ASSUME NEW r \in RowId, NEW p \in Scopes, NEW x \in LocalText, NEW v \in Vol,
             MergeIntoSimilar(r, p, x, v)
      PROVE  Travels
  <2>1. Journalled(r)
    BY <1>1, <1>3, <1>9 DEF MergeIntoSimilar
  <2>2. \A q \in RowId \ {r} : store'.mem[q] = store.mem[q]
    BY <1>9 DEF MergeIntoSimilar, ReplicaInv, Sound, StoreType
  <2> QED  BY <2>1, <2>2 DEF Travels, Tidy, Undisturbed, Row, Present
<1>10. ASSUME NEW r \in RowId, NEW p \in Scopes, NEW x \in LocalText, NEW v \in Vol,
              Restore(r, p, x, v)
       PROVE  Travels
  <2>1. Journalled(r)
    BY <1>1, <1>3, <1>10 DEF Restore
  <2>2. \A q \in RowId \ {r} : store'.mem[q] = store.mem[q]
    BY <1>10 DEF Restore, InsertProjectedRow, ReplicaInv, Sound, StoreType
  <2> QED  BY <2>1, <2>2 DEF Travels, Tidy, Undisturbed, Row, Present
<1>11. ASSUME NEW r \in RowId, NEW x \in LocalText, NEW v \in Vol, Update(r, x, v)
       PROVE  Travels
  BY <1>2, <1>3, <1>5, <1>11 DEF Update
<1>12. ASSUME NEW r \in RowId, NEW v \in Vol, Present(store, r), SetRow(r, [Row(r) EXCEPT !.vol = v])
       PROVE  Undisturbed(r)
  <2> DEFINE row == [Row(r) EXCEPT !.vol = v]
  <2>1. Row(r) \in RowType
    BY <1>12, RowPresent DEF Row, ReplicaInv
  <2>2. /\ row \in RowType /\ row.project = Row(r).project /\ row.text = Row(r).text
        /\ row.status = Row(r).status
    BY <2>1 DEF RowType
  <2>3. store'.mem[r] = row
    BY <1>4, <1>12
  <2> HIDE DEF row
  <2> QED  BY <2>2, <2>3, NilApart DEF Undisturbed, Present
<1>13. ASSUME NEW r \in RowId, NEW v \in Vol, ChangeTrust(r, v)
       PROVE  Travels
  BY <1>2, <1>12, <1>13 DEF ChangeTrust, NotInvalidated
<1>14. ASSUME NEW r \in RowId, NEW v \in Vol, WeakenToDeath(r, v)
       PROVE  Travels
  <2>1. CASE IsRowSyncBound(store, r)
    BY <1>2, <1>12, <1>14, <2>1 DEF WeakenToDeath, NotInvalidated
  <2>2. CASE ~IsRowSyncBound(store, r)
    BY <1>2, <1>14, <2>2 DEF WeakenToDeath, Tidy
  <2> QED  BY <2>1, <2>2
<1>15. ASSUME NEW r \in RowId, NEW how, Retract(r, how)
       PROVE  Travels
  BY <1>2, <1>3, <1>5, <1>15 DEF Retract
<1>16. ASSUME NEW r \in RowId, DetectConflicts(r)
       PROVE  Travels
  <2>1. CASE store' = store
    BY <2>1 DEF Travels, Tidy, Undisturbed, Row, Present
  <2>2. CASE store' # store
    <3>1. PICK loser, p, row :
            /\ loser \in store.used /\ p \in Scopes
            /\ SetRow(loser, row) /\ JournalAll(Entry(loser, p, "tombstone"))
      BY <1>16, <2>2 DEF DetectConflicts
    <3>2. loser \in RowId
      BY <3>1 DEF ReplicaInv, Sound, StoreType
    <3> QED  BY <1>1, <1>2, <1>3, <3>1, <3>2
  <2> QED  BY <2>1, <2>2
<1>17. ASSUME NEW r \in RowId, Promote(r)
       PROVE  Travels
  BY <1>2, <1>3, <1>5, <1>17 DEF Promote
<1>18. ASSUME NEW r \in RowId, OptOut(r)
       PROVE  Travels
  <2> DEFINE row == [Row(r) EXCEPT !.optedOut = TRUE]
  <2>1. Row(r) \in RowType
    BY <1>18, RowPresent DEF OptOut, Row, ReplicaInv
  <2>2. row \in RowType /\ SameMeaning(row, Row(r))
    BY <2>1, RowFields
  <2>3. SetRow(r, row) /\ store'.mem[r] = row
    BY <1>4, <1>18 DEF OptOut
  <2> HIDE DEF row
  <2>4. Undisturbed(r)
    BY <2>2, <2>3, NilApart DEF Undisturbed, SameMeaning, Present
  <2> QED  BY <1>2, <2>3, <2>4
<1>19. ASSUME NEW old \in Project \cup {Global}, NEW new \in Project \cup {Global}, RenameFile(old, new)
       PROVE  Travels
  <2> DEFINE active == {r \in RowId : Present(store, r) /\ Row(r).status = "active" /\ Row(r).project = old}
             n == Cardinality(active)
             entries(ids, p, op) ==
               IF p = Global THEN <<>>
               ELSE [i \in DOMAIN ids |-> [row |-> ids[i], project |-> p, op |-> op, class |-> "pending"]]
  <2>1. IsFiniteSet(active) /\ n \in Nat
    <3>1. active \subseteq store.used /\ IsFiniteSet(store.used)
      BY DEF ReplicaInv, Sound, UsedRows
    <3> QED  BY <3>1, FS_Subset, FS_CardinalityType
  <2>2. PICK ids \in [1 .. n -> active] :
          /\ \A i, j \in DOMAIN ids : i < j => ids[i] < ids[j]
          /\ JournalAll(entries(ids, old, "tombstone") \o entries(ids, new, "upsert"))
    BY <1>19 DEF RenameFile
  <2>3. \A r \in RowId \ active : store'.mem[r] = store.mem[r]
    BY <1>19 DEF RenameFile, Row
  <2>4. \A r \in active : r \in RowId /\ Row(r).project = old
    OBVIOUS
  <2> HIDE DEF active, n
  <2>5. \A r \in active : \E i \in 1 .. n : ids[i] = r
    <3>1. active \subseteq Nat
      BY <2>4, DataAssumption
    <3>2. ASSUME NEW i \in 1 .. n, NEW j \in 1 .. n, ids[i] = ids[j]
          PROVE  i = j
      <4>1. DOMAIN ids = 1 .. n /\ ids[i] \in Nat /\ ids[j] \in Nat
        BY <2>2, <3>1
      <4>2. (i < j => ids[i] < ids[j]) /\ (j < i => ids[j] < ids[i])
        BY <2>2, <4>1
      <4>3. i \in Nat /\ j \in Nat
        BY <2>1
      <4> QED  BY <3>2, <4>1, <4>2, <4>3
    <3>3. ids \in Injection(1 .. n, active)
      BY <2>2, <3>2 DEF Injection, IsInjective
    <3>4. Cardinality(1 .. n) = Cardinality(active)
      BY <2>1, FS_Interval DEF n
    <3>5. ids \in Surjection(1 .. n, active)
      BY <2>1, <3>3, <3>4, FS_Injection
    <3> QED  BY <3>5 DEF Surjection
  <2>6. ASSUME NEW r \in active, old \in Project
        PROVE  Journalled(r)
    <3>1. PICK i \in 1 .. n : ids[i] = r
      BY <2>5
    <3>2. old # Global
      BY <2>6, DataAssumption
    <3>3. ASSUME NEW p \in Project \cup {Global}, NEW op \in {"upsert", "tombstone"}
          PROVE  entries(ids, p, op) \in Seq(Journal!EntryType)
      <4>1. CASE p = Global
        BY <4>1
      <4>2. CASE p # Global
        <5>1. \A k \in DOMAIN ids :
                [row |-> ids[k], project |-> p, op |-> op, class |-> "pending"] \in Journal!EntryType
          BY <2>2, <2>4, <4>2 DEF Journal!EntryType, Journal!JournalOp, Journal!Pending
        <5>2. DOMAIN ids = 1 .. n
          BY <2>2
        <5> QED  BY <2>1, <4>2, <5>1, <5>2
      <4> QED  BY <4>1, <4>2
    <3> DEFINE departing == entries(ids, old, "tombstone")
               arriving == entries(ids, new, "upsert")
    <3>4. i \in DOMAIN departing /\ departing[i].row = r
      BY <2>2, <3>1, <3>2
    <3>5. departing \in Seq(Journal!EntryType) /\ arriving \in Seq(Journal!EntryType)
      BY <3>3
    <3>6. JournalAll(departing \o arriving)
      BY <2>2
    <3> HIDE DEF departing, arriving
    <3>7. /\ departing \o arriving \in Seq(Journal!EntryType)
          /\ i \in DOMAIN (departing \o arriving) /\ (departing \o arriving)[i] = departing[i]
      BY <3>4, <3>5
    <3> QED  BY <3>4, <3>6, <3>7, EntryTravels
  <2> QED  BY <2>3, <2>4, <2>6 DEF Travels, Tidy, Undisturbed, Row, Present
<1> QED  BY <1>8, <1>9, <1>10, <1>11, <1>13, <1>14, <1>15, <1>16, <1>17, <1>18, <1>19 DEF LocalNext

LEMMA AutonomousTravels ==
  ASSUME ReplicaInv, \A x \in Text : Repair[x] = x, Rescopes = {}, AutonomousNext
  PROVE  Travels
<1>1. ASSUME NEW r \in RowId, NEW row, SetRow(r, row), Tidy(r) => Undisturbed(r)
      PROVE  Travels
  BY <1>1, OthersUndisturbed DEF Travels, Tidy
<1>2. ASSUME NEW r \in RowId, NEW v \in Vol, ChurnTrust(r, v)
      PROVE  Travels
  <2> DEFINE row == [Row(r) EXCEPT !.vol = v]
  <2>1. Row(r) \in RowType
    BY <1>2, RowPresent DEF Row, ReplicaInv, ChurnTrust
  <2>2. /\ row \in RowType /\ row.project = Row(r).project /\ row.text = Row(r).text
        /\ row.status = Row(r).status
    BY <2>1 DEF RowType
  <2>3. SetRow(r, row)
    BY <1>2 DEF ChurnTrust
  <2> HIDE DEF row
  <2>4. store'.mem[r] = row
    BY <2>3 DEF SetRow, ReplicaInv, Sound, StoreType
  <2>5. Undisturbed(r)
    BY <2>2, <2>4, NilApart DEF Undisturbed, Present
  <2> QED  BY <1>1, <2>3, <2>5
<1>3. ASSUME NEW r \in RowId, Prune(r) \/ AutoPromote(r)
      PROVE  Travels
  BY <1>1, <1>3 DEF Prune, AutoPromote, Promote, Tidy
<1>4. ASSUME NEW r \in RowId, RepairAnchor(r)
      PROVE  Travels
  <2>1. Row(r).text \in Text
    BY <1>4, RowPresent DEF RepairAnchor, NotInvalidated, Row, RowType, ReplicaInv
  <2> QED  BY <1>4, <2>1 DEF RepairAnchor
<1>5. ASSUME NEW rep \in RowId, NEW member \in RowId, NEW x \in LocalText, NEW v \in Vol,
             ConsolidateCluster(rep, member, x, v)
      PROVE  Travels
  <2>1. ~IsRowSyncBound(store, rep) /\ ~IsRowSyncBound(store, member)
    BY <1>5 DEF ConsolidateCluster
  <2>2. \A r \in RowId \ {rep, member} : store'.mem[r] = store.mem[r]
    BY <1>5 DEF ConsolidateCluster, Row, ReplicaInv, Sound, StoreType
  <2> QED  BY <2>1, <2>2 DEF Travels, Tidy, Undisturbed, Row, Present
<1> QED  BY <1>2, <1>3, <1>4, <1>5 DEF AutonomousNext

(* Atomic outbox: apart from a repaired anchor, a renamed project and a      *)
(* write that journals under the NULL project a scope it read before its     *)
(* transaction, a synced row is never changed without a journal entry of the *)
(* same transaction; autonomous hygiene never touches it (journalMutation,   *)
(* isRowSyncBound).                                                          *)
THEOREM OutboxIsAtomic ==
  ASSUME Global \notin Scopes, \A x \in Text : Repair[x] = x, Rescopes = {}
  PROVE  Spec => ChangesTravel
<1>1. ReplicaInv /\ TypeOK /\ [Next]_vars =>
        [~Applying => \A e \in Entity :
           LET r == Emap[e].row
               Clean1 == Present(store, r) /\ ~IsLocallyRetracted(store, r)
                           /\ RowHash(store, r) = Emap[e].ph
               Clean2 == Present(store', r) /\ ~IsLocallyRetracted(store', r)
                           /\ RowHash(store', r) = Emap[e].ph
           IN  IsBound(store, e) /\ Clean1 /\ ~Clean2 =>
                 \E i \in DOMAIN journal' : i > Len(journal) /\ journal'[i].row = r]_vars
  <2> SUFFICES ASSUME ReplicaInv, TypeOK, [Next]_vars, ~Applying,
                      NEW e \in Entity, IsBound(store, e),
                      Present(store, Emap[e].row), ~IsLocallyRetracted(store, Emap[e].row),
                      RowHash(store, Emap[e].row) = Emap[e].ph,
                      ~(/\ Present(store', Emap[e].row) /\ ~IsLocallyRetracted(store', Emap[e].row)
                        /\ RowHash(store', Emap[e].row) = Emap[e].ph)
               PROVE  Journalled(Emap[e].row)
    BY DEF Journalled
  <2> DEFINE r == Emap[e].row
  <2>1. r \in RowId /\ Row(r) \in RowType /\ RowHash(store, r) = Hash(Row(r).project, Row(r).text)
    BY EntryMapped, RowPresent DEF ReplicaInv, IsBound, Emap, Row
  <2>2. PICK q \in Project : Emap[e].ph = Hash(q, Clean[Emap[e].ch.text])
    BY DEF ReplicaInv, Sound, Canonical, CanonicalEntry, IsBound, Emap
  <2>7. Hash(Row(r).project, Row(r).text) = Hash(q, Clean[Emap[e].ch.text])
    BY <2>1, <2>2
  <2>3. Row(r).project \in Project
    BY <2>2, <2>7 DEF Hash
  <2>4. Tidy(r)
    BY <2>3 DEF Tidy, IsRowSyncBound, AssociatedTo, IsBound, IsLocallyRetracted, Row, Emap
  <2>5. ~Undisturbed(r)
    BY <2>1 DEF Undisturbed, Row, IsLocallyRetracted, RowHash, Present
  <2>6. Travels
    <3>1. CASE LocalNext
      BY <3>1, LocalTravels DEF TypeOK
    <3>2. CASE AutonomousNext
      BY <3>2, AutonomousTravels
    <3>3. CASE ConsumeNext \/ UNCHANGED vars
      BY <3>3 DEF ConsumeNext, vars, Travels, Tidy, Undisturbed, Row, Present
    <3>4. CASE ApplyNext
      BY <3>4, ApplyStep DEF ApplyNext, Applying, ReplicaInv
    <3> QED  BY <3>1, <3>2, <3>3, <3>4 DEF Next
  <2> QED  BY <2>1, <2>4, <2>5, <2>6 DEF Travels
<1> QED  BY <1>1, ReplicaInvInductive, TypesKept, PTL DEF Spec, ChangesTravel
=============================================================================
