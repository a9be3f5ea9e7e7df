---------------------------- MODULE MemoryFiles ----------------------------
(***************************************************************************)
(* The memory tool: records of the store shown as editable files           *)
(* (src/memory-tool/).  An agent views a file and later sends commands     *)
(* that quote what it saw; in between other agents, the hooks and the      *)
(* hygiene change the same rows.  Each agent has a handler of its own with *)
(* a cache of frozen renderings, for paging.                               *)
(*                                                                         *)
(* A command runs its checks and writes in one immediate transaction, so   *)
(* it is one action; a command that is refused changes nothing and is left *)
(* out, unless it leaves a rendering in the cache.  The lines of a file    *)
(* are a set of blocks: their order matters to paging only.  A token's     *)
(* prefix is the set of ids it fits.                                       *)
(***************************************************************************)
EXTENDS Naturals, FiniteSets, FiniteSetsExt

CONSTANTS
  Agent, Id, Project, Global, \* Global: the scope of rows without a project
  Category,                   \* the files of a directory
  Unmapped,                   \* kinds no file shows (task_state)
  Shareable,                  \* the categories whose kinds are journalled
  Text, Meta,                 \* content; why, how and tags together
  Unset,                      \* a block that does not mention its meta
  Missing,
  Stem,                       \* the first eight characters of an id
  Garbled,                    \* meta whose mapping or validation fails: such a row is not shown
  Clashing,                   \* pairs of texts one of which merges with or supersedes the other
  Planned,                    \* projects with an active plan
  FreeFile, Home,                 \* free-form files and the scope whose directory holds each
  FileBytes, MaxFiles, AggregateBytes,
  MaxRowRevision                 \* bound on the revision of a row

Scope == Project \cup {Global}
File == Scope \X Category
Place == Scope \X (Category \cup {Unmapped})

VARIABLES
  rec,        \* the rows of memories; `written` is the revision of the last
              \* change of text, meta, place or life, against mere feedback
  journal,    \* the newest journal entry of each row in each project
  files,      \* the sizes of the free-form files
  frozen,     \* each agent's RenderCache
  seen,       \* the blocks of the page an agent looked at last
  behind,     \* files an agent changed after the rendering it still has frozen
  lost        \* rows a str_replace rewrote in a state its agent had not seen

memoryFiles == <<rec, journal, files, frozen, seen, behind, lost>>

Row == [place : Place, text : Text, meta : Meta \cup {Garbled}, active : BOOLEAN,
        revision : 1 .. MaxRowRevision, written : 1 .. MaxRowRevision]
JournalEntry == [op : {"upsert", "tombstone"}, revision : 1 .. MaxRowRevision]
Blocks == [prefix : SUBSET Id, revision : 1 .. MaxRowRevision, text : Text, meta : Meta]

ASSUME MemoryFilesAssumption ==
  /\ Global \notin Project /\ Unmapped \notin Category /\ {Unset, Garbled} \cap Meta = {}
  /\ Shareable \subseteq Category /\ Planned \subseteq Project
  /\ Clashing \subseteq SUBSET Text
  /\ DOMAIN Stem = Id /\ Home \in [FreeFile -> Scope]
  /\ FileBytes \in Nat /\ MaxFiles \in Nat /\ AggregateBytes \in Nat /\ MaxRowRevision \in Nat \ {0}
  /\ Missing \notin Row \cup JournalEntry

(***************************************************************************)
(* Rendering.                                                              *)
(***************************************************************************)

\* activeRows: what decides existence, the unrenderable rows included.
Active(store, f) == {i \in Id : store[i] # Missing /\ store[i].active /\ store[i].place = f}
Renderable(store, f) == {i \in Active(store, f) : store[i].meta # Garbled}

\* An id is shown by its stem, or in full where stems collide in the file.
Prefix(store, i) ==
  LET stem == {j \in Id : Stem[j] = Stem[i]}
  IN IF Renderable(store, store[i].place) \cap stem = {i} THEN stem ELSE {i}

Block(store, i) == [prefix |-> Prefix(store, i), revision |-> store[i].revision,
                    text |-> store[i].text, meta |-> store[i].meta]
Rendering(store, f) == {Block(store, i) : i \in Renderable(store, f)}

\* Fault: a token is matched by its prefix alone.
ByPrefix(f, b) == {i \in Renderable(rec, f) : Active(rec, f) \cap b.prefix = {i}}

\* The records whose canonical block is b, provided the token names no other row.
VerifyBlock(f, b) == {i \in Renderable(rec, f) : Active(rec, f) \cap b.prefix = {i} /\ Block(rec, i) = b}

(***************************************************************************)
(* Writes.                                                                 *)
(***************************************************************************)

\* The revision trigger; Rewritten: the row's meaning has changed as well.
Bump(row, n) == [row EXCEPT !.revision = @ + n]
Rewritten(row) == [row EXCEPT !.written = row.revision]
Retired(row) == Rewritten(Bump([row EXCEPT !.active = FALSE], 1))
Moved(row, scope) == Rewritten(Bump([row EXCEPT !.place = <<scope, @[2]>>], 1))
NewRow(place, b) == [place |-> place, text |-> b.text, meta |-> b.meta, active |-> TRUE,
                     revision |-> 1, written |-> 1]

\* A content update and a metadata update are two statements, a bump each.
Statements(row, e) == (IF e.text # row.text THEN 1 ELSE 0) + (IF e.meta # Unset THEN 1 ELSE 0)
Edited(row, e) ==
  IF Statements(row, e) = 0 THEN row
  ELSE Rewritten(Bump([row EXCEPT !.text = e.text, !.meta = IF e.meta = Unset THEN @ ELSE e.meta],
                    Statements(row, e)))

HasRoom(rows, n) == \A i \in rows : rec[i].revision + n <= MaxRowRevision

Journalled(row, p) == row # Missing /\ row.place[1] = p /\ row.place[2] \in Shareable

\* journalTombstonesForIds reads the rows before the change, journalUpsertsForIds
\* after it; an edited row has one entry, at its final revision.
\* Fault: a mixed edit is journalled by its content update.
AfterContent(before, after) == IF before = Missing THEN 1 ELSE before.revision + 1
UpsertRevision(before, after) == after.revision
JournalChange(after, upserts, tombstones) ==
  journal' = [x \in Project \X Id |->
    LET i == x[2] IN
    IF i \in upserts /\ Journalled(after[i], x[1])
      THEN [op |-> "upsert", revision |-> UpsertRevision(rec[i], after[i])]
    ELSE IF i \in tombstones /\ Journalled(rec[i], x[1])
      THEN [op |-> "tombstone", revision |-> rec[i].revision]
    ELSE journal[x]]

Changed(after) == {i \in Id : after[i] # rec[i]}
Touched(after) ==
  {f \in File : \E i \in Changed(after), store \in {rec, after} : store[i] # Missing /\ store[i].place = f}

\* Agent a commits `after`, drops the renderings `stale` and freezes `fresh`.
Commit(a, after, stale, fresh) ==
  /\ rec' = after
  /\ frozen' = [frozen EXCEPT ![a] = [f \in File |->
       IF f \in fresh THEN Rendering(after, f) ELSE IF f \in stale THEN Missing ELSE @[f]]]
  /\ behind' = [behind EXCEPT ![a] =
       {f \in (@ \cup Touched(after)) \ fresh : frozen'[a][f] # Missing}]

\* Token-less blocks: refused where one would merge with or supersede a row of
\* the file, or another block of the command.
Fresh == [text : Text, meta : Meta]
Clash(t, u) == t = u \/ {t, u} \in Clashing
Admitted(blocks, texts) ==
  \A i \in DOMAIN blocks :
    /\ \A t \in texts : ~Clash(blocks[i].text, t)
    /\ \A j \in DOMAIN blocks \ {i} : ~Clash(blocks[i].text, blocks[j].text)
Texts(store, f) == {store[i].text : i \in Active(store, f)}
Unused == {i \in Id : rec[i] = Missing}
NewBlocks == UNION {[ids -> Fresh] : ids \in SUBSET Unused}
Inserted(blocks, f) == [i \in Id |-> IF i \in DOMAIN blocks THEN NewRow(f, blocks[i]) ELSE rec[i]]

(***************************************************************************)
(* The commands of an agent.                                               *)
(***************************************************************************)

\* A full view, or a page with nothing frozen, freezes; an empty file is an
\* error to the agent but freezes as well.
View(a, f, ranged) ==
  LET page == IF ranged /\ frozen[a][f] # Missing THEN frozen[a][f] ELSE Rendering(rec, f) IN
  /\ frozen' = [frozen EXCEPT ![a][f] = page]
  /\ seen' = IF page = {} THEN seen ELSE [seen EXCEPT ![a] = page]
  /\ behind' = IF ranged /\ frozen[a][f] # Missing THEN behind ELSE [behind EXCEPT ![a] = @ \ {f}]
  /\ UNCHANGED <<rec, journal, files, lost>>

\* A directory or the root: every file in it is rendered to count its bytes.
List(a, scopes) ==
  LET listed == {f \in File : f[1] \in scopes /\ Active(rec, f) # {}} IN
  /\ listed # {}
  /\ Commit(a, rec, {}, listed)
  /\ UNCHANGED <<journal, files, seen, lost>>

Create(a, f) ==
  \E blocks \in NewBlocks :
    /\ blocks # <<>>
    /\ Active(rec, f) = {}
    /\ Admitted(blocks, {})
    /\ Commit(a, Inserted(blocks, f), {f}, {})
    /\ JournalChange(rec', DOMAIN blocks, {})
    /\ UNCHANGED <<files, seen, lost>>

\* The check renders the file, and the rendering stays frozen when the insertion
\* is refused.
Insert(a, f) ==
  \E blocks \in NewBlocks :
    /\ blocks # <<>>
    /\ Renderable(rec, f) # {}
    /\ IF Admitted(blocks, Texts(rec, f))
       THEN /\ Commit(a, Inserted(blocks, f), {f}, {})
            /\ JournalChange(rec', DOMAIN blocks, {})
       ELSE /\ Commit(a, rec, {}, {f})
            /\ UNCHANGED journal
    /\ UNCHANGED <<files, seen, lost>>

\* Quoted blocks are edited or, left out of the new text, dropped; new ones may
\* come before or after the edits.  The command ends with a view of the file.
ReplaceBlocks(a, f, old, kept, edit, blocks, early) ==
  LET row(b) == CHOOSE i \in VerifyBlock(f, b) : TRUE
      edits == [i \in {row(b) : b \in kept} |-> edit[CHOOSE b \in kept : row(b) = i]]
      dropped == {row(b) : b \in old \ kept}
      edited == [i \in Id |-> IF i \in DOMAIN edits THEN Edited(rec[i], edits[i]) ELSE rec[i]]
      after == [i \in Id |-> IF i \in dropped THEN Retired(rec[i])
                             ELSE IF i \in DOMAIN blocks THEN NewRow(f, blocks[i]) ELSE edited[i]]
  IN /\ old # {} /\ \A b \in old : VerifyBlock(f, b) # {}
     /\ Admitted(blocks, Texts(IF early THEN rec ELSE edited, f))
     /\ HasRoom(DOMAIN edits, 2) /\ HasRoom(dropped, 1)
     /\ Commit(a, after, {f}, {f})
     /\ JournalChange(after, (Changed(after) \ dropped), dropped)
     /\ seen' = IF Rendering(after, f) = {} THEN seen ELSE [seen EXCEPT ![a] = Rendering(after, f)]
     /\ lost' = {i \in Changed(after) \ DOMAIN blocks :
                   \A b \in seen[a] : i \notin b.prefix \/ b.revision < rec[i].written}
     /\ UNCHANGED files

StrReplace(a, f) ==
  \E old \in SUBSET seen[a], blocks \in NewBlocks, early \in BOOLEAN :
  \E kept \in SUBSET old :
  \E edit \in [kept -> [text : Text, meta : Meta \cup {Unset}]] :
    ReplaceBlocks(a, f, old, kept, edit, blocks, early)

Retire(a, rows, stale) ==
  /\ HasRoom(rows, 1)
  /\ Commit(a, [i \in Id |-> IF i \in rows THEN Retired(rec[i]) ELSE rec[i]], stale, {})
  /\ JournalChange(rec', {}, rows)
  /\ UNCHANGED <<seen, lost>>

Delete(a, f) ==
  /\ Active(rec, f) # {}
  /\ Retire(a, Active(rec, f), {f})
  /\ UNCHANGED files

\* Only kinds some file shows, and never a directory that holds a plan.
DeleteDirectory(a, scope) ==
  LET rows == UNION {Active(rec, <<scope, c>>) : c \in Category}
      inside == {p \in FreeFile : Home[p] = scope /\ files[p] # Missing}
  IN /\ scope \notin Planned
     /\ rows # {} \/ inside # {}
     /\ Retire(a, rows, File)
     /\ files' = [p \in FreeFile |-> IF p \in inside THEN Missing ELSE files[p]]

Rename(a, f, g) ==
  /\ f # g /\ f[2] = g[2]
  /\ Active(rec, f) # {} /\ Active(rec, g) = {}
  /\ HasRoom(Active(rec, f), 1)
  /\ Commit(a, [i \in Id |-> IF i \in Active(rec, f) THEN Moved(rec[i], g[1]) ELSE rec[i]],
            {f, g}, {})
  /\ JournalChange(rec', Active(rec, f), Active(rec, f))
  /\ UNCHANGED <<files, seen, lost>>

\* A rendering expires or is evicted.
Evict(a, f) ==
  /\ frozen[a][f] # Missing
  /\ frozen' = [frozen EXCEPT ![a][f] = Missing]
  /\ behind' = [behind EXCEPT ![a] = @ \ {f}]
  /\ UNCHANGED <<rec, journal, files, seen, lost>>

(***************************************************************************)
(* Free-form files.                                                        *)
(***************************************************************************)

FreeFiles == {p \in FreeFile : files[p] # Missing}
Size(p) == IF files[p] = Missing THEN 0 ELSE files[p]
TotalBytes == MapThenSumSet(Size, FreeFile)

\* writeWithinTransaction: an overwrite counts the difference.
FitsCaps(p, size) ==
  /\ size <= FileBytes
  /\ files[p] = Missing => Cardinality(FreeFiles) < MaxFiles
  /\ TotalBytes - Size(p) + size <= AggregateBytes

\* create, and str_replace or insert, which read the file in the transaction.
WriteFile(p) ==
  \E size \in 0 .. FileBytes + 1 :
    /\ FitsCaps(p, size)
    /\ files' = [files EXCEPT ![p] = size]
    /\ UNCHANGED <<rec, journal, frozen, seen, behind, lost>>

RenameFile(p, q) ==
  /\ files[p] # Missing /\ files[q] = Missing
  /\ files' = [files EXCEPT ![p] = Missing, ![q] = files[p]]
  /\ UNCHANGED <<rec, journal, frozen, seen, behind, lost>>

DeleteFile(p) ==
  /\ files[p] # Missing
  /\ files' = [files EXCEPT ![p] = Missing]
  /\ UNCHANGED <<rec, journal, frozen, seen, behind, lost>>

(***************************************************************************)
(* Everyone else: the MCP tools, the hooks and the hygiene.                *)
(***************************************************************************)

Others(after, upserts, tombstones) ==
  /\ rec' = after
  /\ JournalChange(after, upserts, tombstones)
  /\ UNCHANGED <<files, frozen, seen, behind, lost>>

Learn(i, place) ==
  \E b \in [text : Text, meta : Meta \cup {Garbled}] :
    /\ rec[i] = Missing
    /\ ~\E t \in Texts(rec, place) : Clash(b.text, t)
    /\ Others([rec EXCEPT ![i] = NewRow(place, b)], {i}, {})

LiveRow(i) == rec[i] # Missing /\ rec[i].active

Correct(i) ==
  \E t \in Text :
    /\ LiveRow(i) /\ HasRoom({i}, 1)
    /\ Others([rec EXCEPT ![i] = Rewritten(Bump([@ EXCEPT !.text = t], 1))], {i}, {})

Forget(i) ==
  /\ LiveRow(i) /\ HasRoom({i}, 1)
  /\ Others([rec EXCEPT ![i] = Retired(@)], {}, {i})

Promote(i) ==
  /\ LiveRow(i) /\ rec[i].place[1] # Global /\ HasRoom({i}, 1)
  /\ Others([rec EXCEPT ![i] = Moved(@, Global)], {}, {i})

\* boostConfidence and the decay: a bump, and no journal entry.
Reinforce(i) ==
  /\ LiveRow(i) /\ HasRoom({i}, 1)
  /\ Others([rec EXCEPT ![i] = Bump(@, 1)], {}, {})

FilesInit ==
  /\ rec = [i \in Id |-> Missing]
  /\ journal = [x \in Project \X Id |-> Missing]
  /\ files = [p \in FreeFile |-> Missing]
  /\ frozen = [a \in Agent |-> [f \in File |-> Missing]]
  /\ seen = [a \in Agent |-> {}]
  /\ behind = [a \in Agent |-> {}]
  /\ lost = {}

FilesNext ==
  \/ \E a \in Agent, f \in File :
       \/ \E ranged \in BOOLEAN : View(a, f, ranged)
       \/ Create(a, f) \/ Insert(a, f) \/ StrReplace(a, f) \/ Delete(a, f) \/ Evict(a, f)
       \/ \E g \in File : Rename(a, f, g)
  \/ \E a \in Agent : \/ List(a, Scope)
                      \/ \E scope \in Scope : List(a, {scope}) \/ DeleteDirectory(a, scope)
  \/ \E p \in FreeFile : WriteFile(p) \/ DeleteFile(p) \/ \E q \in FreeFile : RenameFile(p, q)
  \/ \E i \in Id : \/ \E place \in Place : Learn(i, place)
                   \/ Correct(i) \/ Forget(i) \/ Promote(i) \/ Reinforce(i)

FilesSpec == FilesInit /\ [][FilesNext]_memoryFiles

(***************************************************************************)
(* Properties.                                                             *)
(***************************************************************************)

\* The state is well typed and the free-form store within its limits.
FilesTypeOK ==
  /\ rec \in [Id -> Row \cup {Missing}]
  /\ journal \in [Project \X Id -> JournalEntry \cup {Missing}]
  /\ files \in [FreeFile -> 0 .. FileBytes \cup {Missing}]
  /\ Cardinality(FreeFiles) <= MaxFiles /\ TotalBytes <= AggregateBytes
  /\ frozen \in [Agent -> [File -> (SUBSET Blocks) \cup {Missing}]]
  /\ seen \in [Agent -> SUBSET Blocks]
  /\ behind \in [Agent -> SUBSET File] /\ lost \subseteq Id

(* A str_replace rewrites or drops no row that somebody has changed since its *)
(* agent saw it (verifyOldBlocks), however old or frozen the page was and     *)
(* whatever ids share a prefix.                                               *)
NoLostUpdate == lost = {}

(* A page an agent is served is never older than that agent's own commands    *)
(* ("frozen pages must not outlive edits").                                   *)
OwnEditsAreSeen == \A a \in Agent : behind[a] = {}

(* The memory tool changes only what its agent has seen, and shows an agent   *)
(* its own changes.                                                           *)
EditsMeetWhatWasSeen == NoLostUpdate /\ OwnEditsAreSeen

(* A project's newest journal entry of a row says whether the row is there,   *)
(* and is not older than the row's last change, whichever commands, renames   *)
(* and other writers the row has been through.                                *)
JournalTellsPlace ==
  \A p \in Project, i \in Id :
    LET entry == journal[<<p, i>>] IN
    IF LiveRow(i) /\ Journalled(rec[i], p)
    THEN entry # Missing /\ entry.op = "upsert" /\ entry.revision >= rec[i].written
    ELSE entry # Missing => entry.op = "tombstone"
=============================================================================
