----------------------------- MODULE StoreOpen -----------------------------
(***************************************************************************)
(* openDatabase: any number of processes (MCP servers, hooks, the daemon,  *)
(* commands) open one SQLite file.  Each checks its integrity, sets a      *)
(* corrupt file aside, creates the schema or brings it up to date, and     *)
(* only then uses it.  The version is read once, outside every             *)
(* transaction; each migration is a transaction of its own.                *)
(*                                                                         *)
(* A file is an inode: a process that has it open keeps it when the path   *)
(* goes to another one.  A schema is the set of pieces it has.             *)
(***************************************************************************)
EXTENDS Naturals, Sequences, FiniteSets

CONSTANTS
  Process,
  Row,             \* memories the processes may write
  Start,           \* files an installation may be found with, and Nil
  Nil,
  MaxOpens,        \* bound: calls of openDatabase
  MaxCorruptions   \* bound: times the file at the path is damaged

VARIABLES
  path,    \* the inode at the path, or Nil
  db,      \* the files, by inode
  at,      \* where each process stands in openDatabase
  ino,     \* the inode each process has open
  ver,     \* currentVersion, as the process read it
  count,   \* rows counted before the rebuild of v28
  backups, \* rows of the copies set aside
  opens, corruptions,
  amid,        \* history: who was recovering when the file at the path was made, and still may be
  uncopied     \* history: rows that reached the file at the path after its copy and before its removal

onDisk == <<path, db, backups>>
history == <<amid, uncopied>>
opening == <<onDisk, at, ino, ver, count, opens, corruptions, history>>

-----------------------------------------------------------------------------
(* Schemas.                                                                *)

SchemaVersion == 32

\* Columns the current code names when it writes a memory.
Columns == {"legacy", "rule", "origin", "team"}

\* "events", "cause" and "rowid" joined v30 and v32 while they were unreleased.
Full == Columns \cup {"rollup", "events", "dedup", "cause", "rowid", "fts"}

Piece == Full \cup {"reverted"}

\* What a released database of a version has.
Promised(v) ==
  UNION {IF v >= 27 THEN {"legacy"} ELSE {}, IF v >= 28 THEN {"rule"} ELSE {},
         IF v >= 29 THEN {"origin"} ELSE {}, IF v >= 30 THEN {"rollup"} ELSE {},
         IF v >= 31 THEN {"dedup", "events"} ELSE {}, IF v >= 32 THEN {"team"} ELSE {}}

\* Databases of later releases are left out.
Versions == 0 .. SchemaVersion

File == [versions: Seq(Versions), has: SUBSET Piece, rows: SUBSET Row, wal: SUBSET Row, corrupt: BOOLEAN]

ASSUME StoreAssumption ==
  /\ Start \ {Nil} \subseteq File /\ Nil \notin Nat
  /\ {MaxOpens, MaxCorruptions} \subseteq Nat

EmptyFile == [versions |-> <<>>, has |-> {}, rows |-> {}, wal |-> {}, corrupt |-> FALSE]

Version(d) == Head(d.versions)

\* UPDATE schema_version SET version = ?, of every row there is.
AtVersion(d, v) == [d EXCEPT !.versions = [i \in DOMAIN @ |-> v]]

With(d, pieces) == [d EXCEPT !.has = @ \cup pieces]

-----------------------------------------------------------------------------
(* The order of ensureSchema.                                              *)

Stages == <<"legacy", "v28", "v29", "v30", "v31", "v32", "fts", "ready">>

\* The read-only probes of a database that says 32.
NeedsHeal(d) == ~ {"cause", "rowid"} \subseteq d.has \/ "reverted" \in d.has

\* The newest version a stage is for.
UpTo == [legacy |-> 26, v28 |-> 27, v29 |-> 28, v30 |-> 30, v31 |-> 30, v32 |-> 31, fts |-> 32, ready |-> 32]

Due(stage, v, d) == v <= UpTo[stage] \/ (stage = "v32" /\ v = 32 /\ NeedsHeal(d))

NextStage(i, v, d) ==
  LET due == {k \in i .. Len(Stages) : Due(Stages[k], v, d)}
  IN  Stages[CHOOSE k \in due : \A l \in due : k <= l]

Index(stage) == CHOOSE i \in DOMAIN Stages : Stages[i] = stage

-----------------------------------------------------------------------------
(* Integrity and recovery.                                                 *)

Move(p, to) == at' = [at EXCEPT ![p] = to]

OpenDatabase(p) ==
  /\ at[p] = "closed" /\ opens < MaxOpens
  /\ opens' = opens + 1
  /\ Move(p, IF path # Nil /\ db[path].corrupt THEN "copy" ELSE "connect")
  /\ amid' = amid \ {p}
  /\ UNCHANGED <<onDisk, ino, ver, count, corruptions, uncopied>>

\* copyFileSync of the main file alone; what only the WAL holds is not in it.
Copied(d) == d.rows \ d.wal

\* Fault: the file is unlinked before it is copied.
UnlinkFirst(p) ==
  /\ at[p] = "copy" /\ Move(p, "connect") /\ path' = Nil
  /\ UNCHANGED <<db, backups, ino, ver, count, opens, corruptions, history>>

\* Nothing at the path any more: the copy throws, which is logged.
CopyAside(p) ==
  /\ at[p] = "copy"
  /\ IF path = Nil THEN Move(p, "connect") /\ UNCHANGED backups
                   ELSE Move(p, "unlink") /\ backups' = backups \cup Copied(db[path])
  /\ UNCHANGED <<path, db, ino, ver, count, opens, corruptions, history>>

\* The file and its sidecars, whatever is at the path by now.
Unlink(p) ==
  /\ at[p] = "unlink" /\ Move(p, "connect")
  /\ path' = Nil
  /\ UNCHANGED <<db, backups, ino, ver, count, opens, corruptions, history>>

Connect(p) ==
  /\ at[p] = "connect" /\ Move(p, "ensure")
  /\ IF path # Nil THEN ino' = [ino EXCEPT ![p] = path] /\ UNCHANGED <<path, db, amid>>
     ELSE /\ db' = Append(db, EmptyFile)
          /\ path' = Len(db')
          /\ ino' = [ino EXCEPT ![p] = path']
          /\ amid' = {q \in Process : at[q] \in {"copy", "unlink"}}
  /\ UNCHANGED <<backups, ver, count, opens, corruptions, uncopied>>

-----------------------------------------------------------------------------
(* ensureSchema.                                                           *)

Leave(p) == /\ at' = [at EXCEPT ![p] = "closed"] /\ ino' = [ino EXCEPT ![p] = Nil]
            /\ ver' = [ver EXCEPT ![p] = 0] /\ count' = [count EXCEPT ![p] = 0]

\* A statement fails (the write lock is taken, a snapshot is too old), or the
\* process dies: its transaction is rolled back.  Also db.close().
CloseOrFail(p) ==
  /\ at[p] # "closed" /\ Leave(p)
  /\ UNCHANGED <<onDisk, opens, corruptions, history>>

ReadVersion(p) ==
  LET d == db[ino[p]]
  IN  /\ at[p] = "ensure"
      /\ IF d.versions = <<>> THEN Move(p, "create") /\ UNCHANGED ver
         ELSE ver' = [ver EXCEPT ![p] = Version(d)] /\ Move(p, NextStage(1, Version(d), d))
      /\ UNCHANGED <<onDisk, ino, count, opens, corruptions, history>>

Commit(p, d, to) ==
  /\ db' = [db EXCEPT ![ino[p]] = d] /\ Move(p, to)
  /\ UNCHANGED <<path, backups, ino, ver, count, opens, corruptions, history>>

\* All DDL is IF NOT EXISTS, the row of schema_version is not.
CreateAll(p) ==
  /\ at[p] = "create"
  /\ LET d == db[ino[p]] IN
     Commit(p, [With(d, Full) EXCEPT !.versions = Append(@, SchemaVersion)], "ready")

Stage(p, stage, d) ==
  /\ at[p] = stage
  /\ Commit(p, d, NextStage(Index(stage) + 1, ver[p], d))

\* ALTER TABLE ADD COLUMN throws when the column is there.
MigrateLegacy(p) ==
  /\ at[p] = "legacy" /\ "legacy" \notin db[ino[p]].has
  /\ Stage(p, "legacy", AtVersion(With(db[ino[p]], {"legacy"}), 27))

\* The version and the counts are read before BEGIN IMMEDIATE.
CountV28(p) ==
  /\ at[p] = "v28" /\ Version(db[ino[p]]) = 27
  /\ count' = [count EXCEPT ![p] = Cardinality(db[ino[p]].rows)] /\ Move(p, "rebuild")
  /\ UNCHANGED <<onDisk, ino, ver, opens, corruptions, history>>

\* The table is copied column by column, the columns of v27, and its indexes
\* and triggers go with the old one.
RebuildV28(p) ==
  LET d == db[ino[p]]
      rebuilt == AtVersion([d EXCEPT !.has = (@ \ {"origin", "team", "dedup", "reverted"}) \cup {"rule", "fts"}], 28)
  IN  /\ at[p] = "rebuild" /\ Cardinality(d.rows) = count[p]
      /\ Commit(p, rebuilt, NextStage(Index("v29"), ver[p], rebuilt))

MigrateV29(p) == Stage(p, "v29", AtVersion(With(db[ino[p]], {"origin"}), 29))

\* Reads only, where the shape is right.
HasV30(d) == {"rollup", "events"} \subseteq d.has /\ Version(d) >= 30

ProbeV30(p) ==
  /\ at[p] = "v30"
  /\ LET d == db[ino[p]] IN Move(p, IF HasV30(d) THEN NextStage(Index("v31"), ver[p], d) ELSE "v30 write")
  /\ UNCHANGED <<onDisk, ino, ver, count, opens, corruptions, history>>

MigrateV30(p) ==
  LET d == AtVersion(With(db[ino[p]], {"rollup", "events"}), 30)
  IN  at[p] = "v30 write" /\ Commit(p, d, NextStage(Index("v31"), ver[p], d))

\* Fault: the version is written before the index.
VersionFirst(p) == at[p] = "v31" /\ Commit(p, AtVersion(db[ino[p]], 31), "v31 version")

\* Two statements, each its own transaction.
IndexV31(p) == at[p] = "v31" /\ Commit(p, With(db[ino[p]], {"dedup"}), "v31 version")

VersionV31(p) ==
  LET d == AtVersion(db[ino[p]], 31)
  IN  at[p] = "v31 version" /\ Commit(p, d, NextStage(Index("v32"), ver[p], d))

\* One immediate transaction, every change behind a probe.
MigrateV32(p) ==
  Stage(p, "v32", AtVersion([db[ino[p]] EXCEPT !.has = (@ \ {"reverted"}) \cup {"team", "cause", "rowid"}], 32))

EnsureFtsIntegrity(p) == Stage(p, "fts", With(db[ino[p]], {"fts"}))

-----------------------------------------------------------------------------
(* Users of the store, and its environment.                                *)

\* An INSERT that names a missing column fails.
Write(p, r) ==
  /\ at[p] = "ready" /\ Columns \subseteq db[ino[p]].has
  /\ \A i \in DOMAIN db : r \notin db[i].rows
  /\ db' = [db EXCEPT ![ino[p]].rows = @ \cup {r}, ![ino[p]].wal = @ \cup {r}]
  /\ UNCHANGED <<path, backups, at, ino, ver, count, opens, corruptions, history>>

Checkpoint(p) ==
  /\ at[p] = "ready" /\ db[ino[p]].wal # {}
  /\ db' = [db EXCEPT ![ino[p]].wal = {}]
  /\ uncopied' = IF ino[p] = path /\ \E q \in Process \ amid : at[q] = "unlink"
               THEN uncopied \cup db[path].wal ELSE uncopied
  /\ UNCHANGED <<path, backups, at, ino, ver, count, opens, corruptions, amid>>

Corrupt ==
  /\ path # Nil /\ ~db[path].corrupt /\ corruptions < MaxCorruptions
  /\ db' = [db EXCEPT ![path].corrupt = TRUE] /\ corruptions' = corruptions + 1
  /\ UNCHANGED <<path, backups, at, ino, ver, count, opens, history>>

-----------------------------------------------------------------------------

StoreInit ==
  /\ \E d \in Start : IF d = Nil THEN path = Nil /\ db = <<>> ELSE path = 1 /\ db = <<d>>
  /\ at = [p \in Process |-> "closed"] /\ ino = [p \in Process |-> Nil]
  /\ ver = [p \in Process |-> 0] /\ count = [p \in Process |-> 0]
  /\ backups = {} /\ opens = 0 /\ corruptions = 0 /\ amid = {} /\ uncopied = {}

Ensure(p) ==
  \/ ReadVersion(p) \/ CreateAll(p) \/ MigrateLegacy(p) \/ CountV28(p) \/ RebuildV28(p)
  \/ MigrateV29(p) \/ ProbeV30(p) \/ MigrateV30(p) \/ IndexV31(p) \/ VersionV31(p)
  \/ MigrateV32(p) \/ EnsureFtsIntegrity(p)

StoreNext ==
  \/ \E p \in Process : \/ OpenDatabase(p) \/ CopyAside(p) \/ Unlink(p) \/ Connect(p) \/ Ensure(p) \/ CloseOrFail(p)
                        \/ Checkpoint(p) \/ \E r \in Row : Write(p, r)
  \/ Corrupt

StoreSpec == StoreInit /\ [][StoreNext]_opening
-----------------------------------------------------------------------------

Healthy(d) == Full \subseteq d.has /\ "reverted" \notin d.has

(* Every variable has its type; whoever is past the connect has a file open. *)
StoreTypeOK ==
  /\ path \in {Nil} \cup DOMAIN db
  /\ \A i \in DOMAIN db : db[i] \in File
  /\ backups \subseteq Row /\ uncopied \subseteq Row /\ amid \subseteq Process
  /\ \A p \in Process :
       /\ at[p] \in {"closed", "copy", "unlink", "connect"} => ino[p] = Nil
       /\ at[p] \notin {"closed", "copy", "unlink", "connect"} => ino[p] \in DOMAIN db
       /\ ver[p] \in {0, 26} \cup 27 .. 32 /\ count[p] \in 0 .. Cardinality(Row)
  /\ opens \in 0 .. MaxOpens /\ corruptions \in 0 .. MaxCorruptions

(* The version a database states is never ahead of what it has, whoever      *)
(* crashed between which migrations and however old the version was that a   *)
(* slower process acts on: the next open then repairs what is missing        *)
(* (connection.ts, ensureSchema).                                            *)
VersionIsEarned ==
  \A i \in DOMAIN db : db[i].versions # <<>> => Promised(Version(db[i])) \subseteq db[i].has

(* A process that openDatabase has returned to finds every table, column and *)
(* index its statements name, and keeps finding them while others open and   *)
(* migrate the same file.                                                    *)
ReadyIsHealthy == \A p \in Process : at[p] = "ready" => Healthy(db[ino[p]])

(* A database is what its version says, also under those that have it open.  *)
OpenedIsSound == VersionIsEarned /\ ReadyIsHealthy

(* A file leaves the path for one of two reasons.  It was found damaged, and *)
(* then a copy holds all that its main file has, but what a process that has *)
(* it open checkpoints between the copy and the unlink.  Or a process takes  *)
(* it for its predecessor, which that process had found damaged and another  *)
(* has replaced since (recoverCorruptDb unlinks what is at the path by now). *)
RemovalsHaveACause ==
  [][path # Nil /\ path' # path =>
       \/ db[path].corrupt /\ Copied(db[path]) \subseteq backups \cup uncopied
       \/ \E p \in amid : at[p] = "unlink" /\ at'[p] = "connect"]_opening
=============================================================================
