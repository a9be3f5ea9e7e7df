---------------------------- MODULE StateMigration ----------------------------
(***************************************************************************)
(* `waykeep migrate`: the store in the legacy state directory is copied to *)
(* the current one, and a marker file, published last, makes the current   *)
(* directory authoritative (src/cli/migrate.ts, migrate-fs.ts and          *)
(* migrate-config.ts; resolveStateRoot in src/constants/paths.ts).         *)
(*                                                                         *)
(* The current directory is modelled twice: `dir` is what processes see,   *)
(* `disk` the entries an fsync of the directory has made durable.  After a *)
(* power loss each entry is the one of either, and a file whose bytes were *)
(* not synced is torn.  A rename aside keeps its file under another name.  *)
(*                                                                         *)
(* Left out: the preview, messages, permissions, symbolic links, the       *)
(* integrity and foreign-key checks (they fail like any other step), the   *)
(* fallback for file systems without hard links, roll-back by hand, and    *)
(* processes that an environment override points at the target while it is *)
(* not authoritative.  A commit is durable once made.                      *)
(***************************************************************************)
EXTENDS Naturals

CONSTANTS
  Migrator,      \* concurrent runs of the command
  Proc,          \* daemons, MCP servers and hooks that write to the store
  Owner,         \* the processes among them that keep a pid file (the socket owner)
  Commits,       \* what they commit, in the order they please
  ValueOnly,     \* the commits that change no table's row count
  HandFile,      \* config files written by hand
  Fork,          \* a database an earlier run left in the current directory
  LegacyConfig,  \* the bytes of the legacy config
  Copy,          \* the published copy of the legacy database
  Absent,        \* no directory entry
  Torn,          \* a file whose bytes did not survive a power loss
  Free,          \* no lock file
  MaxCrashes,    \* bound on crashes of a migrator
  MaxPowerLosses \* bound on power losses

ASSUME StoresAssumption ==
  /\ Owner \subseteq Proc
  /\ ValueOnly \subseteq Commits
  /\ Free \notin Migrator
  /\ {MaxCrashes, MaxPowerLosses} \subseteq Nat

(* What a directory entry stands for tells its kinds apart. *)
ASSUME EntriesAssumption ==
  /\ Fork \notin HandFile
  /\ {LegacyConfig, Copy, Absent, Torn} \cap (HandFile \cup {Fork}) = {}
  /\ LegacyConfig \notin {Copy, Absent, Torn} /\ Copy \notin {Absent, Torn} /\ Absent # Torn
  /\ Absent # "present"

VARIABLES
  legacy,     \* the commits in the legacy database
  store,      \* the commits in the newest published copy
  dir,        \* the current directory: its db, config and marker entries
  disk,       \* the durable entries of the same names
  unsynced,   \* the names whose files have bytes not yet on disk
  aside,      \* the files moved to a backup name
  lock,       \* the migrator that created the lock file, or Free
  haveConfig, \* the legacy directory holds a config
  pc,         \* the step each migrator is at
  snap,       \* the legacy database at the time the guard connection was opened
  stage,      \* the private copy
  root,       \* the directory each process resolved when it started, or "off"
  committed,  \* ghost: every commit made
  late,       \* ghost: commits made outside the promise (see NoWriteLost)
  owned,      \* ghost: files of the user that nobody but the user may remove
  edited,     \* ghost: the target config was written by hand after it was planned
  crashes, losses

files == <<legacy, store, dir, disk, unsynced, aside, haveConfig>>
ghosts == <<committed, late, owned, edited>>
vars == <<files, lock, pc, snap, stage, root, ghosts, crashes, losses>>

Name == {"db", "config", "marker"}
Step == {"idle", "lock", "recheck", "open", "clear", "backup", "verify", "publish",
         "plan", "discard", "replace", "link", "identical", "syncdir", "compare",
         "mark", "settle"}
Holding == Step \ {"idle", "lock"}
UserFile == HandFile \cup {Fork}

(* daemonPidAt on either directory: a pid file naming a live process. *)
DaemonIsLive == \E p \in Owner : root[p] # "off"

Marked == dir.marker = "present"

Goto(m, s) == pc' = [pc EXCEPT ![m] = s]

(* What a run keeps in memory, and its private stage, end with it. *)
Forget(m) ==
  /\ Goto(m, "idle")
  /\ snap' = [snap EXCEPT ![m] = {}] /\ stage' = [stage EXCEPT ![m] = {}]

(* The finally block: the guard is closed and releaseLock unlinks the lock. *)
Release(m) == Forget(m) /\ lock' = Free

(* The run goes on with its next step, under its lock. *)
Proceed(m, s) == Goto(m, s) /\ UNCHANGED <<lock, snap, stage>>

(* renameSync to a collision-free backup name. *)
MovedAside(file) == aside \cup ({file} \cap UserFile)

Init ==
  /\ legacy = {} /\ store = {} /\ unsynced = {} /\ aside = {} /\ lock = Free
  /\ haveConfig \in BOOLEAN
  /\ \E db \in {Absent, Fork}, config \in {Absent, LegacyConfig} \cup HandFile :
       /\ config = LegacyConfig => haveConfig
       /\ dir = [db |-> db, config |-> config, marker |-> Absent]
       /\ owned = {db, config} \cap UserFile
  /\ disk = dir
  /\ pc = [m \in Migrator |-> "idle"]
  /\ snap = [m \in Migrator |-> {}] /\ stage = snap
  /\ root = [p \in Proc |-> "off"]
  /\ committed = {} /\ late = {} /\ edited = FALSE
  /\ crashes = 0 /\ losses = 0

(* Without the lock: a marker or a live daemon ends the run. *)
Begin(m) ==
  /\ pc[m] = "idle" /\ ~Marked /\ ~DaemonIsLive
  /\ Goto(m, "lock")
  /\ UNCHANGED <<files, lock, snap, stage, root, ghosts, crashes, losses>>

(* acquireLock: an exclusive create; a lock file that exists ends the run. *)
Acquire(m) ==
  /\ pc[m] = "lock"
  /\ IF lock = Free THEN Goto(m, "recheck") /\ lock' = m
                    ELSE Goto(m, "idle") /\ UNCHANGED lock
  /\ UNCHANGED <<files, snap, stage, root, ghosts, crashes, losses>>

(* The marker and the daemon again, now that nobody else migrates. *)
Recheck(m) ==
  /\ pc[m] = "recheck"
  /\ IF Marked \/ DaemonIsLive THEN Release(m) ELSE Proceed(m, "open")
  /\ UNCHANGED <<files, root, ghosts, crashes, losses>>

(* The guard connection remembers data_version, which every commit changes. *)
OpenGuard(m) ==
  /\ pc[m] = "open"
  /\ snap' = [snap EXCEPT ![m] = legacy]
  /\ Goto(m, "clear")
  /\ UNCHANGED <<files, lock, stage, root, ghosts, crashes, losses>>

(* A database at the target is moved aside with its sidecars. *)
MoveDbAside(m) ==
  /\ pc[m] = "clear"
  /\ dir' = [dir EXCEPT !.db = Absent]
  /\ aside' = MovedAside(dir.db)
  /\ Goto(m, "backup")
  /\ UNCHANGED <<legacy, store, disk, unsynced, haveConfig, lock, snap, stage, root,
                 ghosts, crashes, losses>>

(* The online backup, one consistent snapshot, to a name nobody knows. *)
Backup(m) ==
  /\ pc[m] = "backup"
  /\ stage' = [stage EXCEPT ![m] = legacy]
  /\ Goto(m, "verify")
  /\ UNCHANGED <<files, lock, snap, root, ghosts, crashes, losses>>

(* The row counts of every table, source against copy. *)
Verify(m) ==
  /\ pc[m] = "verify"
  /\ IF legacy \ ValueOnly = stage[m] \ ValueOnly
       THEN Proceed(m, "publish")
       ELSE Release(m)
  /\ UNCHANGED <<files, root, ghosts, crashes, losses>>

(* The stage is synced, then renamed into place. *)
PublishDb(m) ==
  /\ pc[m] = "publish"
  /\ dir' = [dir EXCEPT !.db = Copy]
  /\ store' = stage[m] /\ stage' = [stage EXCEPT ![m] = {}]
  /\ unsynced' = unsynced \ {"db"}
  /\ Goto(m, "plan")
  /\ UNCHANGED <<legacy, disk, aside, haveConfig, lock, snap, root, ghosts, crashes,
                 losses>>

(* planConfig: what becomes of the config at the target. *)
ConfigPlan ==
  CASE ~haveConfig /\ dir.config = Absent      -> "syncdir"
    [] ~haveConfig /\ dir.config # Absent      -> "discard"
    [] haveConfig /\ dir.config = Absent       -> "link"
    [] haveConfig /\ dir.config = LegacyConfig -> "identical"
    [] OTHER                                   -> "replace"

PlanConfig(m) ==
  /\ pc[m] = "plan"
  /\ Goto(m, ConfigPlan)
  /\ edited' = FALSE
  /\ UNCHANGED <<files, lock, snap, stage, root, committed, late, owned, crashes, losses>>

(* applyConfig, its first half: a divergent or stray config is moved aside. *)
SetConfigAside(m) ==
  /\ pc[m] \in {"discard", "replace"}
  /\ dir' = [dir EXCEPT !.config = Absent]
  /\ aside' = MovedAside(dir.config)
  /\ unsynced' = unsynced \ {"config"}
  /\ edited' = FALSE
  /\ Goto(m, IF pc[m] = "replace" THEN "link" ELSE "syncdir")
  /\ UNCHANGED <<legacy, store, disk, haveConfig, lock, snap, stage, root, committed,
                 late, owned, crashes, losses>>

\* Fault: the config is renamed into place over whatever is there.
RenameConfig(m) ==
  /\ pc[m] = "link"
  /\ dir' = [dir EXCEPT !.config = LegacyConfig]
  /\ unsynced' = unsynced \ {"config"}
  /\ edited' = FALSE
  /\ Goto(m, "syncdir")
  /\ UNCHANGED <<legacy, store, disk, aside, haveConfig, lock, snap, stage, root,
                 committed, late, owned, crashes, losses>>

(* publishFileNoReplace: link fails on a file that raced in, which is then *)
(* moved aside before the next attempt.                                    *)
LinkConfig(m) ==
  /\ pc[m] = "link"
  /\ IF dir.config = Absent
       THEN /\ dir' = [dir EXCEPT !.config = LegacyConfig]
            /\ Goto(m, "syncdir")
            /\ UNCHANGED aside
       ELSE /\ dir' = [dir EXCEPT !.config = Absent]
            /\ aside' = MovedAside(dir.config)
            /\ UNCHANGED pc
  /\ unsynced' = unsynced \ {"config"}
  /\ edited' = FALSE
  /\ UNCHANGED <<legacy, store, disk, haveConfig, lock, snap, stage, root, committed,
                 late, owned, crashes, losses>>

(* A config that was already right was perhaps written without a sync. *)
SyncIdentical(m) ==
  /\ pc[m] = "identical"
  /\ unsynced' = unsynced \ {"config"}
  /\ Goto(m, "syncdir")
  /\ UNCHANGED <<legacy, store, dir, disk, aside, haveConfig, lock, snap, stage, root,
                 ghosts, crashes, losses>>

(* The entries are made durable before the marker. *)
SyncDir(m) ==
  /\ pc[m] = "syncdir"
  /\ disk' = dir
  /\ Goto(m, "compare")
  /\ UNCHANGED <<legacy, store, dir, unsynced, aside, haveConfig, lock, snap, stage,
                 root, ghosts, crashes, losses>>

\* Fault: the row counts are compared again instead of data_version.
SourceHasRows(m) == legacy \ ValueOnly = snap[m] \ ValueOnly

(* data_version is what it was when the guard connection was opened. *)
SourceUnchanged(m) == legacy = snap[m]

CompareGuard(m) ==
  /\ pc[m] = "compare"
  /\ IF SourceUnchanged(m) THEN Proceed(m, "mark") ELSE Release(m)
  /\ UNCHANGED <<files, root, ghosts, crashes, losses>>

(* publishFile: the synced marker is renamed into place. *)
PublishMarker(m) ==
  /\ pc[m] = "mark"
  /\ dir' = [dir EXCEPT !.marker = "present"]
  /\ Goto(m, "settle")
  /\ UNCHANGED <<legacy, store, disk, unsynced, aside, haveConfig, lock, snap, stage,
                 root, ghosts, crashes, losses>>

(* fsyncPath of the directory swallows its errors; the run ends. *)
Settle(m) ==
  /\ pc[m] = "settle"
  /\ disk' \in {dir, disk}
  /\ Release(m)
  /\ UNCHANGED <<legacy, store, dir, unsynced, aside, haveConfig, root, ghosts, crashes,
                 losses>>

(* Any step may throw or refuse: the run ends and unlinks its lock. *)
Fail(m) ==
  /\ pc[m] \in Holding \ {"settle"}
  /\ Release(m)
  /\ UNCHANGED <<files, root, ghosts, crashes, losses>>

(* The command is killed: its lock file stays. *)
Crash(m) ==
  /\ pc[m] \in Holding /\ crashes < MaxCrashes
  /\ crashes' = crashes + 1
  /\ Forget(m)
  /\ UNCHANGED <<files, lock, root, ghosts, losses>>

(* "If none is running, delete that stale lock file and re-run." *)
RemoveStaleLock ==
  /\ lock # Free /\ \A m \in Migrator : pc[m] = "idle"
  /\ lock' = Free
  /\ UNCHANGED <<files, pc, snap, stage, root, ghosts, crashes, losses>>

(* What an entry may be after a power loss, given the durable one and the  *)
(* visible one.                                                            *)
AfterLoss(n, durable, visible) == {durable, IF n \in unsynced THEN Torn ELSE visible}

(* Every process ends; each entry is the visible one or the durable one.   *)
(* What the user wrote without a sync is lost with it, to nobody's blame.  *)
PowerLoss ==
  /\ losses < MaxPowerLosses
  /\ losses' = losses + 1
  /\ dir' \in [db : AfterLoss("db", disk.db, dir.db),
               config : AfterLoss("config", disk.config, dir.config),
               marker : AfterLoss("marker", disk.marker, dir.marker)]
  /\ disk' = dir'
  /\ unsynced' = {}
  /\ owned' = IF dir'.config = dir.config THEN owned ELSE owned \ {dir.config}
  /\ pc' = [m \in Migrator |-> "idle"]
  /\ snap' = [m \in Migrator |-> {}] /\ stage' = snap'
  /\ root' = [p \in Proc |-> "off"]
  /\ lock' \in {lock, Free}
  /\ UNCHANGED <<legacy, store, aside, haveConfig, committed, late, edited, crashes>>

(* resolveStateRoot: once per process, by the marker. *)
ResolvedRoot == IF Marked THEN "current" ELSE "legacy"

Open(p) ==
  /\ root[p] = "off"
  /\ root' = [root EXCEPT ![p] = ResolvedRoot]
  /\ UNCHANGED <<files, lock, pc, snap, stage, ghosts, crashes, losses>>

Close(p) ==
  /\ root[p] # "off"
  /\ root' = [root EXCEPT ![p] = "off"]
  /\ UNCHANGED <<files, lock, pc, snap, stage, ghosts, crashes, losses>>

(* A write to the store a process opened. *)
CommitLegacy(p, c) ==
  /\ root[p] = "legacy" /\ c \notin committed
  /\ legacy' = legacy \cup {c}
  /\ committed' = committed \cup {c}
  /\ late' = IF Marked \/ \E m \in Migrator : pc[m] = "mark" THEN late \cup {c} ELSE late
  /\ UNCHANGED <<store, dir, disk, unsynced, aside, haveConfig, lock, pc, snap, stage,
                 root, owned, edited, crashes, losses>>

CommitCurrent(p, c) ==
  /\ root[p] = "current" /\ c \notin committed
  /\ store' = IF dir.db = Copy THEN store \cup {c} ELSE store
  /\ committed' = committed \cup {c}
  /\ late' = IF disk.marker = Absent THEN late \cup {c} ELSE late
  /\ UNCHANGED <<legacy, dir, disk, unsynced, aside, haveConfig, lock, pc, snap, stage,
                 root, owned, edited, crashes, losses>>

(* The user writes the target config, as bytes of their own or as a copy   *)
(* of the legacy config, and syncs nothing.                                *)
EditConfig(h) ==
  /\ h \notin owned \cup aside \cup {dir.config, disk.config}
  /\ h = LegacyConfig => haveConfig
  /\ dir' = [dir EXCEPT !.config = h]
  /\ unsynced' = unsynced \cup {"config"}
  /\ owned' = (owned \ {dir.config}) \cup ({h} \cap HandFile)
  /\ edited' = TRUE
  /\ UNCHANGED <<legacy, store, disk, aside, haveConfig, lock, pc, snap, stage, root,
                 committed, late, crashes, losses>>

MigratorStep(m) ==
  \/ Begin(m) \/ Acquire(m) \/ Recheck(m) \/ OpenGuard(m) \/ MoveDbAside(m)
  \/ Backup(m) \/ Verify(m) \/ PublishDb(m) \/ PlanConfig(m) \/ SetConfigAside(m)
  \/ LinkConfig(m) \/ SyncIdentical(m) \/ SyncDir(m) \/ CompareGuard(m)
  \/ PublishMarker(m) \/ Settle(m) \/ Fail(m) \/ Crash(m)

ProcStep(p) ==
  \/ Open(p) \/ Close(p)
  \/ \E c \in Commits : CommitLegacy(p, c) \/ CommitCurrent(p, c)

Next ==
  \/ \E m \in Migrator : MigratorStep(m)
  \/ \E p \in Proc : ProcStep(p)
  \/ \E h \in HandFile \cup {LegacyConfig} : EditConfig(h)
  \/ RemoveStaleLock
  \/ PowerLoss

Spec == Init /\ [][Next]_vars

-----------------------------------------------------------------------------
Config == HandFile \cup {LegacyConfig, Absent, Torn}
Directory == [db : {Fork, Copy, Absent, Torn}, config : Config, marker : {"present", Absent}]

(* Every variable has its type, bytes are at risk in the config alone, and *)
(* the lock file is the one of the migrator past the exclusive create.     *)
TypeOK ==
  /\ legacy \subseteq Commits /\ store \subseteq Commits
  /\ dir \in Directory /\ disk \in Directory
  /\ unsynced \subseteq {"config"} /\ aside \subseteq UserFile
  /\ lock \in Migrator \cup {Free} /\ haveConfig \in BOOLEAN
  /\ pc \in [Migrator -> Step]
  /\ snap \in [Migrator -> SUBSET Commits] /\ stage \in [Migrator -> SUBSET Commits]
  /\ root \in [Proc -> {"off", "legacy", "current"}]
  /\ late \subseteq committed /\ committed \subseteq Commits
  /\ owned \subseteq UserFile /\ edited \in BOOLEAN
  /\ crashes \in 0..MaxCrashes /\ losses \in 0..MaxPowerLosses
  /\ \A m \in Migrator : pc[m] \in Holding => lock = m

(* The store that a process starting now would open.  A marker beside no   *)
(* copy, or a torn one, names an empty store.                              *)
AuthoritativeStore ==
  CASE ~Marked                   -> legacy
    [] Marked /\ dir.db = Copy   -> store
    [] OTHER                     -> {}

(* Whatever crashes, power losses, aborted and concurrent runs there are,  *)
(* every write is in the authoritative store: the marker never flips       *)
(* authority to a copy that lacks one or to a hollow directory.  Outside   *)
(* the promise are the writes the code documents: to the legacy store      *)
(* after the last look at it, and to the new one before the marker's entry *)
(* is durable (migrate.ts, the guard and the marker; publishFile).         *)
NoWriteLost == committed \ late \subseteq AuthoritativeStore

(* The database or config a user had at the target, or wrote there while   *)
(* the migration ran, is still there or under its backup name              *)
(* (freeBackupPath, publishFileNoReplace).                                 *)
NothingClobbered == owned \subseteq aside \cup {dir.db, dir.config}

(* The marker flips authority to a directory with the legacy privacy       *)
(* config, or with none if the legacy directory has none, unless the user  *)
(* wrote the config after the migration looked at it (planConfig,          *)
(* applyConfig and the syncs before the marker).                           *)
ConfigCarried ==
  Marked /\ ~edited => dir.config = IF haveConfig THEN LegacyConfig ELSE Absent
=============================================================================
