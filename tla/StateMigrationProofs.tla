------------------------ MODULE StateMigrationProofs ------------------------
(***************************************************************************)
(* Proofs about the file of the store.                                     *)
(*                                                                         *)
(* Its move to another directory (StateMigration), for any number of runs, *)
(* processes, commits, crashes and power losses.  The idea: the lock gives *)
(* the target to one run at a time, a run publishes only a copy that holds *)
(* what the guard connection saw, and whatever the marker vouches for was  *)
(* durable before the marker could be seen.                                *)
(*                                                                         *)
(* Its opening (StoreOpen), for any number of processes.  The idea: from   *)
(* version 28 on every migration only adds, so what a process has          *)
(* established of the file it has open is never taken away.  And who       *)
(* removes a file has found it damaged and copied it, unless it has been   *)
(* recovering since before that file was made.                             *)
(***************************************************************************)
EXTENDS StateMigration, StoreOpen, SequenceTheorems, TLAPS

AfterCopy == {"plan", "discard", "replace", "link", "identical", "syncdir", "compare", "mark"}

-----------------------------------------------------------------------------
(* The invariant, by what its parts are about.                             *)

(* Bytes at risk belong to a config that exists.                           *)
NoConfigNoRisk == dir.config = Absent => "config" \notin unsynced

(* The earlier database is moved aside before a copy is published over it, *)
(* and a power loss can only bring it back.                                *)
TargetCleared == \A m \in Migrator : pc[m] \in {"backup", "verify", "publish"} => dir.db = Absent
ForkIsDurable == dir.db = Fork => disk.db = Fork

(* The marker ends every run but the one that published it, which settles. *)
MarkerEndsRuns ==
  /\ \A m \in Migrator : Marked /\ pc[m] \in Holding => pc[m] \in {"recheck", "settle"}
  /\ \A m \in Migrator : pc[m] = "settle" => Marked
  /\ disk.marker = "present" => Marked
  /\ \A p \in Proc : root[p] = "current" => Marked

(* The copy holds what the guard saw, and is durable before the marker.    *)
StageIsFull == \A m \in Migrator : pc[m] \in {"verify", "publish"} => snap[m] \subseteq stage[m]
GuardIsOlder == \A m \in Migrator : snap[m] \subseteq legacy
CopyIsFull == \A m \in Migrator : pc[m] \in AfterCopy => dir.db = Copy /\ snap[m] \subseteq store
CopyIsDurable ==
  (Marked \/ \E m \in Migrator : pc[m] \in {"compare", "mark"}) => dir.db = Copy /\ disk.db = Copy

(* Where the writes are that the code answers for.                         *)
Answered == committed \ late
LegacyHasAll == disk.marker = Absent => Answered \subseteq legacy
CopyHasAll == (Marked \/ \E m \in Migrator : pc[m] = "mark") => Answered \subseteq store

(* The config at each step, if the user has not written it since.          *)
Wanted == IF haveConfig THEN LegacyConfig ELSE Absent
ConfigPlanned ==
  \A m \in Migrator :
    /\ pc[m] = "discard" => ~haveConfig
    /\ pc[m] \in {"replace", "link", "identical"} => haveConfig
    /\ pc[m] = "identical" /\ ~edited => dir.config = Wanted
    /\ pc[m] = "syncdir" /\ ~edited => dir.config = Wanted /\ "config" \notin unsynced
ConfigIsDurable ==
  (Marked \/ \E m \in Migrator : pc[m] \in {"compare", "mark"}) /\ ~edited =>
    dir.config = Wanted /\ disk.config = Wanted /\ "config" \notin unsynced

TargetInv == TypeOK /\ NoConfigNoRisk /\ TargetCleared /\ ForkIsDurable /\ NothingClobbered
MarkerInv == MarkerEndsRuns /\ GuardIsOlder /\ StageIsFull /\ CopyIsFull /\ CopyIsDurable
WritesInv == LegacyHasAll /\ CopyHasAll
ConfigInv == ConfigPlanned /\ ConfigIsDurable
MigrationInv == TargetInv /\ MarkerInv /\ WritesInv /\ ConfigInv

-----------------------------------------------------------------------------
(* Types, in three parts.                                                  *)

FilesTyped ==
  /\ legacy \subseteq Commits /\ store \subseteq Commits
  /\ dir \in Directory /\ disk \in Directory
  /\ unsynced \subseteq {"config"} /\ aside \subseteq UserFile /\ haveConfig \in BOOLEAN
RunsTyped ==
  /\ lock \in Migrator \cup {Free}
  /\ pc \in [Migrator -> Step]
  /\ snap \in [Migrator -> SUBSET Commits] /\ stage \in [Migrator -> SUBSET Commits]
  /\ \A m \in Migrator : pc[m] \in Holding => lock = m
RestTyped ==
  /\ root \in [Proc -> {"off", "legacy", "current"}]
  /\ late \subseteq committed /\ committed \subseteq Commits
  /\ owned \subseteq UserFile /\ edited \in BOOLEAN
  /\ crashes \in 0..MaxCrashes /\ losses \in 0..MaxPowerLosses

LEMMA TypeParts == TypeOK <=> FilesTyped /\ RunsTyped /\ RestTyped
BY DEF TypeOK, FilesTyped, RunsTyped, RestTyped

LEMMA TypeInit == Init => TypeOK
<1> SUFFICES ASSUME Init PROVE TypeOK
  OBVIOUS
<1>1. FilesTyped
  BY StoresAssumption, EntriesAssumption DEF Init, FilesTyped, Directory, Config, UserFile
<1>2. RunsTyped
  <2>1. pc \in [Migrator -> Step] /\ \A m \in Migrator : pc[m] \notin Holding
    BY DEF Init, Step, Holding
  <2>2. snap \in [Migrator -> SUBSET Commits] /\ stage \in [Migrator -> SUBSET Commits]
    BY DEF Init
  <2>3. lock \in Migrator \cup {Free}
    BY DEF Init
  <2> QED BY <2>1, <2>2, <2>3 DEF RunsTyped
<1>3. RestTyped
  <2>1. crashes \in 0..MaxCrashes /\ losses \in 0..MaxPowerLosses
    BY StoresAssumption DEF Init
  <2>2. edited \in BOOLEAN /\ owned \subseteq UserFile
    BY DEF Init
  <2>3. root \in [Proc -> {"off", "legacy", "current"}]
    BY DEF Init
  <2>4. late \subseteq committed /\ committed \subseteq Commits
    BY DEF Init
  <2> QED BY <2>1, <2>2, <2>3, <2>4 DEF RestTyped
<1> QED BY <1>1, <1>2, <1>3, TypeParts

LEMMA FilesStep == ASSUME TypeOK, [Next]_vars PROVE FilesTyped'
<1> USE StoresAssumption, EntriesAssumption DEF TypeOK, FilesTyped, Directory, Config,
        MovedAside, files, ghosts, Goto, Forget, Release, Proceed, Step, Holding
<1>1. ASSUME NEW m \in Migrator, Begin(m) \/ Acquire(m) \/ Recheck(m)
      PROVE  FilesTyped'
  BY <1>1 DEF Begin, Acquire, Recheck
<1>2. ASSUME NEW m \in Migrator, OpenGuard(m) \/ MoveDbAside(m)
      PROVE  FilesTyped'
  BY <1>2 DEF OpenGuard, MoveDbAside
<1>3. ASSUME NEW m \in Migrator, Backup(m) \/ Verify(m)
      PROVE  FilesTyped'
  BY <1>3 DEF Backup, Verify
<1>4. ASSUME NEW m \in Migrator, PublishDb(m)
      PROVE  FilesTyped'
  BY <1>4 DEF PublishDb
<1>5. ASSUME NEW m \in Migrator, PlanConfig(m)
      PROVE  FilesTyped'
  BY <1>5 DEF PlanConfig, ConfigPlan
<1>6. ASSUME NEW m \in Migrator, SetConfigAside(m) \/ LinkConfig(m) \/ SyncIdentical(m)
      PROVE  FilesTyped'
  BY <1>6 DEF SetConfigAside, LinkConfig, SyncIdentical
<1>7. ASSUME NEW m \in Migrator, SyncDir(m) \/ CompareGuard(m)
      PROVE  FilesTyped'
  BY <1>7 DEF SyncDir, CompareGuard
<1>8. ASSUME NEW m \in Migrator, PublishMarker(m) \/ Settle(m)
      PROVE  FilesTyped'
  BY <1>8 DEF PublishMarker, Settle
<1>9. ASSUME NEW m \in Migrator, Fail(m) \/ Crash(m)
      PROVE  FilesTyped'
  BY <1>9 DEF Fail, Crash
<1>10. ASSUME NEW p \in Proc, Open(p) \/ Close(p)
      PROVE  FilesTyped'
  BY <1>10 DEF Open, Close, ResolvedRoot
<1>11. ASSUME NEW p \in Proc, NEW c \in Commits, CommitLegacy(p, c) \/ CommitCurrent(p, c)
      PROVE  FilesTyped'
  BY <1>11 DEF CommitLegacy, CommitCurrent
<1>12. ASSUME NEW h \in HandFile \cup {LegacyConfig}, EditConfig(h)
      PROVE  FilesTyped'
  BY <1>12 DEF EditConfig
<1>13. CASE RemoveStaleLock
  BY <1>13 DEF RemoveStaleLock
<1>14. CASE PowerLoss
  BY <1>14 DEF PowerLoss, AfterLoss
<1>15. CASE UNCHANGED vars
  BY <1>15 DEF vars
<1> QED BY <1>1, <1>2, <1>3, <1>4, <1>5, <1>6, <1>7, <1>8, <1>9, <1>10, <1>11, <1>12, <1>13,
     <1>14, <1>15
     DEF Next, MigratorStep, ProcStep

LEMMA RunsStep == ASSUME TypeOK, [Next]_vars PROVE RunsTyped'
<1> USE StoresAssumption, EntriesAssumption DEF TypeOK, RunsTyped, files, ghosts, Goto,
        Forget, Release, Proceed, Step, Holding
<1>1. ASSUME NEW m \in Migrator, Begin(m) \/ Acquire(m) \/ Recheck(m)
      PROVE  RunsTyped'
  BY <1>1 DEF Begin, Acquire, Recheck
<1>2. ASSUME NEW m \in Migrator, OpenGuard(m) \/ MoveDbAside(m)
      PROVE  RunsTyped'
  BY <1>2 DEF OpenGuard, MoveDbAside
<1>3. ASSUME NEW m \in Migrator, Backup(m) \/ Verify(m)
      PROVE  RunsTyped'
  BY <1>3 DEF Backup, Verify
<1>4. ASSUME NEW m \in Migrator, PublishDb(m)
      PROVE  RunsTyped'
  BY <1>4 DEF PublishDb
<1>5. ASSUME NEW m \in Migrator, PlanConfig(m)
      PROVE  RunsTyped'
  BY <1>5 DEF PlanConfig, ConfigPlan
<1>6. ASSUME NEW m \in Migrator, SetConfigAside(m) \/ LinkConfig(m) \/ SyncIdentical(m)
      PROVE  RunsTyped'
  BY <1>6 DEF SetConfigAside, LinkConfig, SyncIdentical
<1>7. ASSUME NEW m \in Migrator, SyncDir(m) \/ CompareGuard(m)
      PROVE  RunsTyped'
  BY <1>7 DEF SyncDir, CompareGuard
<1>8. ASSUME NEW m \in Migrator, PublishMarker(m) \/ Settle(m)
      PROVE  RunsTyped'
  BY <1>8 DEF PublishMarker, Settle
<1>9. ASSUME NEW m \in Migrator, Fail(m) \/ Crash(m)
      PROVE  RunsTyped'
  BY <1>9 DEF Fail, Crash
<1>10. ASSUME NEW p \in Proc, Open(p) \/ Close(p)
      PROVE  RunsTyped'
  BY <1>10 DEF Open, Close, ResolvedRoot
<1>11. ASSUME NEW p \in Proc, NEW c \in Commits, CommitLegacy(p, c) \/ CommitCurrent(p, c)
      PROVE  RunsTyped'
  BY <1>11 DEF CommitLegacy, CommitCurrent
<1>12. ASSUME NEW h \in HandFile \cup {LegacyConfig}, EditConfig(h)
      PROVE  RunsTyped'
  BY <1>12 DEF EditConfig
<1>13. CASE RemoveStaleLock
  BY <1>13 DEF RemoveStaleLock
<1>14. CASE PowerLoss
  BY <1>14 DEF PowerLoss, AfterLoss
<1>15. CASE UNCHANGED vars
  BY <1>15 DEF vars
<1> QED BY <1>1, <1>2, <1>3, <1>4, <1>5, <1>6, <1>7, <1>8, <1>9, <1>10, <1>11, <1>12, <1>13,
     <1>14, <1>15
     DEF Next, MigratorStep, ProcStep

LEMMA RestStep == ASSUME TypeOK, [Next]_vars PROVE RestTyped'
<1> USE StoresAssumption, EntriesAssumption DEF TypeOK, RestTyped, UserFile, files, ghosts,
        Goto, Forget, Release, Proceed, Step, Holding
<1>1. ASSUME NEW m \in Migrator, Begin(m) \/ Acquire(m) \/ Recheck(m)
      PROVE  RestTyped'
  BY <1>1 DEF Begin, Acquire, Recheck
<1>2. ASSUME NEW m \in Migrator, OpenGuard(m) \/ MoveDbAside(m)
      PROVE  RestTyped'
  BY <1>2 DEF OpenGuard, MoveDbAside
<1>3. ASSUME NEW m \in Migrator, Backup(m) \/ Verify(m)
      PROVE  RestTyped'
  BY <1>3 DEF Backup, Verify
<1>4. ASSUME NEW m \in Migrator, PublishDb(m)
      PROVE  RestTyped'
  BY <1>4 DEF PublishDb
<1>5. ASSUME NEW m \in Migrator, PlanConfig(m)
      PROVE  RestTyped'
  BY <1>5 DEF PlanConfig, ConfigPlan
<1>6. ASSUME NEW m \in Migrator, SetConfigAside(m) \/ LinkConfig(m) \/ SyncIdentical(m)
      PROVE  RestTyped'
  BY <1>6 DEF SetConfigAside, LinkConfig, SyncIdentical
<1>7. ASSUME NEW m \in Migrator, SyncDir(m) \/ CompareGuard(m)
      PROVE  RestTyped'
  BY <1>7 DEF SyncDir, CompareGuard
<1>8. ASSUME NEW m \in Migrator, PublishMarker(m) \/ Settle(m)
      PROVE  RestTyped'
  BY <1>8 DEF PublishMarker, Settle
<1>9. ASSUME NEW m \in Migrator, Fail(m) \/ Crash(m)
      PROVE  RestTyped'
  BY <1>9 DEF Fail, Crash
<1>10. ASSUME NEW p \in Proc, Open(p) \/ Close(p)
      PROVE  RestTyped'
  BY <1>10 DEF Open, Close, ResolvedRoot
<1>11. ASSUME NEW p \in Proc, NEW c \in Commits, CommitLegacy(p, c) \/ CommitCurrent(p, c)
      PROVE  RestTyped'
  BY <1>11 DEF CommitLegacy, CommitCurrent
<1>12. ASSUME NEW h \in HandFile \cup {LegacyConfig}, EditConfig(h)
      PROVE  RestTyped'
  BY <1>12 DEF EditConfig
<1>13. CASE RemoveStaleLock
  BY <1>13 DEF RemoveStaleLock
<1>14. CASE PowerLoss
  BY <1>14 DEF PowerLoss, AfterLoss
<1>15. CASE UNCHANGED vars
  BY <1>15 DEF vars
<1> QED BY <1>1, <1>2, <1>3, <1>4, <1>5, <1>6, <1>7, <1>8, <1>9, <1>10, <1>11, <1>12, <1>13,
     <1>14, <1>15
     DEF Next, MigratorStep, ProcStep

LEMMA TypeStep == TypeOK /\ [Next]_vars => TypeOK'
<1> SUFFICES ASSUME TypeOK, [Next]_vars PROVE TypeOK'
  OBVIOUS
<1>1. FilesTyped' /\ RunsTyped' /\ RestTyped'
  BY FilesStep, RunsStep, RestStep
<1> QED BY <1>1 DEF TypeOK, FilesTyped, RunsTyped, RestTyped

(* Whoever is past the exclusive create of the lock file is alone there,   *)
(* and only the config is ever exposed to a power loss (acquireLock).      *)
THEOREM MigrationTypeCorrect == Spec => []TypeOK
BY TypeInit, TypeStep, PTL DEF Spec

-----------------------------------------------------------------------------
LEMMA MigrationInit == Init => MigrationInv
<1> SUFFICES ASSUME Init PROVE MigrationInv
  OBVIOUS
<1> USE StoresAssumption, EntriesAssumption, TypeInit DEF Init
<1>1. TargetInv
  <2>1. NoConfigNoRisk /\ TargetCleared /\ ForkIsDurable
    BY DEF NoConfigNoRisk, TargetCleared, ForkIsDurable
  <2>2. NothingClobbered
    BY DEF NothingClobbered
  <2> QED BY <2>1, <2>2 DEF TargetInv
<1>2. MarkerInv
  BY DEF MarkerInv, MarkerEndsRuns, GuardIsOlder, StageIsFull, CopyIsFull, CopyIsDurable, AfterCopy,
     Marked, Holding
<1>3. WritesInv
  BY DEF WritesInv, LegacyHasAll, CopyHasAll, Answered
<1>4. ConfigInv
  BY DEF ConfigInv, ConfigPlanned, ConfigIsDurable, Marked
<1> QED BY <1>1, <1>2, <1>3, <1>4 DEF MigrationInv

(* What was at the target is moved aside, never overwritten. *)
LEMMA TargetStep == ASSUME TargetInv, TypeOK', [Next]_vars PROVE TargetInv'
<1> USE StoresAssumption, EntriesAssumption DEF TargetInv, TypeOK, NoConfigNoRisk,
        TargetCleared, ForkIsDurable, NothingClobbered, Directory, Config, UserFile,
        MovedAside, files, ghosts, Goto, Forget, Release, Proceed, Step, Holding
<1>1. ASSUME NEW m \in Migrator, Begin(m) \/ Acquire(m) \/ Recheck(m)
      PROVE  TargetInv'
  BY <1>1 DEF Begin, Acquire, Recheck
<1>2. ASSUME NEW m \in Migrator, OpenGuard(m) \/ MoveDbAside(m)
      PROVE  TargetInv'
  BY <1>2 DEF OpenGuard, MoveDbAside
<1>3. ASSUME NEW m \in Migrator, Backup(m) \/ Verify(m)
      PROVE  TargetInv'
  BY <1>3 DEF Backup, Verify
<1>4. ASSUME NEW m \in Migrator, PublishDb(m)
      PROVE  TargetInv'
  BY <1>4 DEF PublishDb
<1>5. ASSUME NEW m \in Migrator, PlanConfig(m)
      PROVE  TargetInv'
  BY <1>5 DEF PlanConfig, ConfigPlan
<1>6. ASSUME NEW m \in Migrator, SetConfigAside(m) \/ LinkConfig(m) \/ SyncIdentical(m)
      PROVE  TargetInv'
  BY <1>6 DEF SetConfigAside, LinkConfig, SyncIdentical
<1>7. ASSUME NEW m \in Migrator, SyncDir(m) \/ CompareGuard(m)
      PROVE  TargetInv'
  BY <1>7 DEF SyncDir, CompareGuard
<1>8. ASSUME NEW m \in Migrator, PublishMarker(m) \/ Settle(m)
      PROVE  TargetInv'
  BY <1>8 DEF PublishMarker, Settle
<1>9. ASSUME NEW m \in Migrator, Fail(m) \/ Crash(m)
      PROVE  TargetInv'
  BY <1>9 DEF Fail, Crash
<1>10. ASSUME NEW p \in Proc, Open(p) \/ Close(p)
      PROVE  TargetInv'
  BY <1>10 DEF Open, Close, ResolvedRoot
<1>11. ASSUME NEW p \in Proc, NEW c \in Commits, CommitLegacy(p, c) \/ CommitCurrent(p, c)
      PROVE  TargetInv'
  BY <1>11 DEF CommitLegacy, CommitCurrent
<1>12. ASSUME NEW h \in HandFile \cup {LegacyConfig}, EditConfig(h)
      PROVE  TargetInv'
  BY <1>12 DEF EditConfig
<1>13. CASE RemoveStaleLock
  BY <1>13 DEF RemoveStaleLock
<1>14. CASE PowerLoss
  BY <1>14 DEF PowerLoss, AfterLoss
<1>15. CASE UNCHANGED vars
  BY <1>15 DEF vars
<1> QED BY <1>1, <1>2, <1>3, <1>4, <1>5, <1>6, <1>7, <1>8, <1>9, <1>10, <1>11, <1>12, <1>13,
     <1>14, <1>15
     DEF Next, MigratorStep, ProcStep

(* The copy a marker vouches for is full and durable. *)
LEMMA MarkerStep == ASSUME TargetInv, MarkerInv, [Next]_vars PROVE MarkerInv'
<1> USE StoresAssumption, EntriesAssumption DEF TargetInv, TypeOK, ForkIsDurable, MarkerInv,
        MarkerEndsRuns, GuardIsOlder, StageIsFull, CopyIsFull, CopyIsDurable, AfterCopy,
        Marked, Directory, files, ghosts, Goto, Forget, Release, Proceed, Step, Holding
<1>1. ASSUME NEW m \in Migrator, Begin(m) \/ Acquire(m) \/ Recheck(m)
      PROVE  MarkerInv'
  BY <1>1 DEF Begin, Acquire, Recheck
<1>2. ASSUME NEW m \in Migrator, OpenGuard(m) \/ MoveDbAside(m)
      PROVE  MarkerInv'
  BY <1>2 DEF OpenGuard, MoveDbAside
<1>3. ASSUME NEW m \in Migrator, Backup(m) \/ Verify(m)
      PROVE  MarkerInv'
  BY <1>3 DEF Backup, Verify
<1>4. ASSUME NEW m \in Migrator, PublishDb(m)
      PROVE  MarkerInv'
  BY <1>4 DEF PublishDb
<1>5. ASSUME NEW m \in Migrator, PlanConfig(m)
      PROVE  MarkerInv'
  BY <1>5 DEF PlanConfig, ConfigPlan
<1>6. ASSUME NEW m \in Migrator, SetConfigAside(m) \/ LinkConfig(m) \/ SyncIdentical(m)
      PROVE  MarkerInv'
  BY <1>6 DEF SetConfigAside, LinkConfig, SyncIdentical
<1>7. ASSUME NEW m \in Migrator, SyncDir(m) \/ CompareGuard(m)
      PROVE  MarkerInv'
  BY <1>7 DEF SyncDir, CompareGuard
<1>8. ASSUME NEW m \in Migrator, PublishMarker(m) \/ Settle(m)
      PROVE  MarkerInv'
  BY <1>8 DEF PublishMarker, Settle
<1>9. ASSUME NEW m \in Migrator, Fail(m) \/ Crash(m)
      PROVE  MarkerInv'
  BY <1>9 DEF Fail, Crash
<1>10. ASSUME NEW p \in Proc, Open(p) \/ Close(p)
      PROVE  MarkerInv'
  BY <1>10 DEF Open, Close, ResolvedRoot
<1>11. ASSUME NEW p \in Proc, NEW c \in Commits, CommitLegacy(p, c) \/ CommitCurrent(p, c)
      PROVE  MarkerInv'
  BY <1>11 DEF CommitLegacy, CommitCurrent
<1>12. ASSUME NEW h \in HandFile \cup {LegacyConfig}, EditConfig(h)
      PROVE  MarkerInv'
  BY <1>12 DEF EditConfig
<1>13. CASE RemoveStaleLock
  BY <1>13 DEF RemoveStaleLock
<1>14. CASE PowerLoss
  BY <1>14 DEF PowerLoss, AfterLoss
<1>15. CASE UNCHANGED vars
  BY <1>15 DEF vars
<1> QED BY <1>1, <1>2, <1>3, <1>4, <1>5, <1>6, <1>7, <1>8, <1>9, <1>10, <1>11, <1>12, <1>13,
     <1>14, <1>15
     DEF Next, MigratorStep, ProcStep

(* The store that is authoritative, or may be after a power loss, has every write. *)
LEMMA WritesStep == ASSUME TargetInv, MarkerInv, WritesInv, [Next]_vars PROVE WritesInv'
<1> USE StoresAssumption, EntriesAssumption DEF TargetInv, TypeOK, MarkerInv,
        MarkerEndsRuns, GuardIsOlder, CopyIsFull, CopyIsDurable, WritesInv, LegacyHasAll,
        CopyHasAll, Answered, SourceUnchanged, AfterCopy, Marked, Directory, files, ghosts,
        Goto, Forget, Release, Proceed, Step, Holding
<1>1. ASSUME NEW m \in Migrator, Begin(m) \/ Acquire(m) \/ Recheck(m)
      PROVE  WritesInv'
  BY <1>1 DEF Begin, Acquire, Recheck
<1>2. ASSUME NEW m \in Migrator, OpenGuard(m) \/ MoveDbAside(m)
      PROVE  WritesInv'
  BY <1>2 DEF OpenGuard, MoveDbAside
<1>3. ASSUME NEW m \in Migrator, Backup(m) \/ Verify(m)
      PROVE  WritesInv'
  BY <1>3 DEF Backup, Verify
<1>4. ASSUME NEW m \in Migrator, PublishDb(m)
      PROVE  WritesInv'
  BY <1>4 DEF PublishDb
<1>5. ASSUME NEW m \in Migrator, PlanConfig(m)
      PROVE  WritesInv'
  BY <1>5 DEF PlanConfig, ConfigPlan
<1>6. ASSUME NEW m \in Migrator, SetConfigAside(m) \/ LinkConfig(m) \/ SyncIdentical(m)
      PROVE  WritesInv'
  BY <1>6 DEF SetConfigAside, LinkConfig, SyncIdentical
<1>7. ASSUME NEW m \in Migrator, SyncDir(m) \/ CompareGuard(m)
      PROVE  WritesInv'
  BY <1>7 DEF SyncDir, CompareGuard
<1>8. ASSUME NEW m \in Migrator, PublishMarker(m) \/ Settle(m)
      PROVE  WritesInv'
  BY <1>8 DEF PublishMarker, Settle
<1>9. ASSUME NEW m \in Migrator, Fail(m) \/ Crash(m)
      PROVE  WritesInv'
  BY <1>9 DEF Fail, Crash
<1>10. ASSUME NEW p \in Proc, Open(p) \/ Close(p)
      PROVE  WritesInv'
  BY <1>10 DEF Open, Close, ResolvedRoot
<1>11. ASSUME NEW p \in Proc, NEW c \in Commits, CommitLegacy(p, c) \/ CommitCurrent(p, c)
      PROVE  WritesInv'
  BY <1>11 DEF CommitLegacy, CommitCurrent
<1>12. ASSUME NEW h \in HandFile \cup {LegacyConfig}, EditConfig(h)
      PROVE  WritesInv'
  BY <1>12 DEF EditConfig
<1>13. CASE RemoveStaleLock
  BY <1>13 DEF RemoveStaleLock
<1>14. CASE PowerLoss
  BY <1>14 DEF PowerLoss, AfterLoss
<1>15. CASE UNCHANGED vars
  BY <1>15 DEF vars
<1> QED BY <1>1, <1>2, <1>3, <1>4, <1>5, <1>6, <1>7, <1>8, <1>9, <1>10, <1>11, <1>12, <1>13,
     <1>14, <1>15
     DEF Next, MigratorStep, ProcStep

(* The config is planned, put in place and made durable before the marker. *)
LEMMA ConfigStep == ASSUME TargetInv, MarkerInv, ConfigInv, [Next]_vars PROVE ConfigInv'
<1> USE StoresAssumption, EntriesAssumption DEF TargetInv, TypeOK, NoConfigNoRisk,
        MarkerInv, MarkerEndsRuns, ConfigInv, ConfigPlanned, ConfigIsDurable, Wanted,
        Marked, Directory, files, ghosts, Goto, Forget, Release, Proceed, Step, Holding
<1>1. ASSUME NEW m \in Migrator, Begin(m) \/ Acquire(m) \/ Recheck(m)
      PROVE  ConfigInv'
  BY <1>1 DEF Begin, Acquire, Recheck
<1>2. ASSUME NEW m \in Migrator, OpenGuard(m) \/ MoveDbAside(m)
      PROVE  ConfigInv'
  BY <1>2 DEF OpenGuard, MoveDbAside
<1>3. ASSUME NEW m \in Migrator, Backup(m) \/ Verify(m)
      PROVE  ConfigInv'
  BY <1>3 DEF Backup, Verify
<1>4. ASSUME NEW m \in Migrator, PublishDb(m)
      PROVE  ConfigInv'
  BY <1>4 DEF PublishDb
<1>5. ASSUME NEW m \in Migrator, PlanConfig(m)
      PROVE  ConfigInv'
  BY <1>5 DEF PlanConfig, ConfigPlan
<1>6. ASSUME NEW m \in Migrator, SetConfigAside(m) \/ LinkConfig(m) \/ SyncIdentical(m)
      PROVE  ConfigInv'
  BY <1>6 DEF SetConfigAside, LinkConfig, SyncIdentical
<1>7. ASSUME NEW m \in Migrator, SyncDir(m) \/ CompareGuard(m)
      PROVE  ConfigInv'
  BY <1>7 DEF SyncDir, CompareGuard
<1>8. ASSUME NEW m \in Migrator, PublishMarker(m) \/ Settle(m)
      PROVE  ConfigInv'
  BY <1>8 DEF PublishMarker, Settle
<1>9. ASSUME NEW m \in Migrator, Fail(m) \/ Crash(m)
      PROVE  ConfigInv'
  BY <1>9 DEF Fail, Crash
<1>10. ASSUME NEW p \in Proc, Open(p) \/ Close(p)
      PROVE  ConfigInv'
  BY <1>10 DEF Open, Close, ResolvedRoot
<1>11. ASSUME NEW p \in Proc, NEW c \in Commits, CommitLegacy(p, c) \/ CommitCurrent(p, c)
      PROVE  ConfigInv'
  BY <1>11 DEF CommitLegacy, CommitCurrent
<1>12. ASSUME NEW h \in HandFile \cup {LegacyConfig}, EditConfig(h)
      PROVE  ConfigInv'
  BY <1>12 DEF EditConfig
<1>13. CASE RemoveStaleLock
  BY <1>13 DEF RemoveStaleLock
<1>14. CASE PowerLoss
  BY <1>14 DEF PowerLoss, AfterLoss
<1>15. CASE UNCHANGED vars
  BY <1>15 DEF vars
<1> QED BY <1>1, <1>2, <1>3, <1>4, <1>5, <1>6, <1>7, <1>8, <1>9, <1>10, <1>11, <1>12, <1>13,
     <1>14, <1>15
     DEF Next, MigratorStep, ProcStep

LEMMA MigrationStep == MigrationInv /\ [Next]_vars => MigrationInv'
<1> SUFFICES ASSUME MigrationInv, [Next]_vars PROVE MigrationInv'
  OBVIOUS
<1>1. TypeOK'
  BY TypeStep DEF MigrationInv, TargetInv
<1> QED BY <1>1, TargetStep, MarkerStep, WritesStep, ConfigStep DEF MigrationInv

LEMMA MigrationInvariant == Spec => []MigrationInv
BY MigrationInit, MigrationStep, PTL DEF Spec

-----------------------------------------------------------------------------
(* However many runs, crashes and power losses there are, the store a      *)
(* process would open has every write the code answers for (the guard      *)
(* connection, verifyCopy and the order of syncs before the marker).       *)
THEOREM NoWriteIsLost == Spec => []NoWriteLost
<1>1. MigrationInv => NoWriteLost
  BY DEF MigrationInv, TargetInv, TypeOK, Directory, MarkerInv, MarkerEndsRuns, CopyIsDurable,
     WritesInv, LegacyHasAll, CopyHasAll, Answered, NoWriteLost, AuthoritativeStore, Marked
<1> QED BY <1>1, MigrationInvariant, PTL

(* A file the user had at the target, or wrote there during a run, is      *)
(* there or under its backup name (freeBackupPath, publishFileNoReplace).  *)
THEOREM NothingIsClobbered == Spec => []NothingClobbered
<1>1. MigrationInv => NothingClobbered
  BY DEF MigrationInv, TargetInv
<1> QED BY <1>1, MigrationInvariant, PTL

(* The marker never vouches for a directory whose privacy config is not    *)
(* the legacy one, unless the user wrote it since (planConfig,             *)
(* applyConfig).                                                           *)
THEOREM ConfigIsCarried == Spec => []ConfigCarried
<1>1. MigrationInv => ConfigCarried
  BY DEF MigrationInv, ConfigInv, ConfigIsDurable, ConfigCarried, Wanted
<1> QED BY <1>1, MigrationInvariant, PTL

-----------------------------------------------------------------------------
(* Opening the store.  A file found at version 28 or later only gains        *)
(* pieces, so what a process has established of its file stays.              *)

Recent(d) ==
  /\ d.versions = <<>> => "reverted" \notin d.has
  /\ d.versions # <<>> => Version(d) \in 28 .. 32 /\ Promised(Version(d)) \subseteq d.has

(* What releases since the rebuild of v28 left.                              *)
FoundRecent == \A d \in Start \ {Nil} : Recent(d)

Rule == {"legacy", "rule"}
Origin == Rule \cup {"origin"}
Events == Origin \cup {"rollup", "events"}
Dedup == Events \cup {"dedup"}
Team == Dedup \cup {"team", "cause", "rowid"}

Outside == {"closed", "copy", "unlink", "connect"}
Inside == {"ensure", "create", "v29", "v30", "v30 write", "v31", "v31 version", "v32", "fts", "ready"}

\* Where a process may stand that acts on version v, by what its file has.
Reached(a, v, d) ==
  /\ a # "ensure" => (IF a = "create" THEN "reverted" \notin d.has ELSE d.versions # <<>>)
  /\ a = "v29" => v = 28 /\ Rule \subseteq d.has
  /\ a \in {"v30", "v30 write"} => v \in 28 .. 30 /\ Origin \subseteq d.has
  /\ a = "v31" => v \in 28 .. 30 /\ Events \subseteq d.has
  /\ a = "v31 version" => v \in 28 .. 30 /\ Dedup \subseteq d.has
  /\ a = "v32" => v \in 28 .. 32 /\ Dedup \subseteq d.has
  /\ a = "fts" => v \in 28 .. 32 /\ Team \subseteq d.has /\ "reverted" \notin d.has
  /\ a = "ready" => Full \subseteq d.has /\ "reverted" \notin d.has

StoreInv ==
  /\ db \in Seq(File) /\ \A i \in DOMAIN db : Recent(db[i])
  /\ path = Nil \/ path \in DOMAIN db
  /\ at \in [Process -> Outside \cup Inside] /\ DOMAIN ino = Process /\ DOMAIN ver = Process
  /\ \A p \in Process : at[p] \in Inside => ino[p] \in DOMAIN db /\ Reached(at[p], ver[p], db[ino[p]])

Grows(d, e) ==
  /\ d.has \ {"reverted"} \subseteq e.has
  /\ "reverted" \in e.has => "reverted" \in d.has
  /\ d.versions # <<>> => e.versions # <<>>

LEMMA KnownVersions == Versions = 0 .. 32 /\ 27 .. 32 \subseteq Versions /\ SchemaVersion = 32 /\ SchemaVersion \in Versions
BY DEF Versions, SchemaVersion

LEMMA KnownPieces ==
  /\ Full \subseteq Piece
  /\ {"legacy", "rule", "fts", "origin", "rollup", "events", "dedup", "team", "cause", "rowid"} \subseteq Piece
BY DEF Piece, Full, Columns

LEMMA StagesAre ==
  /\ Len(Stages) = 8 /\ DOMAIN Stages = 1 .. 8
  /\ Stages[1] = "legacy" /\ Stages[2] = "v28" /\ Stages[3] = "v29" /\ Stages[4] = "v30"
  /\ Stages[5] = "v31" /\ Stages[6] = "v32" /\ Stages[7] = "fts" /\ Stages[8] = "ready"
BY DEF Stages

LEMMA StageIndex ==
  /\ Index("legacy") = 1 /\ Index("v29") = 3 /\ Index("v31") = 5 /\ Index("v32") = 6 /\ Index("fts") = 7
<1>1. ASSUME NEW i \in 1 .. 8, NEW s, s = Stages[i], \A j \in 1 .. 8 : Stages[j] = s => j = i
      PROVE  Index(s) = i
  BY <1>1, StagesAre DEF Index
<1>2. \A i, j \in 1 .. 8 : Stages[i] = Stages[j] => i = j
  BY StagesAre
<1> QED  BY <1>1, <1>2, StagesAre

(* The next stage is the first one that is due.                              *)
LEMMA FirstDue ==
  ASSUME NEW i \in 1 .. 8, NEW v, NEW d, NEW k \in i .. 8, Due(Stages[k], v, d),
         \A j \in i .. 8 : j < k => ~Due(Stages[j], v, d)
  PROVE  NextStage(i, v, d) = Stages[k]
<1> DEFINE due == {j \in i .. Len(Stages) : Due(Stages[j], v, d)}
<1>1. k \in due /\ \A l \in due : k <= l
  BY StagesAre
<1>2. due \subseteq Nat
  BY StagesAre
<1> HIDE DEF due
<1>3. (CHOOSE j \in due : \A l \in due : j <= l) = k
  <2> DEFINE c == CHOOSE j \in due : \A l \in due : j <= l
  <2>1. c \in due /\ \A l \in due : c <= l
    BY <1>1
  <2> HIDE DEF c
  <2>2. c = k
    BY <1>1, <1>2, <2>1
  <2> QED  BY <2>2 DEF c
<1> QED  BY <1>3 DEF NextStage, due

LEMMA DueStages ==
  ASSUME NEW v \in 28 .. 32, NEW d
  PROVE  /\ ~Due(Stages[1], v, d) /\ ~Due(Stages[2], v, d) /\ (Due(Stages[3], v, d) <=> v = 28)
         /\ (Due(Stages[4], v, d) <=> v <= 30) /\ (Due(Stages[5], v, d) <=> v <= 30)
         /\ (Due(Stages[6], v, d) <=> (v <= 31 \/ NeedsHeal(d)))
         /\ Due(Stages[7], v, d) /\ Due(Stages[8], v, d)
BY StagesAre DEF Due, UpTo

(* Where the stages lead.                                                    *)
LEMMA NextStages ==
  ASSUME NEW v \in 28 .. 32, NEW d
  PROVE  /\ v = 28 => NextStage(1, v, d) = "v29" /\ NextStage(4, v, d) = "v30"
         /\ v \in 29 .. 30 => NextStage(1, v, d) = "v30"
         /\ v <= 30 => NextStage(5, v, d) = "v31" /\ NextStage(6, v, d) = "v32"
         /\ v > 30 => NextStage(1, v, d) = IF v = 31 \/ NeedsHeal(d) THEN "v32" ELSE "fts"
         /\ NextStage(7, v, d) = "fts" /\ NextStage(8, v, d) = "ready"
<1> USE DueStages, StagesAre
<1>1. v = 28 => NextStage(1, v, d) = "v29"
  BY FirstDue, 3 \in 1 .. 8
<1>2. v = 28 => NextStage(4, v, d) = "v30"
  BY FirstDue, 4 \in 4 .. 8
<1>3. v \in 29 .. 30 => NextStage(1, v, d) = "v30"
  BY FirstDue, 4 \in 1 .. 8
<1>4. v <= 30 => NextStage(5, v, d) = "v31" /\ NextStage(6, v, d) = "v32"
  BY FirstDue, 5 \in 5 .. 8, 6 \in 6 .. 8
<1>5. v > 30 /\ (v = 31 \/ NeedsHeal(d)) => NextStage(1, v, d) = "v32"
  BY FirstDue, 6 \in 1 .. 8
<1>6. v > 30 /\ ~(v = 31 \/ NeedsHeal(d)) => NextStage(1, v, d) = "fts"
  BY FirstDue, 7 \in 1 .. 8
<1>7. NextStage(7, v, d) = "fts" /\ NextStage(8, v, d) = "ready"
  BY FirstDue, 7 \in 7 .. 8, 8 \in 8 .. 8
<1> QED  BY <1>1, <1>2, <1>3, <1>4, <1>5, <1>6, <1>7

LEMMA Migrated ==
  ASSUME NEW f \in File, NEW P \in SUBSET Piece, NEW v \in Versions, f.versions # <<>>
  PROVE  LET d == AtVersion(With(f, P), v)
         IN  d \in File /\ d.has = f.has \cup P /\ d.versions # <<>> /\ Version(d) = v
<1> DEFINE e == With(f, P)
           d == AtVersion(e, v)
           s == [i \in DOMAIN f.versions |-> v]
<1>1. e \in File /\ e.has = f.has \cup P /\ e.versions = f.versions
  BY DEF With, File
<1>2. s \in Seq(Versions) /\ s # <<>> /\ Head(s) = v
  <2>1. f.versions \in Seq(Versions) /\ Len(f.versions) >= 1
    BY DEF File
  <2>2. s \in Seq(Versions) /\ Len(s) = Len(f.versions) /\ s[1] = v
    BY <2>1
  <2> QED  BY <2>1, <2>2
<1> HIDE DEF e
<1>3. d \in File /\ d.has = e.has /\ d.versions = s
  <2>1. d = [e EXCEPT !.versions = [i \in DOMAIN e.versions |-> v]]
    BY DEF AtVersion
  <2>2. d = [e EXCEPT !.versions = s]
    BY <1>1, <2>1
  <2> HIDE DEF s, d
  <2> QED  BY <1>1, <1>2, <2>2 DEF File
<1> QED  BY <1>1, <1>2, <1>3 DEF Version, e

LEMMA ReachedStays ==
  ASSUME NEW a, NEW v, NEW d, NEW e, Reached(a, v, d), Grows(d, e)
  PROVE  Reached(a, v, e)
<1>1. "reverted" \notin Team \cup Full /\ Rule \cup Origin \cup Events \cup Dedup \subseteq Team
  BY DEF Team, Dedup, Events, Origin, Rule, Full, Columns
<1> QED  BY <1>1 DEF Reached, Grows

(* A transaction of one process on its file.                                 *)
LEMMA CommitStep ==
  ASSUME StoreInv, NEW p \in Process, NEW d \in File, NEW to \in Inside, Commit(p, d, to),
         at[p] \in Inside, Grows(db[ino[p]], d), Recent(d), Reached(to, ver[p], d)
  PROVE  StoreInv'
<1>1. db' = [db EXCEPT ![ino[p]] = d] /\ at' = [at EXCEPT ![p] = to] /\ UNCHANGED <<path, ino, ver>>
  BY DEF Commit, Move
<1>2. db \in Seq(File) /\ ino[p] \in DOMAIN db
  BY DEF StoreInv
<1>3. db' \in Seq(File) /\ DOMAIN db' = DOMAIN db
      /\ \A i \in DOMAIN db : db'[i] = IF i = ino[p] THEN d ELSE db[i]
  <2> HIDE DEF File
  <2> QED  BY <1>1, <1>2
<1>4. \A q \in Process : at'[q] \in Inside =>
        ino[q] \in DOMAIN db' /\ Reached(at'[q], ver[q], db'[ino[q]])
  <2> SUFFICES ASSUME NEW q \in Process, at'[q] \in Inside
               PROVE  ino[q] \in DOMAIN db' /\ Reached(at'[q], ver[q], db'[ino[q]])
    OBVIOUS
  <2>1. CASE q = p
    BY <1>1, <1>2, <1>3, <2>1 DEF StoreInv
  <2>2. CASE q # p
    <3>1. at'[q] = at[q] /\ ino[q] \in DOMAIN db /\ Reached(at[q], ver[q], db[ino[q]])
      BY <1>1, <2>2 DEF StoreInv
    <3>2. CASE ino[q] = ino[p]
      <4>1. Reached(at[q], ver[q], d)
        BY <3>1, <3>2, ReachedStays
      <4> QED  BY <1>3, <3>1, <3>2, <4>1
    <3>3. CASE ino[q] # ino[p]
      BY <1>3, <3>1, <3>3
    <3> QED  BY <3>2, <3>3
  <2> QED  BY <2>1, <2>2
<1>5. at' \in [Process -> Outside \cup Inside]
  BY <1>1 DEF StoreInv
<1>6. \A i \in DOMAIN db' : Recent(db'[i])
  BY <1>3 DEF StoreInv
<1> QED  BY <1>1, <1>3, <1>4, <1>5, <1>6 DEF StoreInv

(* Steps that leave the files alone.                                         *)
LEMMA MoveStep ==
  ASSUME StoreInv, NEW p \in Process, NEW to \in Inside, Move(p, to), at[p] \in Inside,
         UNCHANGED <<path, db, ino>>, DOMAIN ver' = Process,
         \A q \in Process \ {p} : ver'[q] = ver[q], Reached(to, ver'[p], db[ino[p]])
  PROVE  StoreInv'
BY DEF StoreInv, Move

LEMMA OutsideStep ==
  ASSUME StoreInv, NEW p \in Process, NEW to \in Outside, Move(p, to), UNCHANGED db,
         DOMAIN ino' = Process, DOMAIN ver' = Process, path' \in {path, Nil},
         \A q \in Process \ {p} : ino'[q] = ino[q] /\ ver'[q] = ver[q]
  PROVE  StoreInv'
BY DEF StoreInv, Move, Outside, Inside

LEMMA StoreStarts == FoundRecent /\ StoreInit => StoreInv
<1> SUFFICES ASSUME FoundRecent, StoreInit PROVE StoreInv
  OBVIOUS
<1>1. /\ db \in Seq(File) /\ \A i \in DOMAIN db : Recent(db[i])
      /\ path = Nil \/ path \in DOMAIN db
  <2>1. PICK d \in Start : IF d = Nil THEN path = Nil /\ db = <<>> ELSE path = 1 /\ db = <<d>>
    BY DEF StoreInit
  <2>2. CASE d = Nil
    BY <2>1, <2>2
  <2>3. CASE d # Nil
    <3>1. d \in File /\ Recent(d)
      BY <2>3, StoreAssumption DEF FoundRecent
    <3>2. path = 1 /\ db = <<d>>
      BY <2>1, <2>3
    <3> HIDE DEF File
    <3>3. db \in Seq(File) /\ DOMAIN db = {1} /\ db[1] = d
      BY <3>1, <3>2
    <3> QED  BY <3>1, <3>2, <3>3
  <2> QED  BY <2>2, <2>3
<1> QED  BY <1>1 DEF StoreInit, StoreInv, Outside, Inside

LEMMA OutsideSteps ==
  ASSUME StoreInv, NEW p \in Process, OpenDatabase(p) \/ CopyAside(p) \/ Unlink(p) \/ CloseOrFail(p)
  PROVE  StoreInv'
<1>0. DOMAIN ino = Process /\ DOMAIN ver = Process
  BY DEF StoreInv
<1>1. CASE OpenDatabase(p)
  <2>1. PICK to \in {"copy", "connect"} : Move(p, to)
    BY <1>1 DEF OpenDatabase, Move
  <2> QED  BY <1>0, <1>1, <2>1, OutsideStep DEF OpenDatabase, Outside, onDisk
<1>2. CASE CopyAside(p)
  <2>1. PICK to \in {"unlink", "connect"} : Move(p, to)
    BY <1>2 DEF CopyAside, Move
  <2> QED  BY <1>0, <1>2, <2>1, OutsideStep DEF CopyAside, Outside
<1>3. CASE Unlink(p)
  <2>1. Move(p, "connect") /\ path' = Nil /\ UNCHANGED <<db, ino, ver>>
    BY <1>3 DEF Unlink
  <2> QED  BY <1>0, <2>1, OutsideStep DEF Outside
<1>4. CASE CloseOrFail(p)
  <2>1. /\ Move(p, "closed") /\ UNCHANGED <<path, db>>
        /\ ino' = [ino EXCEPT ![p] = Nil] /\ ver' = [ver EXCEPT ![p] = 0]
    BY <1>4 DEF CloseOrFail, Leave, Move, onDisk
  <2> QED  BY <1>0, <2>1, OutsideStep DEF Outside
<1> QED  BY <1>1, <1>2, <1>3, <1>4

LEMMA ConnectStep ==
  ASSUME StoreInv, NEW p \in Process, Connect(p)
  PROVE  StoreInv'
<1>1. at' = [at EXCEPT ![p] = "ensure"] /\ UNCHANGED ver
  BY DEF Connect, Move
<1>2. CASE path # Nil /\ ino' = [ino EXCEPT ![p] = path] /\ UNCHANGED <<path, db>>
  BY <1>1, <1>2 DEF StoreInv, Inside, Reached
<1>3. CASE db' = Append(db, EmptyFile) /\ path' = Len(db') /\ ino' = [ino EXCEPT ![p] = path']
  <2>1. db \in Seq(File) /\ EmptyFile \in File /\ Recent(EmptyFile)
    BY DEF StoreInv, EmptyFile, File, Recent
  <2>2. /\ db' \in Seq(File) /\ DOMAIN db' = DOMAIN db \cup {path'} /\ path' \notin DOMAIN db
        /\ db'[path'] = EmptyFile /\ \A i \in DOMAIN db : db'[i] = db[i]
    <3> HIDE DEF File, EmptyFile
    <3> QED  BY <1>3, <2>1
  <2>3. \A i \in DOMAIN db' : Recent(db'[i])
    BY <2>1, <2>2 DEF StoreInv
  <2>4. \A q \in Process : at'[q] \in Inside =>
          ino'[q] \in DOMAIN db' /\ Reached(at'[q], ver'[q], db'[ino'[q]])
    <3> SUFFICES ASSUME NEW q \in Process, at'[q] \in Inside
                 PROVE  ino'[q] \in DOMAIN db' /\ Reached(at'[q], ver'[q], db'[ino'[q]])
      OBVIOUS
    <3>1. CASE q = p
      <4>1. at'[q] = "ensure" /\ ino'[q] = path'
        BY <1>1, <1>3, <3>1 DEF StoreInv
      <4> QED  BY <2>2, <4>1 DEF Reached
    <3>2. CASE q # p
      <4>1. at'[q] = at[q] /\ ino'[q] = ino[q] /\ ver'[q] = ver[q]
        BY <1>1, <1>3, <3>2 DEF StoreInv
      <4>2. ino[q] \in DOMAIN db /\ Reached(at[q], ver[q], db[ino[q]])
        BY <4>1 DEF StoreInv
      <4>3. db'[ino[q]] = db[ino[q]] /\ ino[q] \in DOMAIN db'
        BY <2>2, <4>2
      <4> QED  BY <4>1, <4>2, <4>3
    <3> QED  BY <3>1, <3>2
  <2> QED  BY <1>1, <1>3, <2>2, <2>3, <2>4 DEF StoreInv, Inside
<1> QED  BY <1>2, <1>3 DEF Connect

LEMMA ReadVersionStep ==
  ASSUME StoreInv, NEW p \in Process, ReadVersion(p)
  PROVE  StoreInv'
<1>1. at[p] = "ensure" /\ ino[p] \in DOMAIN db /\ Recent(db[ino[p]]) /\ UNCHANGED <<path, db, ino>>
  BY DEF ReadVersion, StoreInv, Inside, onDisk
<1>2. PICK d : d = db[ino[p]]
  OBVIOUS
<1>3. CASE d.versions = <<>> /\ Move(p, "create") /\ UNCHANGED ver
  <2>1. Reached("create", ver'[p], db[ino[p]])
    BY <1>1, <1>2, <1>3 DEF Reached, Recent
  <2> QED  BY <1>1, <1>3, <2>1, MoveStep DEF Inside, StoreInv
<1>4. CASE d.versions # <<>> /\ ver' = [ver EXCEPT ![p] = Version(d)] /\ Move(p, NextStage(1, Version(d), d))
  <2>1. PICK v : v = Version(d)
    OBVIOUS
  <2>2. v \in 28 .. 32 /\ Promised(v) \subseteq d.has
    BY <1>1, <1>2, <1>4, <2>1 DEF Recent
  <2>3. PICK to : to = NextStage(1, v, d)
    OBVIOUS
  <2>4. to \in Inside /\ Reached(to, v, d)
    <3>1. CASE v = 28
      <4>1. to = "v29" /\ Rule \subseteq d.has
        BY <2>2, <2>3, <3>1, NextStages DEF Promised, Rule
      <4> QED  BY <1>4, <3>1, <4>1 DEF Reached, Inside
    <3>2. CASE v \in 29 .. 30
      <4>1. to = "v30" /\ Origin \subseteq d.has
        BY <2>2, <2>3, <3>2, NextStages DEF Promised, Origin, Rule
      <4> QED  BY <1>4, <3>2, <4>1 DEF Reached, Inside
    <3>3. CASE v > 30
      <4>1. to = (IF v = 31 \/ NeedsHeal(d) THEN "v32" ELSE "fts") /\ Dedup \subseteq d.has
        BY <2>2, <2>3, <3>3, NextStages DEF Promised, Dedup, Events, Origin, Rule
      <4>2. to = "fts" => Team \subseteq d.has /\ "reverted" \notin d.has
        BY <2>2, <3>3, <4>1 DEF Promised, Team, NeedsHeal
      <4> QED  BY <1>4, <2>2, <4>1, <4>2 DEF Reached, Inside
    <3> QED  BY <2>2, <3>1, <3>2, <3>3
  <2>5. ver'[p] = v /\ DOMAIN ver' = Process /\ \A q \in Process \ {p} : ver'[q] = ver[q]
    BY <1>4, <2>1 DEF StoreInv
  <2>6. Move(p, to) /\ Reached(to, ver'[p], db[ino[p]])
    BY <1>2, <1>4, <2>1, <2>3, <2>4, <2>5
  <2> QED  BY <1>1, <2>4, <2>5, <2>6, MoveStep DEF Inside
<1> QED  BY <1>2, <1>3, <1>4 DEF ReadVersion

LEMMA CreateStep ==
  ASSUME StoreInv, NEW p \in Process, CreateAll(p)
  PROVE  StoreInv'
<1>1. at[p] = "create" /\ ino[p] \in DOMAIN db /\ db[ino[p]] \in File /\ Recent(db[ino[p]])
      /\ "reverted" \notin db[ino[p]].has
  <2>1. db \in Seq(File) /\ at[p] = "create" /\ ino[p] \in DOMAIN db /\ Recent(db[ino[p]])
        /\ "reverted" \notin db[ino[p]].has
    BY DEF CreateAll, StoreInv, Inside, Reached
  <2> HIDE DEF File
  <2> QED  BY <2>1
<1>2. PICK f : f = db[ino[p]]
  OBVIOUS
<1> DEFINE d == [With(f, Full) EXCEPT !.versions = Append(@, SchemaVersion)]
<1>3. Full \subseteq Piece /\ "reverted" \notin Full /\ SchemaVersion = 32
  BY DEF Piece, Full, Columns, SchemaVersion
<1>4. d \in File /\ d.has = f.has \cup Full /\ d.versions # <<>>
      /\ Version(d) = IF f.versions = <<>> THEN 32 ELSE Version(f)
  <2>1. f.versions \in Seq(Versions) /\ Append(f.versions, 32) \in Seq(Versions)
    <3>1. f.versions \in Seq(Versions) /\ 32 \in Versions
      BY <1>1, <1>2, KnownVersions DEF File
    <3> QED  BY <3>1
  <2>2. Append(f.versions, 32) # <<>> /\ Head(Append(f.versions, 32)) = IF f.versions = <<>> THEN 32 ELSE Head(f.versions)
    <3>1. PICK s : s = f.versions /\ s \in Seq(Versions)
      BY <2>1
    <3>2. Len(Append(s, 32)) = Len(s) + 1 /\ Len(s) \in Nat
      BY <3>1
    <3>3. CASE s = <<>>
      BY <3>1, <3>3
    <3>4. CASE s # <<>>
      <4>1. Len(s) >= 1 /\ Append(s, 32)[1] = s[1]
        BY <3>1, <3>4
      <4> QED  BY <3>1, <3>2, <3>4, <4>1
    <3> QED  BY <3>1, <3>3, <3>4
  <2>3. d \in File /\ d.has = f.has \cup Full /\ d.versions = Append(f.versions, 32)
    BY <1>1, <1>2, <1>3, <2>1 DEF File, With
  <2> HIDE DEF d
  <2> QED  BY <2>2, <2>3 DEF Version
<1>5. Commit(p, d, "ready")
  BY <1>2 DEF CreateAll
<1> HIDE DEF d
<1>6. Recent(d) /\ Reached("ready", ver[p], d) /\ Grows(f, d)
  <2>1. Promised(32) \subseteq Full
    BY DEF Promised, Full, Columns
  <2> QED  BY <1>1, <1>2, <1>3, <1>4, <2>1 DEF Recent, Reached, Grows
<1> QED  BY <1>1, <1>2, <1>4, <1>5, <1>6, CommitStep DEF Inside

(* A stage that adds pieces and states a version.                            *)
LEMMA PieceStep ==
  ASSUME StoreInv, NEW p \in Process, at[p] \in Inside \ {"ensure", "create"},
         NEW P \in SUBSET (Piece \ {"reverted"}), NEW v \in 28 .. 31, NEW to \in Inside,
         NEW f, f = db[ino[p]], Promised(v) \subseteq f.has \cup P,
         Commit(p, AtVersion(With(f, P), v), to),
         \A d : d.has = f.has \cup P /\ d.versions # <<>> => Reached(to, ver[p], d)
  PROVE  StoreInv'
<1>1. f \in File /\ f.versions # <<>>
  <2>1. db \in Seq(File) /\ ino[p] \in DOMAIN db /\ f.versions # <<>>
    BY DEF StoreInv, Reached
  <2> HIDE DEF File
  <2> QED  BY <2>1
<1>2. PICK d : d = AtVersion(With(f, P), v)
  OBVIOUS
<1>3. d \in File /\ d.has = f.has \cup P /\ d.versions # <<>> /\ Version(d) = v
  <2>1. v \in Versions /\ P \in SUBSET Piece
    BY KnownVersions
  <2> QED  BY <1>1, <1>2, <2>1, Migrated
<1>4. Recent(d) /\ Grows(f, d) /\ Reached(to, ver[p], d)
  BY <1>3 DEF Recent, Grows
<1> QED  BY <1>2, <1>3, <1>4, CommitStep

LEMMA EnsureStep ==
  ASSUME StoreInv, NEW p \in Process, Ensure(p)
  PROVE  StoreInv'
<1>0. /\ at[p] \in Outside \cup Inside
      /\ at[p] \in Inside => Reached(at[p], ver[p], db[ino[p]]) /\ db[ino[p]] \in File
  <2>1. db \in Seq(File) /\ (at[p] \in Inside => ino[p] \in DOMAIN db)
    BY DEF StoreInv
  <2>2. at[p] \in Inside => db[ino[p]] \in File
    <3> HIDE DEF File
    <3> QED  BY <2>1
  <2> QED  BY <2>2 DEF StoreInv
<1>1. CASE ReadVersion(p)
  BY <1>1, ReadVersionStep
<1>2. CASE CreateAll(p)
  BY <1>2, CreateStep
<1>3. ~MigrateLegacy(p) /\ ~CountV28(p) /\ ~RebuildV28(p)
  BY <1>0 DEF MigrateLegacy, CountV28, RebuildV28, Outside, Inside
<1>4. CASE MigrateV29(p)
  <2>1. PICK f : f = db[ino[p]]
    OBVIOUS
  <2>2. at[p] = "v29" /\ Commit(p, AtVersion(With(f, {"origin"}), 29), NextStage(4, ver[p], AtVersion(With(f, {"origin"}), 29)))
    BY <1>4, <2>1, StageIndex DEF MigrateV29, Stage
  <2>3. ver[p] = 28 /\ Rule \subseteq f.has
    BY <1>0, <2>1, <2>2 DEF Inside, Reached
  <2>4. Commit(p, AtVersion(With(f, {"origin"}), 29), "v30")
    BY <2>2, <2>3, NextStages
  <2>5. Promised(29) \subseteq f.has \cup {"origin"}
    BY <2>3 DEF Promised, Rule
  <2>6. \A d : d.has = f.has \cup {"origin"} /\ d.versions # <<>> => Reached("v30", ver[p], d)
    BY <2>3 DEF Reached, Origin
  <2>7. {"origin"} \subseteq Piece \ {"reverted"} /\ at[p] \in Inside \ {"ensure", "create"} /\ "v30" \in Inside
    BY <2>2 DEF Inside, Piece, Full, Columns
  <2> QED  BY <2>1, <2>4, <2>5, <2>6, <2>7, PieceStep, 29 \in 28 .. 31
<1>5. CASE ProbeV30(p)
  <2>1. PICK d : d = db[ino[p]]
    OBVIOUS
  <2>2. at[p] = "v30" /\ UNCHANGED <<path, db, ino, ver>>
        /\ Move(p, IF HasV30(d) THEN NextStage(5, ver[p], d) ELSE "v30 write")
    BY <1>5, <2>1, StageIndex DEF ProbeV30, onDisk
  <2>3. ver[p] \in 28 .. 30 /\ Origin \subseteq d.has /\ d.versions # <<>>
    BY <1>0, <2>1, <2>2 DEF Inside, Reached
  <2>4. CASE HasV30(d)
    <3>1. Move(p, "v31") /\ Reached("v31", ver[p], d)
      BY <2>2, <2>3, <2>4, NextStages DEF Reached, HasV30, Events
    <3> QED  BY <2>1, <2>2, <3>1, MoveStep DEF Inside, StoreInv
  <2>5. CASE ~HasV30(d)
    <3>1. Move(p, "v30 write") /\ Reached("v30 write", ver[p], d)
      BY <2>2, <2>3, <2>5 DEF Reached
    <3> QED  BY <2>1, <2>2, <3>1, MoveStep DEF Inside, StoreInv
  <2> QED  BY <2>4, <2>5
<1>6. CASE MigrateV30(p)
  <2>1. PICK f : f = db[ino[p]]
    OBVIOUS
  <2>2. at[p] = "v30 write" /\ Commit(p, AtVersion(With(f, {"rollup", "events"}), 30),
                                      NextStage(5, ver[p], AtVersion(With(f, {"rollup", "events"}), 30)))
    BY <1>6, <2>1, StageIndex DEF MigrateV30
  <2>3. ver[p] \in 28 .. 30 /\ Origin \subseteq f.has
    BY <1>0, <2>1, <2>2 DEF Inside, Reached
  <2>4. Commit(p, AtVersion(With(f, {"rollup", "events"}), 30), "v31")
    <3>1. \A d : NextStage(5, ver[p], d) = "v31"
      BY <2>3, NextStages
    <3> QED  BY <2>2, <3>1
  <2>5. Promised(30) \subseteq f.has \cup {"rollup", "events"}
    BY <2>3 DEF Promised, Origin, Rule
  <2>6. \A d : d.has = f.has \cup {"rollup", "events"} /\ d.versions # <<>> => Reached("v31", ver[p], d)
    BY <2>3 DEF Reached, Events
  <2>7. {"rollup", "events"} \subseteq Piece \ {"reverted"} /\ at[p] \in Inside \ {"ensure", "create"} /\ "v31" \in Inside
    BY <2>2 DEF Inside, Piece, Full
  <2> QED  BY <2>1, <2>4, <2>5, <2>6, <2>7, PieceStep, 30 \in 28 .. 31
<1>7. CASE IndexV31(p)
  <2>1. PICK f : f = db[ino[p]]
    OBVIOUS
  <2>2. at[p] = "v31" /\ Commit(p, With(f, {"dedup"}), "v31 version")
    BY <1>7, <2>1 DEF IndexV31
  <2>3. ver[p] \in 28 .. 30 /\ Events \subseteq f.has /\ f \in File /\ f.versions # <<>> /\ Recent(f)
    BY <1>0, <2>1, <2>2 DEF Inside, Reached, StoreInv
  <2>4. PICK d : d = With(f, {"dedup"})
    OBVIOUS
  <2>5. d \in File /\ d.has = f.has \cup {"dedup"} /\ d.versions = f.versions
    BY <2>3, <2>4 DEF With, File, Piece, Full
  <2>6. Recent(d) /\ Grows(f, d) /\ Reached("v31 version", ver[p], d)
    BY <2>3, <2>5 DEF Recent, Grows, Reached, Dedup, Version
  <2> QED  BY <2>1, <2>2, <2>4, <2>5, <2>6, CommitStep DEF Inside
<1>8. CASE VersionV31(p)
  <2>1. PICK f : f = db[ino[p]]
    OBVIOUS
  <2>2. at[p] = "v31 version" /\ Commit(p, AtVersion(f, 31), NextStage(6, ver[p], AtVersion(f, 31)))
    BY <1>8, <2>1, StageIndex DEF VersionV31
  <2>3. ver[p] \in 28 .. 30 /\ Dedup \subseteq f.has /\ f \in File
    BY <1>0, <2>1, <2>2 DEF Inside, Reached
  <2>4. Commit(p, AtVersion(f, 31), "v32")
    <3>1. \A d : NextStage(6, ver[p], d) = "v32"
      BY <2>3, NextStages
    <3> QED  BY <2>2, <3>1
  <2>5. Promised(31) \subseteq f.has \cup {}
    BY <2>3 DEF Promised, Dedup, Events, Origin, Rule
  <2>6. \A d : d.has = f.has \cup {} /\ d.versions # <<>> => Reached("v32", ver[p], d)
    BY <2>3 DEF Reached
  <2>7. With(f, {}) = f
    BY <2>3 DEF With, File
  <2>8. at[p] \in Inside \ {"ensure", "create"} /\ "v32" \in Inside
    BY <2>2 DEF Inside
  <2>9. Commit(p, AtVersion(With(f, {}), 31), "v32")
    BY <2>4, <2>7
  <2> QED  BY <2>1, <2>5, <2>6, <2>8, <2>9, PieceStep, 31 \in 28 .. 31
<1>9. CASE MigrateV32(p)
  <2>1. PICK f : f = db[ino[p]]
    OBVIOUS
  <2> DEFINE h == (f.has \ {"reverted"}) \cup {"team", "cause", "rowid"}
             e == [f EXCEPT !.has = h]
  <2>2. at[p] = "v32" /\ Commit(p, AtVersion(e, 32), NextStage(7, ver[p], AtVersion(e, 32)))
    BY <1>9, <2>1, StageIndex DEF MigrateV32, Stage
  <2>3. ver[p] \in 28 .. 32 /\ Dedup \subseteq f.has /\ f \in File /\ f.versions # <<>>
    BY <1>0, <2>1, <2>2 DEF Inside, Reached
  <2>4. e \in File /\ e.has = h /\ e.versions = f.versions /\ With(e, {}) = e
    BY <2>3 DEF File, Piece, Full, Columns, With
  <2> HIDE DEF e
  <2>5. PICK d : d = AtVersion(e, 32)
    OBVIOUS
  <2>6. d \in File /\ d.has = h \cup {} /\ d.versions # <<>> /\ Version(d) = 32
    <3>1. 32 \in Versions /\ {} \in SUBSET Piece /\ e.versions # <<>>
      BY <2>3, <2>4, KnownVersions
    <3>2. d = AtVersion(With(e, {}), 32)
      BY <2>4, <2>5
    <3> QED  BY <2>4, <3>1, <3>2, Migrated
  <2>7. Dedup \subseteq h /\ Team \subseteq h /\ "reverted" \notin h /\ Promised(32) \subseteq h
    BY <2>3 DEF Dedup, Events, Origin, Rule, Team, Promised
  <2>8. Recent(d) /\ Grows(f, d) /\ Reached("fts", ver[p], d)
    <3> HIDE DEF h
    <3>1. f.has \ {"reverted"} \subseteq h
      BY DEF h
    <3> QED  BY <2>3, <2>6, <2>7, <3>1 DEF Recent, Grows, Reached
  <2>9. Commit(p, d, "fts")
    BY <2>2, <2>3, <2>5, NextStages
  <2> QED  BY <2>1, <2>2, <2>6, <2>8, <2>9, CommitStep DEF Inside
<1>10. CASE EnsureFtsIntegrity(p)
  <2>1. PICK f : f = db[ino[p]]
    OBVIOUS
  <2>2. at[p] = "fts" /\ Commit(p, With(f, {"fts"}), NextStage(8, ver[p], With(f, {"fts"})))
    BY <1>10, <2>1, StageIndex DEF EnsureFtsIntegrity, Stage
  <2>3. /\ ver[p] \in 28 .. 32 /\ Team \subseteq f.has /\ "reverted" \notin f.has
        /\ f \in File /\ f.versions # <<>> /\ Recent(f)
    BY <1>0, <2>1, <2>2 DEF Inside, Reached, StoreInv
  <2>4. PICK d : d = With(f, {"fts"})
    OBVIOUS
  <2>5. d \in File /\ d.has = f.has \cup {"fts"} /\ d.versions = f.versions
    BY <2>3, <2>4 DEF With, File, Piece, Full
  <2>6. Full \subseteq d.has
    BY <2>3, <2>5 DEF Full, Columns, Team, Dedup, Events, Origin, Rule
  <2>7. Recent(d) /\ Grows(f, d) /\ Reached("ready", ver[p], d)
    BY <2>3, <2>5, <2>6 DEF Recent, Grows, Reached, Version
  <2>8. Commit(p, d, "ready")
    BY <2>2, <2>3, <2>4, NextStages
  <2> QED  BY <2>1, <2>2, <2>5, <2>7, <2>8, CommitStep DEF Inside
<1> QED  BY <1>1, <1>2, <1>3, <1>4, <1>5, <1>6, <1>7, <1>8, <1>9, <1>10 DEF Ensure

(* Rows come, go to the main file, and pages are damaged; the schema stays.  *)
LEMMA ContentStep ==
  ASSUME StoreInv, NEW i \in DOMAIN db, NEW d \in File, db' = [db EXCEPT ![i] = d],
         d.has = db[i].has, d.versions = db[i].versions, UNCHANGED <<path, at, ino, ver>>
  PROVE  StoreInv'
<1>1. db \in Seq(File)
  BY DEF StoreInv
<1>2. db' \in Seq(File) /\ DOMAIN db' = DOMAIN db
      /\ \A j \in DOMAIN db : db'[j].has = db[j].has /\ db'[j].versions = db[j].versions
  <2> HIDE DEF File
  <2> QED  BY <1>1
<1>3. \A j \in DOMAIN db' : Recent(db'[j])
  BY <1>2 DEF StoreInv, Recent, Version
<1>4. \A q \in Process : at'[q] \in Inside =>
        ino'[q] \in DOMAIN db' /\ Reached(at'[q], ver'[q], db'[ino'[q]])
  <2> SUFFICES ASSUME NEW q \in Process, at[q] \in Inside
               PROVE  ino[q] \in DOMAIN db' /\ Reached(at[q], ver[q], db'[ino[q]])
    OBVIOUS
  <2>1. ino[q] \in DOMAIN db /\ Reached(at[q], ver[q], db[ino[q]])
    BY DEF StoreInv
  <2>2. Grows(db[ino[q]], db'[ino[q]])
    BY <1>2, <2>1 DEF Grows
  <2> QED  BY <1>2, <2>1, <2>2, ReachedStays
<1> QED  BY <1>2, <1>3, <1>4 DEF StoreInv

LEMMA UseStep ==
  ASSUME StoreInv, NEW p \in Process, Checkpoint(p) \/ \E r \in Row : Write(p, r)
  PROVE  StoreInv'
<1>1. at[p] = "ready" /\ UNCHANGED <<path, at, ino, ver>> /\ ino[p] \in DOMAIN db /\ db \in Seq(File)
  BY DEF Checkpoint, Write, StoreInv, Inside
<1>2. PICK f, i : i = ino[p] /\ f = db[i] /\ f \in File
  <2> HIDE DEF File
  <2> QED  BY <1>1
<1>3. CASE Checkpoint(p)
  <2>1. [f EXCEPT !.wal = {}] \in File
    BY <1>2 DEF File
  <2>2. db' = [db EXCEPT ![i] = [f EXCEPT !.wal = {}]]
    BY <1>2, <1>3 DEF Checkpoint
  <2>3. [f EXCEPT !.wal = {}].has = f.has /\ [f EXCEPT !.wal = {}].versions = f.versions
    BY <1>2 DEF File
  <2> QED  BY <1>1, <1>2, <2>1, <2>2, <2>3, ContentStep
<1>4. ASSUME NEW r \in Row, Write(p, r) PROVE StoreInv'
  <2> DEFINE d == [f EXCEPT !.rows = @ \cup {r}, !.wal = @ \cup {r}]
  <2>1. d \in File /\ d.has = f.has /\ d.versions = f.versions
    BY <1>2 DEF File
  <2>2. db' = [db EXCEPT ![i] = d]
    BY <1>2, <1>4 DEF Write
  <2> HIDE DEF d
  <2> QED  BY <1>1, <1>2, <2>1, <2>2, ContentStep
<1> QED  BY <1>3, <1>4

LEMMA CorruptStep ==
  ASSUME StoreInv, Corrupt
  PROVE  StoreInv'
<1>1. path \in DOMAIN db /\ db \in Seq(File) /\ UNCHANGED <<path, at, ino, ver>>
  BY DEF Corrupt, StoreInv
<1>2. PICK f : f = db[path] /\ f \in File
  <2> HIDE DEF File
  <2> QED  BY <1>1
<1> DEFINE d == [f EXCEPT !.corrupt = TRUE]
<1>3. d \in File /\ d.has = f.has /\ d.versions = f.versions
  BY <1>2 DEF File
<1>4. db' = [db EXCEPT ![path] = d]
  BY <1>2 DEF Corrupt
<1> HIDE DEF d
<1> QED  BY <1>1, <1>2, <1>3, <1>4, ContentStep

LEMMA StoreStep == StoreInv /\ [StoreNext]_opening => StoreInv'
<1> SUFFICES ASSUME StoreInv, [StoreNext]_opening PROVE StoreInv'
  OBVIOUS
<1>1. ASSUME NEW p \in Process, OpenDatabase(p) \/ CopyAside(p) \/ Unlink(p) \/ CloseOrFail(p) PROVE StoreInv'
  BY <1>1, OutsideSteps
<1>2. ASSUME NEW p \in Process, Connect(p) PROVE StoreInv'
  BY <1>2, ConnectStep
<1>3. ASSUME NEW p \in Process, Ensure(p) PROVE StoreInv'
  BY <1>3, EnsureStep
<1>4. ASSUME NEW p \in Process, Checkpoint(p) \/ \E r \in Row : Write(p, r) PROVE StoreInv'
  BY <1>4, UseStep
<1>5. CASE Corrupt
  BY <1>5, CorruptStep
<1>6. CASE UNCHANGED opening
  BY <1>6 DEF opening, onDisk, StoreInv
<1> QED  BY <1>1, <1>2, <1>3, <1>4, <1>5, <1>6 DEF StoreNext

(* Any number of processes open one database of version 28 or later, or none,*)
(* crash between any two migrations, act on a version read long ago, and     *)
(* find files damaged and replaced under them: no database states a version  *)
(* it does not have, and none of them uses one that lacks a column           *)
(* (ensureSchema).                                                           *)
THEOREM StoreIsSound == FoundRecent /\ StoreSpec => []OpenedIsSound
<1>1. StoreInv => OpenedIsSound
  BY DEF StoreInv, OpenedIsSound, VersionIsEarned, ReadyIsHealthy, Healthy, Recent, Reached, Inside
<1> QED  BY <1>1, StoreStarts, StoreStep, PTL DEF StoreSpec

-----------------------------------------------------------------------------
(* Setting a corrupt file aside, by any number of processes.  Whoever is     *)
(* between the check and the unlink, and was not when the file at the path   *)
(* was made, has found that file damaged; and once it has copied it, the     *)
(* main file holds no more than the copies, but what was checkpointed since. *)

RemovalInv ==
  /\ db \in Seq(File) /\ (path = Nil \/ path \in DOMAIN db)
  /\ DOMAIN at = Process /\ DOMAIN ino = Process
  /\ \A p \in Process : at[p] \notin Outside => ino[p] \in DOMAIN db
  /\ ver \in [Process -> Versions]
  /\ path # Nil => \A p \in Process \ amid :
       /\ at[p] \in {"copy", "unlink"} => db[path].corrupt
       /\ at[p] = "unlink" => Copied(db[path]) \subseteq backups \cup uncopied

(* A change of one file that repairs nothing, and puts nothing into the main *)
(* file that is at the path and copied.                                      *)
LEMMA FileStep ==
  ASSUME RemovalInv, NEW i \in DOMAIN db, NEW d \in File, db' = [db EXCEPT ![i] = d],
         UNCHANGED <<path, ino, ver, backups, amid>>, uncopied \subseteq uncopied',
         DOMAIN at' = Process, \A q \in Process : at'[q] \notin Outside => at[q] \notin Outside,
         \A q \in Process : at'[q] \in {"copy", "unlink"} => at'[q] = at[q],
         db[i].corrupt => d.corrupt,
         i = path /\ (\E q \in Process \ amid : at[q] = "unlink") => Copied(d) \subseteq Copied(db[i]) \cup uncopied'
  PROVE  RemovalInv'
<1>1. db' \in Seq(File) /\ DOMAIN db' = DOMAIN db /\ \A j \in DOMAIN db : db'[j] = IF j = i THEN d ELSE db[j]
  <2>1. db \in Seq(File)
    BY DEF RemovalInv
  <2> HIDE DEF File
  <2> QED  BY <2>1
<1>2. ASSUME path # Nil, NEW p \in Process \ amid, at'[p] \in {"copy", "unlink"}
      PROVE  db'[path].corrupt /\ (at'[p] = "unlink" => Copied(db'[path]) \subseteq backups \cup uncopied')
  <2>1. at[p] = at'[p] /\ path \in DOMAIN db
    BY <1>2 DEF RemovalInv
  <2>2. db[path].corrupt /\ (at[p] = "unlink" => Copied(db[path]) \subseteq backups \cup uncopied)
    BY <1>2, <2>1 DEF RemovalInv
  <2>3. CASE i = path
    <3>1. db'[path] = d
      BY <1>1, <2>1, <2>3
    <3> HIDE DEF File
    <3> QED  BY <2>1, <2>2, <2>3, <3>1
  <2>4. CASE i # path
    <3>1. db'[path] = db[path]
      BY <1>1, <2>1, <2>4
    <3> QED  BY <2>1, <2>2, <3>1
  <2> QED  BY <2>3, <2>4
<1>3. path' # Nil => \A p \in Process \ amid' :
        /\ at'[p] \in {"copy", "unlink"} => db'[path'].corrupt
        /\ at'[p] = "unlink" => Copied(db'[path']) \subseteq backups' \cup uncopied'
  BY <1>2
<1> QED  BY <1>1, <1>3 DEF RemovalInv

(* A transaction of ensureSchema keeps the rows and the damage.              *)
SameContent(f, d) == d.rows = f.rows /\ d.wal = f.wal /\ d.corrupt = f.corrupt

LEMMA SchemaCommit ==
  ASSUME RemovalInv, NEW p \in Process, at[p] \notin Outside, NEW to, to \notin Outside,
         NEW d \in File, SameContent(db[ino[p]], d), Commit(p, d, to)
  PROVE  RemovalInv'
<1>1. /\ ino[p] \in DOMAIN db /\ at' = [at EXCEPT ![p] = to] /\ DOMAIN at = Process
      /\ db' = [db EXCEPT ![ino[p]] = d] /\ UNCHANGED <<path, ino, ver, backups, amid, uncopied>>
  BY DEF Commit, Move, RemovalInv, history
<1>2. DOMAIN at' = Process /\ \A q \in Process : at'[q] = IF q = p THEN to ELSE at[q]
  BY <1>1
<1>3. Copied(d) = Copied(db[ino[p]]) /\ (db[ino[p]].corrupt => d.corrupt)
  BY DEF SameContent, Copied
<1>4. to \notin {"copy", "unlink"}
  BY DEF Outside
<1> HIDE DEF File
<1> QED  BY <1>1, <1>2, <1>3, <1>4, FileStep

(* Steps that leave the files where they are.                                *)
LEMMA StandStep ==
  ASSUME RemovalInv, NEW p \in Process, NEW to, Move(p, to), UNCHANGED <<db, path, uncopied>>,
         backups \subseteq backups', DOMAIN ino' = Process, ver' \in [Process -> Versions],
         \A q \in Process \ {p} : ino'[q] = ino[q] /\ (q \in amid => q \in amid'),
         to \notin Outside => ino'[p] \in DOMAIN db,
         path # Nil /\ p \notin amid' /\ to \in {"copy", "unlink"} => db[path].corrupt,
         path # Nil /\ p \notin amid' /\ to = "unlink" => Copied(db[path]) \subseteq backups' \cup uncopied
  PROVE  RemovalInv'
<1>1. at' = [at EXCEPT ![p] = to] /\ DOMAIN at = Process
  BY DEF Move, RemovalInv
<1>2. DOMAIN at' = Process /\ \A q \in Process : at'[q] = IF q = p THEN to ELSE at[q]
  BY <1>1
<1>3. \A q \in Process : at'[q] \notin Outside => ino'[q] \in DOMAIN db'
  BY <1>2 DEF RemovalInv
<1>4. ASSUME path # Nil, NEW q \in Process \ amid'
      PROVE  /\ at'[q] \in {"copy", "unlink"} => db[path].corrupt
             /\ at'[q] = "unlink" => Copied(db[path]) \subseteq backups' \cup uncopied
  BY <1>2, <1>4 DEF RemovalInv
<1> QED  BY <1>2, <1>3, <1>4 DEF RemovalInv

LEMMA FileKept ==
  ASSUME NEW f \in File, NEW P \in SUBSET Piece, NEW v \in Versions
  PROVE  /\ With(f, P) \in File /\ SameContent(f, With(f, P))
         /\ AtVersion(f, v) \in File /\ SameContent(f, AtVersion(f, v))
         /\ [f EXCEPT !.has = P] \in File /\ SameContent(f, [f EXCEPT !.has = P])
         /\ [f EXCEPT !.versions = Append(@, v)] \in File /\ SameContent(f, [f EXCEPT !.versions = Append(@, v)])
<1>1. /\ With(f, P) \in File /\ [f EXCEPT !.has = P] \in File
      /\ SameContent(f, With(f, P)) /\ SameContent(f, [f EXCEPT !.has = P])
  BY DEF With, File, SameContent
<1>2. PICK old : old = f.versions /\ old \in Seq(Versions)
  BY DEF File
<1>6. [i \in DOMAIN old |-> v] \in Seq(Versions) /\ Append(old, v) \in Seq(Versions)
  BY <1>2
<1>3. PICK s : s = [i \in DOMAIN f.versions |-> v] /\ s \in Seq(Versions)
  BY <1>2, <1>6
<1>4. PICK t : t = Append(f.versions, v) /\ t \in Seq(Versions)
  BY <1>2, <1>6
<1>5. /\ [f EXCEPT !.versions = s] \in File /\ [f EXCEPT !.versions = t] \in File
      /\ SameContent(f, [f EXCEPT !.versions = s]) /\ SameContent(f, [f EXCEPT !.versions = t])
  BY <1>3, <1>4 DEF File, SameContent
<1> QED  BY <1>1, <1>3, <1>4, <1>5 DEF AtVersion

(* Some stage always follows, and it is one of ensureSchema.                 *)
LEMMA LaterStage ==
  ASSUME NEW i \in 1 .. 8, NEW v \in Versions, NEW d
  PROVE  NextStage(i, v, d) \in {"legacy", "v28", "v29", "v30", "v31", "v32", "fts", "ready"}
<1> DEFINE due == {j \in i .. Len(Stages) : Due(Stages[j], v, d)}
           c == CHOOSE j \in due : \A l \in due : j <= l
<1>1. 8 \in due /\ due \subseteq 1 .. 8
  BY StagesAre, KnownVersions DEF Due, UpTo
<1> HIDE DEF due
<1>2. \E j \in due : \A l \in due : j <= l
  BY <1>1
<1>3. c \in 1 .. 8
  BY <1>1, <1>2
<1>4. NextStage(i, v, d) = Stages[c]
  BY DEF NextStage, due
<1> HIDE DEF c
<1> QED  BY <1>3, <1>4, StagesAre

(* Every stage leaves a file in the place of a file, with the rows it had.   *)
LEMMA EnsureKeepsContent ==
  ASSUME RemovalInv, NEW p \in Process, Ensure(p)
  PROVE  RemovalInv'
<1>1. at[p] \notin Outside
  BY DEF Ensure, ReadVersion, CreateAll, MigrateLegacy, CountV28, RebuildV28, MigrateV29, ProbeV30, MigrateV30,
         IndexV31, VersionV31, MigrateV32, EnsureFtsIntegrity, Stage, Outside
<1>2. PICK f : f = db[ino[p]] /\ f \in File
  <2>1. db \in Seq(File) /\ ino[p] \in DOMAIN db
    BY <1>1 DEF RemovalInv
  <2> HIDE DEF File
  <2> QED  BY <2>1
<1>3. \A i \in 1 .. 8, v \in Versions : \A d : NextStage(i, v, d) \notin Outside
  BY LaterStage DEF Outside
<1>4. ver[p] \in Versions
  BY DEF RemovalInv
<1>5. ASSUME NEW d \in File, NEW i \in 1 .. 8, NEW e, SameContent(f, d),
             Commit(p, d, NextStage(i, ver[p], e)) PROVE RemovalInv'
  BY <1>1, <1>2, <1>3, <1>4, <1>5, SchemaCommit
<1>6. ASSUME NEW to, to \notin Outside, Move(p, to), UNCHANGED <<db, path, backups, ino, history>>,
             ver' \in [Process -> Versions]
      PROVE  RemovalInv'
  <2>1. DOMAIN ino' = Process /\ ino'[p] \in DOMAIN db /\ to \notin {"copy", "unlink"}
    BY <1>1, <1>6 DEF RemovalInv, Outside
  <2> QED  BY <1>6, <2>1, StandStep DEF history
<1>7. CASE ReadVersion(p)
  <2>1. CASE f.versions = <<>>
    <3>1. Move(p, "create") /\ UNCHANGED <<db, path, backups, ino, ver, history>>
      BY <1>2, <1>7, <2>1 DEF ReadVersion, onDisk
    <3> QED  BY <1>6, <3>1 DEF RemovalInv, Outside
  <2>2. CASE f.versions # <<>>
    <3>1. PICK v : v = Version(f) /\ v \in Versions
      BY <1>2, <2>2 DEF Version, File
    <3>2. Move(p, NextStage(1, v, f)) /\ UNCHANGED <<db, path, backups, ino, history>> /\ ver' = [ver EXCEPT ![p] = v]
      BY <1>2, <1>7, <2>2, <3>1 DEF ReadVersion, onDisk
    <3>3. ver' \in [Process -> Versions]
      BY <3>1, <3>2 DEF RemovalInv
    <3> QED  BY <1>3, <1>6, <3>1, <3>2, <3>3
  <2> QED  BY <2>1, <2>2
<1>8. CASE CreateAll(p)
  <2>1. PICK e : e = With(f, Full) /\ e \in File /\ SameContent(f, e)
    BY <1>2, FileKept, KnownPieces, KnownVersions
  <2>2. PICK d : /\ d = [e EXCEPT !.versions = Append(@, SchemaVersion)]
                 /\ d \in File /\ SameContent(e, d)
    BY <2>1, FileKept, KnownPieces, KnownVersions
  <2>3. Commit(p, d, "ready") /\ SameContent(f, d)
    BY <1>2, <1>8, <2>1, <2>2 DEF CreateAll, SameContent
  <2> QED  BY <1>1, <1>2, <2>2, <2>3, SchemaCommit DEF Outside
<1>9. ASSUME NEW P \in SUBSET Piece, NEW v \in Versions
      PROVE  /\ AtVersion(With(f, P), v) \in File /\ SameContent(f, AtVersion(With(f, P), v))
             /\ AtVersion([f EXCEPT !.has = P], v) \in File
             /\ SameContent(f, AtVersion([f EXCEPT !.has = P], v))
  <2>1. PICK d : d = With(f, P) /\ d \in File /\ SameContent(f, d)
    BY <1>2, FileKept
  <2>2. PICK e : e = [f EXCEPT !.has = P] /\ e \in File /\ SameContent(f, e)
    BY <1>2, FileKept
  <2>3. SameContent(d, AtVersion(d, v)) /\ SameContent(e, AtVersion(e, v))
        /\ AtVersion(d, v) \in File /\ AtVersion(e, v) \in File
    BY <2>1, <2>2, FileKept
  <2> QED  BY <2>1, <2>2, <2>3 DEF SameContent
<1>10. CASE MigrateLegacy(p)
  <2>1. {"legacy"} \in SUBSET Piece /\ 27 \in Versions
    BY KnownPieces, KnownVersions
  <2>2. PICK d : d = AtVersion(With(f, {"legacy"}), 27) /\ d \in File /\ SameContent(f, d)
    BY <1>9, <2>1
  <2>3. Commit(p, d, NextStage(2, ver[p], d))
    BY <1>2, <1>10, <2>2, StageIndex DEF MigrateLegacy, Stage
  <2> QED  BY <1>5, <2>2, <2>3
<1>11. CASE CountV28(p)
  BY <1>6, <1>11 DEF CountV28, onDisk, RemovalInv, Outside
<1>12. CASE RebuildV28(p)
  <2>4. (f.has \ {"origin", "team", "dedup", "reverted"}) \cup {"rule", "fts"} \subseteq Piece
    <3>1. f.has \subseteq Piece
      BY <1>2 DEF File
    <3> QED  BY <3>1, KnownPieces
  <2>1. PICK P : P = (f.has \ {"origin", "team", "dedup", "reverted"}) \cup {"rule", "fts"} /\ P \subseteq Piece
    BY <2>4
  <2>2. PICK d : d = AtVersion([f EXCEPT !.has = P], 28) /\ d \in File /\ SameContent(f, d)
    BY <1>9, <2>1, KnownPieces, KnownVersions
  <2>3. Commit(p, d, NextStage(3, ver[p], d))
    BY <1>2, <1>12, <2>1, <2>2, StageIndex DEF RebuildV28
  <2> QED  BY <1>5, <2>2, <2>3
<1>13. CASE MigrateV29(p)
  <2>1. {"origin"} \in SUBSET Piece /\ 29 \in Versions
    BY KnownPieces, KnownVersions
  <2>2. PICK d : d = AtVersion(With(f, {"origin"}), 29) /\ d \in File /\ SameContent(f, d)
    BY <1>9, <2>1
  <2>3. Commit(p, d, NextStage(4, ver[p], d))
    BY <1>2, <1>13, <2>2, StageIndex DEF MigrateV29, Stage
  <2> QED  BY <1>5, <2>2, <2>3
<1>14. CASE ProbeV30(p)
  <2>1. PICK to : to = (IF HasV30(f) THEN NextStage(5, ver[p], f) ELSE "v30 write")
    OBVIOUS
  <2>2. to \notin Outside
    <3>1. NextStage(5, ver[p], f) \notin Outside /\ "v30 write" \notin Outside
      BY <1>3, <1>4 DEF Outside
    <3> QED  BY <2>1, <3>1
  <2>3. Move(p, to) /\ UNCHANGED <<db, path, backups, ino, ver, history>>
    BY <1>2, <1>14, <2>1, StageIndex DEF ProbeV30, onDisk
  <2> QED  BY <1>6, <2>2, <2>3 DEF RemovalInv
<1>15. CASE MigrateV30(p)
  <2>1. {"rollup", "events"} \in SUBSET Piece /\ 30 \in Versions
    BY KnownPieces, KnownVersions
  <2>2. PICK d : d = AtVersion(With(f, {"rollup", "events"}), 30) /\ d \in File /\ SameContent(f, d)
    BY <1>9, <2>1
  <2>3. Commit(p, d, NextStage(5, ver[p], d))
    BY <1>2, <1>15, <2>2, StageIndex DEF MigrateV30, Stage
  <2> QED  BY <1>5, <2>2, <2>3
<1>16. CASE IndexV31(p)
  <2>1. With(f, {"dedup"}) \in File /\ SameContent(f, With(f, {"dedup"}))
    BY <1>2, FileKept, KnownPieces, KnownVersions
  <2>2. Commit(p, With(f, {"dedup"}), "v31 version")
    BY <1>2, <1>16 DEF IndexV31
  <2> QED  BY <1>1, <1>2, <2>1, <2>2, SchemaCommit DEF Outside
<1>17. CASE VersionV31(p)
  <2>1. 31 \in Versions
    BY KnownVersions
  <2>2. PICK d : d = AtVersion(f, 31) /\ d \in File /\ SameContent(f, d)
    BY <1>2, <2>1, FileKept, KnownPieces
  <2>3. Commit(p, d, NextStage(6, ver[p], d))
    BY <1>2, <1>17, <2>2, StageIndex DEF VersionV31
  <2> QED  BY <1>5, <2>2, <2>3
<1>18. CASE MigrateV32(p)
  <2>4. (f.has \ {"reverted"}) \cup {"team", "cause", "rowid"} \subseteq Piece
    <3>1. f.has \subseteq Piece
      BY <1>2 DEF File
    <3> QED  BY <3>1, KnownPieces
  <2>1. PICK P : P = (f.has \ {"reverted"}) \cup {"team", "cause", "rowid"} /\ P \subseteq Piece
    BY <2>4
  <2>2. PICK d : d = AtVersion([f EXCEPT !.has = P], 32) /\ d \in File /\ SameContent(f, d)
    BY <1>9, <2>1, KnownPieces, KnownVersions
  <2>3. Commit(p, d, NextStage(7, ver[p], d))
    BY <1>2, <1>18, <2>1, <2>2, StageIndex DEF MigrateV32, Stage
  <2> QED  BY <1>5, <2>2, <2>3
<1>19. CASE EnsureFtsIntegrity(p)
  <2>1. With(f, {"fts"}) \in File /\ SameContent(f, With(f, {"fts"}))
    BY <1>2, FileKept, KnownPieces, KnownVersions
  <2> QED  BY <1>2, <1>5, <1>19, <2>1, StageIndex DEF EnsureFtsIntegrity, Stage
<1> QED  BY <1>7, <1>8, <1>10, <1>11, <1>12, <1>13, <1>14, <1>15, <1>16, <1>17, <1>18, <1>19 DEF Ensure

LEMMA RemovalStarts == StoreInit => RemovalInv
<1> SUFFICES ASSUME StoreInit PROVE RemovalInv
  OBVIOUS
<1>1. db \in Seq(File) /\ (path = Nil \/ path \in DOMAIN db)
  <2>1. PICK d \in Start : IF d = Nil THEN path = Nil /\ db = <<>> ELSE path = 1 /\ db = <<d>>
    BY DEF StoreInit
  <2>2. CASE d = Nil
    BY <2>1, <2>2
  <2>3. CASE d # Nil
    <3>1. d \in File /\ path = 1 /\ db = <<d>>
      BY <2>1, <2>3, StoreAssumption
    <3> HIDE DEF File
    <3> QED  BY <3>1
  <2> QED  BY <2>2, <2>3
<1> QED  BY <1>1, KnownVersions DEF StoreInit, RemovalInv, Outside

LEMMA RecoveryStep ==
  ASSUME RemovalInv, NEW p \in Process, OpenDatabase(p) \/ CopyAside(p) \/ CloseOrFail(p)
  PROVE  RemovalInv'
<1>0. DOMAIN ino = Process /\ DOMAIN ver = Process /\ ver \in [Process -> Versions]
  BY DEF RemovalInv
<1>1. CASE OpenDatabase(p)
  <2>1. PICK to \in {"copy", "connect"} :
          Move(p, to) /\ (to = "copy" => path # Nil /\ db[path].corrupt)
    BY <1>1 DEF OpenDatabase, Move
  <2>2. UNCHANGED <<db, path, backups, ino, ver, uncopied>> /\ amid' = amid \ {p}
    BY <1>1 DEF OpenDatabase, onDisk
  <2> QED  BY <1>0, <2>1, <2>2, StandStep DEF Outside
<1>2. CASE CopyAside(p)
  <2>1. UNCHANGED <<db, path, ino, ver, amid, uncopied>> /\ at[p] = "copy"
    BY <1>2 DEF CopyAside, history
  <2>2. CASE path = Nil
    <3>1. Move(p, "connect") /\ backups' = backups
      BY <1>2, <2>2 DEF CopyAside
    <3> QED  BY <1>0, <2>1, <3>1, StandStep DEF Outside
  <2>3. CASE path # Nil
    <3>1. Move(p, "unlink") /\ backups' = backups \cup Copied(db[path])
      BY <1>2, <2>3 DEF CopyAside
    <3>2. p \notin amid => db[path].corrupt
      BY <2>1, <2>3 DEF RemovalInv
    <3> QED  BY <1>0, <2>1, <3>1, <3>2, StandStep DEF Outside
  <2> QED  BY <2>2, <2>3
<1>3. CASE CloseOrFail(p)
  <2>1. /\ Move(p, "closed") /\ UNCHANGED <<db, path, backups, amid, uncopied>>
        /\ ino' = [ino EXCEPT ![p] = Nil] /\ ver' = [ver EXCEPT ![p] = 0]
    BY <1>3 DEF CloseOrFail, Leave, Move, onDisk, history
  <2>2. ver' \in [Process -> Versions] /\ DOMAIN ino' = Process /\ \A q \in Process \ {p} : ino'[q] = ino[q]
    BY <1>0, <2>1, KnownVersions
  <2> QED  BY <2>1, <2>2, StandStep DEF Outside
<1> QED  BY <1>1, <1>2, <1>3

LEMMA UnlinkStep ==
  ASSUME RemovalInv, NEW p \in Process, Unlink(p)
  PROVE  RemovalInv'
<1>1. /\ at' = [at EXCEPT ![p] = "connect"] /\ DOMAIN at = Process
      /\ path' = Nil /\ UNCHANGED <<db, ino, ver>>
  BY DEF Unlink, Move, RemovalInv
<1> QED  BY <1>1 DEF RemovalInv, Outside

(* Nobody recovers a file that has just been made but those that are set     *)
(* down as still recovering its predecessor.                                 *)
LEMMA ConnectMakes ==
  ASSUME RemovalInv, NEW p \in Process, Connect(p)
  PROVE  RemovalInv'
<1>1. /\ at' = [at EXCEPT ![p] = "ensure"] /\ DOMAIN at = Process /\ DOMAIN ino = Process
      /\ UNCHANGED <<backups, ver, uncopied>> /\ Move(p, "ensure") /\ ver \in [Process -> Versions]
  BY DEF Connect, Move, RemovalInv
<1>2. DOMAIN at' = Process /\ \A q \in Process : at'[q] = IF q = p THEN "ensure" ELSE at[q]
  BY <1>1
<1>3. CASE path # Nil /\ ino' = [ino EXCEPT ![p] = path] /\ UNCHANGED <<path, db, amid>>
  <2>1. DOMAIN ino' = Process /\ ino'[p] \in DOMAIN db /\ \A q \in Process \ {p} : ino'[q] = ino[q]
    BY <1>1, <1>3 DEF RemovalInv
  <2> QED  BY <1>1, <1>3, <2>1, StandStep
<1>4. CASE /\ db' = Append(db, EmptyFile) /\ path' = Len(db') /\ ino' = [ino EXCEPT ![p] = path']
           /\ amid' = {q \in Process : at[q] \in {"copy", "unlink"}}
  <2>1. db \in Seq(File) /\ EmptyFile \in File
    BY DEF RemovalInv, EmptyFile, File
  <2>2. db' \in Seq(File) /\ DOMAIN db \subseteq DOMAIN db' /\ path' \in DOMAIN db'
    <3> HIDE DEF File, EmptyFile
    <3> QED  BY <1>4, <2>1
  <2>3. \A q \in Process \ amid' : at'[q] \notin {"copy", "unlink"}
    BY <1>2, <1>4
  <2>4. \A q \in Process : at'[q] \notin Outside => ino'[q] \in DOMAIN db'
    BY <1>1, <1>2, <1>4, <2>2 DEF RemovalInv
  <2> QED  BY <1>1, <1>2, <1>4, <2>2, <2>3, <2>4 DEF RemovalInv
<1> QED  BY <1>3, <1>4 DEF Connect

(* A row goes to the WAL first; what a checkpoint adds to a file that has    *)
(* been copied is set down.                                                  *)
LEMMA RowsMove ==
  ASSUME RemovalInv, NEW p \in Process, Checkpoint(p) \/ \E r \in Row : Write(p, r)
  PROVE  RemovalInv'
<1>1. /\ at[p] = "ready" /\ ino[p] \in DOMAIN db /\ UNCHANGED <<path, at, ino, ver, backups, amid>>
      /\ DOMAIN at = Process /\ db \in Seq(File)
  BY DEF Checkpoint, Write, RemovalInv, Outside, history
<1>2. PICK f, i : i = ino[p] /\ f = db[i] /\ f \in File
  <2> HIDE DEF File
  <2> QED  BY <1>1
<1>3. CASE Checkpoint(p)
  <2> DEFINE d == [f EXCEPT !.wal = {}]
  <2>1. d \in File /\ d.corrupt = f.corrupt /\ Copied(d) \subseteq Copied(f) \cup f.wal
    BY <1>2 DEF File, Copied
  <2>2. db' = [db EXCEPT ![i] = d]
    BY <1>2, <1>3 DEF Checkpoint
  <2>3. uncopied \subseteq uncopied' /\ (i = path /\ (\E q \in Process \ amid : at[q] = "unlink") => f.wal \subseteq uncopied')
    BY <1>2, <1>3 DEF Checkpoint
  <2> HIDE DEF d, File
  <2> QED  BY <1>1, <1>2, <2>1, <2>2, <2>3, FileStep
<1>4. ASSUME NEW r \in Row, Write(p, r) PROVE RemovalInv'
  <2> DEFINE d == [f EXCEPT !.rows = @ \cup {r}, !.wal = @ \cup {r}]
  <2>1. d \in File /\ d.corrupt = f.corrupt /\ Copied(d) \subseteq Copied(f)
    BY <1>2 DEF File, Copied
  <2>2. db' = [db EXCEPT ![i] = d] /\ uncopied' = uncopied
    BY <1>2, <1>4 DEF Write, history
  <2> HIDE DEF d, File
  <2> QED  BY <1>1, <1>2, <2>1, <2>2, FileStep
<1> QED  BY <1>3, <1>4

LEMMA DamageStep ==
  ASSUME RemovalInv, Corrupt
  PROVE  RemovalInv'
<1>1. /\ path \in DOMAIN db /\ db \in Seq(File) /\ DOMAIN at = Process
      /\ UNCHANGED <<path, at, ino, ver, backups, amid, uncopied>>
  BY DEF Corrupt, RemovalInv, history
<1>2. PICK f : f = db[path] /\ f \in File
  <2> HIDE DEF File
  <2> QED  BY <1>1
<1> DEFINE d == [f EXCEPT !.corrupt = TRUE]
<1>3. d \in File /\ d.corrupt /\ Copied(d) = Copied(f)
  BY <1>2 DEF File, Copied
<1>4. db' = [db EXCEPT ![path] = d]
  BY <1>2 DEF Corrupt
<1> HIDE DEF d, File
<1> QED  BY <1>1, <1>2, <1>3, <1>4, FileStep

LEMMA RemovalStep == RemovalInv /\ [StoreNext]_opening => RemovalInv'
<1> SUFFICES ASSUME RemovalInv, [StoreNext]_opening PROVE RemovalInv'
  OBVIOUS
<1>1. ASSUME NEW p \in Process, OpenDatabase(p) \/ CopyAside(p) \/ CloseOrFail(p) PROVE RemovalInv'
  BY <1>1, RecoveryStep
<1>2. ASSUME NEW p \in Process, Unlink(p) \/ Connect(p) PROVE RemovalInv'
  BY <1>2, UnlinkStep, ConnectMakes
<1>3. ASSUME NEW p \in Process, Ensure(p) PROVE RemovalInv'
  BY <1>3, EnsureKeepsContent
<1>4. ASSUME NEW p \in Process, Checkpoint(p) \/ \E r \in Row : Write(p, r) PROVE RemovalInv'
  BY <1>4, RowsMove
<1>5. CASE Corrupt
  BY <1>5, DamageStep
<1>6. CASE UNCHANGED opening
  BY <1>6 DEF opening, onDisk, history, RemovalInv, Copied
<1> QED  BY <1>1, <1>2, <1>3, <1>4, <1>5, <1>6 DEF StoreNext

(* Only the unlink takes a file from the path.                               *)
LEMMA OnlyUnlinkRemoves ==
  ASSUME StoreNext, path # Nil, path' # path
  PROVE  \E p \in Process : Unlink(p)
BY DEF StoreNext, OpenDatabase, CopyAside, Connect, CloseOrFail, Checkpoint, Write, Corrupt, Ensure, ReadVersion,
       CreateAll, MigrateLegacy, CountV28, RebuildV28, MigrateV29, ProbeV30, MigrateV30, IndexV31, VersionV31,
       MigrateV32, EnsureFtsIntegrity, Stage, Commit, onDisk

(* Any number of processes open the database, find it damaged, copy, remove  *)
(* and replace it, write to it meanwhile, and die anywhere.  A file goes     *)
(* because it was found damaged, and then its main file is in the copies,    *)
(* but for what was checkpointed after its copy; or by a process that had    *)
(* found its predecessor damaged and is slower than the one that replaced    *)
(* it (recoverCorruptDb).                                                    *)
THEOREM RemovalsHaveACauseAlways == StoreSpec => RemovalsHaveACause
<1>1. RemovalInv /\ [StoreNext]_opening =>
        [path # Nil /\ path' # path =>
           \/ db[path].corrupt /\ Copied(db[path]) \subseteq backups \cup uncopied
           \/ \E p \in amid : at[p] = "unlink" /\ at'[p] = "connect"]_opening
  <2> SUFFICES ASSUME RemovalInv, [StoreNext]_opening, path # Nil, path' # path
               PROVE  \/ db[path].corrupt /\ Copied(db[path]) \subseteq backups \cup uncopied
                      \/ \E p \in amid : at[p] = "unlink" /\ at'[p] = "connect"
    OBVIOUS
  <2>1. StoreNext
    BY DEF opening, onDisk
  <2>2. PICK p \in Process : Unlink(p)
    BY <2>1, OnlyUnlinkRemoves
  <2>3. at[p] = "unlink" /\ at'[p] = "connect"
    BY <2>2 DEF Unlink, Move, RemovalInv
  <2> QED  BY <2>3 DEF RemovalInv
<1> QED  BY <1>1, RemovalStarts, RemovalStep, PTL DEF StoreSpec, RemovalsHaveACause
=============================================================================
