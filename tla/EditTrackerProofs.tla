------------------------ MODULE EditTrackerProofs ------------------------
(***************************************************************************)
(* What the lock of the tracker file is good for, for any number of hooks, *)
(* crashes, slow holders and thieves; and that the hooks and the tailer of *)
(* a rollout together count each tool call once.                           *)
(***************************************************************************)
EXTENDS EditTracker, ToolDemux, FiniteSetTheorems, SequenceTheorems, TLAPS

\* A hook past the lock that did not go on without it holds it.
HoldsOrOpen == \A p \in Locked : pc[p] \in {"load", "save", "release"} => held[p] \/ p \in open

\* Whoever holds the lock, and was not robbed of it, made the one at the path.
HolderOwns == \A p \in Locked : held[p] /\ p \notin robbed => lock # Nil /\ lock.of = p

\* What an honest holder has loaded is what an honest writer left.
LoadIsCurrent ==
  \A p \in Locked : pc[p] = "save" /\ Alone(p) /\ Alone(writer) => OnDisk.marks \subseteq local[p].marks

\* A thief has seen an old lock, and so has everybody after him.
ThievesSawAge == \A p \in Hook : pc[p] = "steal" => aged

OldIsAged == lock # Nil /\ lock.old => aged

Typed ==
  /\ pc \in [Hook -> {"idle", "acquire", "steal", "load", "save", "release", "done", "crashed"}]
  /\ held \in [Hook -> BOOLEAN] /\ DOMAIN local = Hook \cup {Daemon}
  /\ aged \in BOOLEAN
  /\ lock = Nil \/ lock \in [of : Locked, old : BOOLEAN]
  /\ open \subseteq Locked /\ robbed \subseteq Locked
  /\ \A p \in Locked : pc[p] \notin {"load", "save", "release"} => ~held[p]
  /\ \A p \in Unlocked : ~held[p] /\ pc[p] \notin {"acquire", "steal", "release"}

LockInv ==
  /\ Typed /\ HoldsOrOpen /\ HolderOwns /\ LoadIsCurrent
  /\ ThievesSawAge /\ OldIsAged /\ FreshLocksAreKept

(* Initially nobody holds anything and there is nothing to drop.             *)
LEMMA LockInit == Init => LockInv
  BY TrackerAssumption DEF Init, LockInv, Typed, HoldsOrOpen, HolderOwns, LoadIsCurrent, ThievesSawAge,
     OldIsAged, FreshLocksAreKept, Hook, Alone

(* What happens to the file and the loaded trackers does not touch the lock. *)
LEMMA LockingStays == LockInv /\ UNCHANGED <<pc, locking>> /\ DOMAIN local' = DOMAIN local /\ LoadIsCurrent' => LockInv'
<1> SUFFICES ASSUME LockInv, UNCHANGED <<pc, locking>>, DOMAIN local' = DOMAIN local, LoadIsCurrent' PROVE LockInv'
  OBVIOUS
<1> USE DEF LockInv, locking
<1>1. Typed'
  BY DEF Typed
<1>2. HoldsOrOpen' /\ HolderOwns'
  BY DEF HoldsOrOpen, HolderOwns
<1>3. ThievesSawAge' /\ OldIsAged' /\ FreshLocksAreKept'
  BY DEF ThievesSawAge, OldIsAged, FreshLocksAreKept
<1> QED
  BY <1>1, <1>2, <1>3

(* The honest reader of the file: nothing honest is written behind its back. *)
LEMMA LoadStays ==
  LockInv /\ UNCHANGED <<file, writer, local, open>> /\ robbed \subseteq robbed'
  /\ (\A p \in Locked : pc'[p] = "save" => pc[p] = "save") => LoadIsCurrent'
  BY DEF LockInv, LoadIsCurrent, Alone, OnDisk

(* Every step of every process keeps the protocol's invariant.               *)
LEMMA LockStep == LockInv /\ [Next]_vars => LockInv'
<1> SUFFICES ASSUME LockInv, [Next]_vars PROVE LockInv'
  OBVIOUS
<1> USE TrackerAssumption DEF LockInv, Hook, daemon, locking
<1>1. ASSUME NEW p \in Hook, Start(p) PROVE LockInv'
  <2>1. Typed'
    BY <1>1 DEF Start, Goes, Typed
  <2>2. HoldsOrOpen'
    BY <1>1 DEF Start, Goes, Typed, HoldsOrOpen
  <2>3. HolderOwns'
    BY <1>1 DEF Start, Goes, Typed, HolderOwns, HoldsOrOpen
  <2>4. LoadIsCurrent'
    BY <1>1, LoadStays DEF Start, Goes, Typed
  <2>5. ThievesSawAge' /\ OldIsAged' /\ FreshLocksAreKept'
    BY <1>1 DEF Start, Goes, Typed, HolderOwns, ThievesSawAge, OldIsAged, FreshLocksAreKept
  <2> QED
    BY <2>1, <2>2, <2>3, <2>4, <2>5
<1>2. ASSUME NEW p \in Hook, Mkdir(p) PROVE LockInv'
  <2>1. Typed'
    BY <1>2 DEF Mkdir, Goes, Typed
  <2>2. HoldsOrOpen'
    BY <1>2 DEF Mkdir, Goes, Typed, HoldsOrOpen
  <2>3. HolderOwns'
    <3>1. p \in Locked
      BY <1>2 DEF Mkdir, Typed
    <3>2. lock' \in [of : Locked, old : BOOLEAN] /\ lock'.of = p
      BY <1>2, <3>1 DEF Mkdir
    <3>3. lock' # Nil
      BY <3>2
    <3>4. \A q \in Locked : held'[q] /\ q \notin robbed => q = p
      BY <1>2 DEF Mkdir, Typed, HolderOwns
    <3> QED
      BY <1>2, <3>2, <3>3, <3>4 DEF Mkdir, HolderOwns
  <2>4. LoadIsCurrent'
    BY <1>2, LoadStays DEF Mkdir, Goes, Typed
  <2>5. ThievesSawAge' /\ OldIsAged' /\ FreshLocksAreKept'
    BY <1>2 DEF Mkdir, Goes, Typed, HolderOwns, ThievesSawAge, OldIsAged, FreshLocksAreKept
  <2> QED
    BY <2>1, <2>2, <2>3, <2>4, <2>5
<1>3. ASSUME NEW p \in Hook, StatOld(p) PROVE LockInv'
  <2>1. Typed'
    BY <1>3 DEF StatOld, Goes, Typed
  <2>2. HoldsOrOpen'
    BY <1>3 DEF StatOld, Goes, Typed, HoldsOrOpen
  <2>3. HolderOwns'
    BY <1>3 DEF StatOld, Goes, Typed, HolderOwns, HoldsOrOpen
  <2>4. LoadIsCurrent'
    BY <1>3, LoadStays DEF StatOld, Goes, Typed
  <2>5. ThievesSawAge' /\ OldIsAged' /\ FreshLocksAreKept'
    BY <1>3 DEF StatOld, Goes, Typed, HolderOwns, ThievesSawAge, OldIsAged, FreshLocksAreKept
  <2> QED
    BY <2>1, <2>2, <2>3, <2>4, <2>5
<1>4. ASSUME NEW p \in Hook, Rmdir(p) PROVE LockInv'
  <2>1. Typed'
    BY <1>4 DEF Rmdir, Goes, Removes, Typed
  <2>2. HoldsOrOpen'
    BY <1>4 DEF Rmdir, Goes, Removes, Typed, HoldsOrOpen
  <2>3. HolderOwns'
    BY <1>4 DEF Rmdir, Goes, Removes, Typed, HolderOwns, HoldsOrOpen
  <2>4. LoadIsCurrent'
    BY <1>4, LoadStays DEF Rmdir, Goes, Removes, Typed
  <2>5. ThievesSawAge' /\ OldIsAged' /\ FreshLocksAreKept'
    BY <1>4 DEF Rmdir, Goes, Removes, Typed, HolderOwns, ThievesSawAge, OldIsAged, FreshLocksAreKept
  <2> QED
    BY <2>1, <2>2, <2>3, <2>4, <2>5
<1>5. ASSUME NEW p \in Hook, GiveUp(p) PROVE LockInv'
  <2>1. Typed'
    BY <1>5 DEF GiveUp, Goes, Typed
  <2>2. HoldsOrOpen'
    BY <1>5 DEF GiveUp, Goes, Typed, HoldsOrOpen
  <2>3. HolderOwns'
    BY <1>5 DEF GiveUp, Goes, Typed, HolderOwns, HoldsOrOpen
  <2>4. LoadIsCurrent'
    BY <1>5, <2>1 DEF GiveUp, Goes, Typed, LoadIsCurrent, Alone, OnDisk
  <2>5. ThievesSawAge' /\ OldIsAged' /\ FreshLocksAreKept'
    BY <1>5 DEF GiveUp, Goes, Typed, HolderOwns, ThievesSawAge, OldIsAged, FreshLocksAreKept
  <2> QED
    BY <2>1, <2>2, <2>3, <2>4, <2>5
<1>6. ASSUME NEW p \in Hook, Load(p) PROVE LockInv'
  <2>1. Typed'
    BY <1>6 DEF Load, Goes, Typed
  <2>2. HoldsOrOpen'
    BY <1>6 DEF Load, Goes, Typed, HoldsOrOpen
  <2>3. HolderOwns'
    BY <1>6 DEF Load, Goes, Typed, HolderOwns, HoldsOrOpen
  <2>4. LoadIsCurrent'
    BY <1>6, <2>1 DEF Load, Goes, Typed, LoadIsCurrent, Alone, OnDisk
  <2>5. ThievesSawAge' /\ OldIsAged' /\ FreshLocksAreKept'
    BY <1>6 DEF Load, Goes, Typed, HolderOwns, ThievesSawAge, OldIsAged, FreshLocksAreKept
  <2> QED
    BY <2>1, <2>2, <2>3, <2>4, <2>5
<1>7. ASSUME NEW p \in Hook, Save(p) PROVE LockInv'
  <2>1. Typed'
    BY <1>7 DEF Save, Goes, Saved, Typed
  <2>2. HoldsOrOpen'
    BY <1>7 DEF Save, Goes, Saved, Typed, HoldsOrOpen
  <2>3. HolderOwns'
    BY <1>7 DEF Save, Goes, Saved, Typed, HolderOwns, HoldsOrOpen
  <2>4. LoadIsCurrent'
    <3> SUFFICES ASSUME NEW q \in Locked, pc'[q] = "save", Alone(q), Alone(p) PROVE FALSE
      BY <1>7 DEF Save, Saved, LoadIsCurrent, Alone
    <3>1. q # p /\ pc[q] = "save" /\ pc[p] = "save"
      BY <1>7 DEF Save, Goes, Typed
    <3>2. held[p] /\ held[q]
      BY <3>1 DEF HoldsOrOpen, Alone
    <3> QED
      BY <3>1, <3>2 DEF HolderOwns, Alone
  <2>5. ThievesSawAge' /\ OldIsAged' /\ FreshLocksAreKept'
    BY <1>7 DEF Save, Goes, Saved, Typed, HolderOwns, ThievesSawAge, OldIsAged, FreshLocksAreKept
  <2> QED
    BY <2>1, <2>2, <2>3, <2>4, <2>5
<1>8. ASSUME NEW p \in Hook, Release(p) PROVE LockInv'
  <2>1. Typed'
    BY <1>8 DEF Release, Goes, Removes, Typed
  <2>2. HoldsOrOpen'
    BY <1>8 DEF Release, Goes, Removes, Typed, HoldsOrOpen
  <2>3. HolderOwns'
    BY <1>8 DEF Release, Goes, Removes, Typed, HolderOwns, HoldsOrOpen
  <2>4. LoadIsCurrent'
    BY <1>8, LoadStays DEF Release, Goes, Removes, Typed
  <2>5. ThievesSawAge' /\ OldIsAged' /\ FreshLocksAreKept'
    BY <1>8 DEF Release, Goes, Removes, Typed, HolderOwns, ThievesSawAge, OldIsAged, FreshLocksAreKept
  <2> QED
    BY <2>1, <2>2, <2>3, <2>4, <2>5
<1>9. ASSUME NEW p \in Hook, Crash(p) PROVE LockInv'
  <2>1. Typed'
    BY <1>9 DEF Crash, Goes, Typed
  <2>2. HoldsOrOpen'
    BY <1>9 DEF Crash, Goes, Typed, HoldsOrOpen
  <2>3. HolderOwns'
    BY <1>9 DEF Crash, Goes, Typed, HolderOwns, HoldsOrOpen
  <2>4. LoadIsCurrent'
    BY <1>9, <2>1 DEF Crash, Goes, Typed, LoadIsCurrent, Alone, OnDisk
  <2>5. ThievesSawAge' /\ OldIsAged' /\ FreshLocksAreKept'
    BY <1>9 DEF Crash, Goes, Typed, HolderOwns, ThievesSawAge, OldIsAged, FreshLocksAreKept
  <2> QED
    BY <2>1, <2>2, <2>3, <2>4, <2>5
<1>10. CASE Age
  <2>1. Typed' /\ HoldsOrOpen' /\ HolderOwns' /\ ThievesSawAge' /\ OldIsAged' /\ FreshLocksAreKept'
    BY <1>10 DEF Age, Typed, HoldsOrOpen, HolderOwns, ThievesSawAge, OldIsAged, FreshLocksAreKept
  <2>2. LoadIsCurrent'
    BY <1>10, LoadStays DEF Age
  <2> QED
    BY <2>1, <2>2
<1>11. CASE DeleteTracker
  <2>1. OnDisk'.marks = {}
    BY <1>11 DEF DeleteTracker, OnDisk, Default
  <2>2. LoadIsCurrent'
    BY <1>11, <2>1 DEF DeleteTracker, LoadIsCurrent
  <2> QED
    BY <1>11, <2>2, LockingStays DEF DeleteTracker
<1>12. ASSUME NEW h \in Served, Track(h) PROVE LockInv'
  BY <1>12, LockingStays, LoadStays DEF Track
<1>13. CASE StopLoad
  <2>1. LoadIsCurrent'
    BY <1>13 DEF StopLoad, LoadIsCurrent, Alone, OnDisk, Typed
  <2> QED
    BY <1>13, <2>1, LockingStays DEF StopLoad
<1>14. CASE StopSave
  BY <1>14, LockingStays DEF StopSave, Saved, LoadIsCurrent, Alone
<1>15. CASE Flush
  <2>1. CASE dirty
    BY <1>15, <2>1, LockingStays DEF Flush, Saved, LoadIsCurrent, Alone
  <2>2. CASE ~dirty
    BY <1>15, <2>2, LockingStays, LoadStays DEF Flush
  <2> QED
    BY <2>1, <2>2
<1>16. CASE Prompt
  BY <1>16, LockingStays, LoadStays DEF Prompt
<1>17. CASE DaemonEnds
  <2>1. LoadIsCurrent'
    BY <1>17 DEF DaemonEnds, LoadIsCurrent, Alone, OnDisk, Typed
  <2> QED
    BY <1>17, <2>1, LockingStays DEF DaemonEnds
<1>18. CASE UNCHANGED vars
  BY <1>18, LockingStays, LoadStays DEF vars
<1> QED
  BY <1>1, <1>2, <1>3, <1>4, <1>5, <1>6, <1>7, <1>8, <1>9, <1>10, <1>11, <1>12, <1>13, <1>14, <1>15,
     <1>16, <1>17, <1>18 DEF Next, Step

(* A step that drops a mark is a save by a hook, or by the daemon.           *)
LEMMA DropIsUnlocked ==
  LockInv /\ [Next]_vars => (DropsAMark => ~(Alone(writer) /\ Alone(writer')))
<1> SUFFICES ASSUME LockInv, [Next]_vars, DropsAMark, Alone(writer), Alone(writer') PROVE FALSE
  OBVIOUS
<1> USE DEF DropsAMark, daemon, locking
<1>1. ASSUME NEW p \in Hook, Save(p) PROVE FALSE
  <2>1. writer' = p /\ p \in Locked /\ pc[p] = "save" /\ file' = Mark(local[p], p)
    BY <1>1 DEF Save, Saved, Alone
  <2>2. OnDisk.marks \subseteq local[p].marks
    BY <2>1 DEF LockInv, LoadIsCurrent, Alone
  <2>3. local[p].marks \subseteq Mark(local[p], p).marks
    BY DEF Mark
  <2> QED
    BY <2>1, <2>2, <2>3
<1>2. writer' # Daemon
  BY TrackerAssumption DEF Alone
<1>3. CASE UNCHANGED file
  BY <1>3 DEF OnDisk
<1>4. CASE DeleteTracker
  BY <1>4 DEF DeleteTracker
<1>5. \/ UNCHANGED file \/ DeleteTracker \/ \E p \in Hook : Save(p)
  BY <1>2 DEF Next, Step, vars, Start, Mkdir, StatOld, Rmdir, GiveUp, Load, Release, Crash, Age, Track,
     StopLoad, StopSave, Flush, Prompt, DaemonEnds, Saved
<1> QED
  BY <1>1, <1>3, <1>4, <1>5

(* For any number of hooks, crashes, slow holders and thieves, a change is   *)
(* lost only when a writer was not under the lock (edit-tracker.ts,          *)
(* updateTracker).                                                           *)
THEOREM LossHasACause == Spec => LossNeedsACause
<1>1. Spec => []LockInv
  BY LockInit, LockStep, PTL DEF Spec
<1> QED
  BY <1>1, DropIsUnlocked, PTL DEF Spec, LossNeedsACause

(* For any number of hooks, no lock is taken from its holder before a lock   *)
(* has been older than the limit (edit-tracker.ts, acquireTrackerLock).      *)
THEOREM FreshLocksStay == Spec => []FreshLocksAreKept
<1>1. LockInv => FreshLocksAreKept
  BY DEF LockInv
<1> QED
  BY <1>1, LockInit, LockStep, PTL DEF Spec

-----------------------------------------------------------------------------
(* The tool demux: who counts an outcome.                                    *)

(* Dropping one entry keeps the others, in their order. *)
LEMMA RemovedEntry ==
  ASSUME NEW S, NEW s \in Seq(S), NEW i \in 1 .. Len(s)
  PROVE  /\ RemoveAt(s, i) \in Seq(S)
         /\ Len(RemoveAt(s, i)) = Len(s) - 1
         /\ \A j \in 1 .. Len(s) - 1 : RemoveAt(s, i)[j] = IF j < i THEN s[j] ELSE s[j + 1]
<1> DEFINE front == SubSeq(s, 1, i - 1)
           back == SubSeq(s, i + 1, Len(s))
<1>1. /\ front \in Seq(S) /\ Len(front) = i - 1
      /\ \A j \in 1 .. i - 1 : front[j] = s[j]
  OBVIOUS
<1>2. /\ back \in Seq(S) /\ Len(back) = Len(s) - i
      /\ \A j \in 1 .. Len(s) - i : back[j] = s[i + j]
  OBVIOUS
<1> HIDE DEF front, back
<1>3. RemoveAt(s, i) = front \o back
  BY DEF RemoveAt, front, back
<1>4. /\ front \o back \in Seq(S)
      /\ Len(front \o back) = Len(s) - 1
  BY <1>1, <1>2
<1>5. ASSUME NEW j \in 1 .. Len(s) - 1
      PROVE  (front \o back)[j] = IF j < i THEN s[j] ELSE s[j + 1]
  <2>1. CASE j < i
    BY <1>1, <1>2, <2>1
  <2>2. CASE j >= i
    <3> DEFINE k == j - (i - 1)
    <3>1. k \in 1 .. Len(s) - i /\ i + k = j + 1
      BY <2>2
    <3>2. (front \o back)[j] = back[k]
      BY <1>1, <1>2, <2>2
    <3> HIDE DEF k
    <3>3. back[k] = s[i + k]
      BY <1>2, <3>1
    <3>4. ~(j < i)
      BY <2>2
    <3> QED BY <3>1, <3>2, <3>3, <3>4
  <2>3. j < i \/ j >= i
    OBVIOUS
  <2> QED BY <2>1, <2>2, <2>3, Zenon
<1> QED BY <1>3, <1>4, <1>5

HookType == [call : Call, nth : Nat, by : {"daemon", "process"}, claimed : BOOLEAN]

\* The hooks and the loops whose handler has the outcome of call i.
HooksWith(i) == {h \in hooks : h.call = i /\ h.claimed}
LoopsWith(i) == {l \in DOMAIN loops : Head(loops[l].lines) = i /\ loops[l].claimed}

\* The marker gives one claim, and each failure to set it another.
Claims(i) == errors + IF i \in seen THEN 1 ELSE 0

DemuxInv ==
  /\ hooks \subseteq HookType /\ IsFiniteSet(hooks)
  /\ \E L : loops \in Seq([lines : L, claimed : BOOLEAN])
  /\ routed \in [Call -> Nat] /\ delivered \in [Call -> Nat] /\ errors \in Nat
  /\ \A i \in Call : Counted(i) <= Claims(i)

LEMMA DemuxFinite ==
  ASSUME DemuxInv
  PROVE  /\ \A i : /\ IsFiniteSet(HooksWith(i)) /\ Cardinality(HooksWith(i)) \in Nat
                   /\ IsFiniteSet(LoopsWith(i)) /\ Cardinality(LoopsWith(i)) \in Nat
         /\ \A i : Counted(i) = routed[i] + Cardinality(HooksWith(i)) + Cardinality(LoopsWith(i))
<1>1. ASSUME NEW i PROVE /\ IsFiniteSet(HooksWith(i)) /\ Cardinality(HooksWith(i)) \in Nat
                         /\ IsFiniteSet(LoopsWith(i)) /\ Cardinality(LoopsWith(i)) \in Nat
  <2>1. HooksWith(i) \subseteq hooks /\ IsFiniteSet(hooks)
    BY DEF HooksWith, DemuxInv
  <2>2. LoopsWith(i) \subseteq 1 .. Len(loops) /\ IsFiniteSet(1 .. Len(loops))
    <3>1. PICK L : loops \in Seq([lines : L, claimed : BOOLEAN])
      BY DEF DemuxInv
    <3>2. Len(loops) \in Nat /\ DOMAIN loops = 1 .. Len(loops)
      BY <3>1
    <3> QED  BY <3>2, FS_Interval DEF LoopsWith
  <2> QED  BY <2>1, <2>2, FS_Subset, FS_CardinalityType
<1> QED  BY <1>1 DEF Counted, HooksWith, LoopsWith

(* A loop drops its line: what the other loops handle stays.                 *)
LEMMA DropLoops ==
  ASSUME DemuxInv, NEW l \in DOMAIN loops, Drop(l)
  PROVE  /\ \E L : loops' \in Seq([lines : L, claimed : BOOLEAN])
         /\ \A i : /\ IsFiniteSet(LoopsWith(i)')
                   /\ Cardinality(LoopsWith(i)') <= Cardinality(LoopsWith(i) \ {l})
                   /\ Cardinality(LoopsWith(i)') \in Nat
<1>1. PICK L : loops \in Seq([lines : L, claimed : BOOLEAN])
  BY DEF DemuxInv
<1>2. Len(loops) \in Nat /\ DOMAIN loops = 1 .. Len(loops) /\ l \in 1 .. Len(loops)
  BY <1>1
<1>3. ASSUME NEW i PROVE IsFiniteSet(LoopsWith(i) \ {l}) /\ IsFiniteSet(LoopsWith(i))
  BY DemuxFinite, FS_Subset
<1>4. CASE loops' = RemoveAt(loops, l)
  <2>1. /\ loops' \in Seq([lines : L, claimed : BOOLEAN]) /\ Len(loops') = Len(loops) - 1
        /\ \A j \in 1 .. Len(loops) - 1 : loops'[j] = IF j < l THEN loops[j] ELSE loops[j + 1]
    BY <1>1, <1>2, <1>4, RemovedEntry
  <2>2. DOMAIN loops' = 1 .. Len(loops) - 1
    BY <2>1
  <2>3. ASSUME NEW i
        PROVE  /\ IsFiniteSet(LoopsWith(i)') /\ Cardinality(LoopsWith(i)') \in Nat
               /\ Cardinality(LoopsWith(i)') <= Cardinality(LoopsWith(i) \ {l})
    <3> DEFINE A == LoopsWith(i)'
               B == LoopsWith(i) \ {l}
               f == [j \in A |-> IF j < l THEN j ELSE j + 1]
    <3>1. \A j \in A : j \in 1 .. Len(loops) - 1 /\ Head(loops'[j].lines) = i /\ loops'[j].claimed
      BY <2>2 DEF LoopsWith
    <3>2. \A j \in A : f[j] \in B
      BY <1>2, <2>1, <3>1 DEF LoopsWith
    <3>3. f \in [A -> B] /\ \A x, y \in A : f[x] = f[y] => x = y
      BY <1>2, <3>1, <3>2
    <3>4. f \in Injection(A, B)
      BY <3>3 DEF Injection, IsInjective
    <3>5. IsFiniteSet(A) /\ Cardinality(A) <= Cardinality(B)
      BY <1>3, <3>4, FS_Injection
    <3> QED  BY <3>5, FS_CardinalityType
  <2> QED  BY <2>1, <2>3
<1>5. CASE loops' = [loops EXCEPT ![l] = [lines |-> Tail(@.lines), claimed |-> FALSE]]
  <2> DEFINE S == [lines : L \cup {Tail(loops[l].lines)}, claimed : BOOLEAN]
  <2>1. loops' \in Seq(S)
    <3>1. [lines |-> Tail(loops[l].lines), claimed |-> FALSE] \in S
      OBVIOUS
    <3>2. \A k \in 1 .. Len(loops) : loops[k] \in S
      <4> DEFINE T == [lines : L, claimed : BOOLEAN]
      <4>3. loops \in Seq(T)
        BY <1>1
      <4> HIDE DEF T
      <4>4. \A k \in 1 .. Len(loops) : loops[k] \in T
        BY <4>3
      <4>1. \A k \in 1 .. Len(loops) : loops[k] \in [lines : L, claimed : BOOLEAN]
        BY <4>4 DEF T
      <4>2. [lines : L, claimed : BOOLEAN] \subseteq S
        OBVIOUS
      <4> HIDE DEF S
      <4> QED  BY <4>1, <4>2
    <3> HIDE DEF S
    <3>3. loops' = [k \in 1 .. Len(loops) |-> IF k = l THEN [lines |-> Tail(loops[l].lines), claimed |-> FALSE] ELSE loops[k]]
      BY <1>1, <1>2, <1>5
    <3>4. \A k \in 1 .. Len(loops) :
            (IF k = l THEN [lines |-> Tail(loops[l].lines), claimed |-> FALSE] ELSE loops[k]) \in S
      BY <3>1, <3>2
    <3>5. loops' \in [1 .. Len(loops) -> S]
      BY <3>3, <3>4
    <3> QED  BY <1>2, <3>5
  <2>2. DOMAIN loops' = DOMAIN loops /\ ~loops'[l].claimed /\ \A k \in DOMAIN loops \ {l} : loops'[k] = loops[k]
    BY <1>1, <1>2, <1>5
  <2>3. ASSUME NEW i
        PROVE  /\ IsFiniteSet(LoopsWith(i)') /\ Cardinality(LoopsWith(i)') \in Nat
               /\ Cardinality(LoopsWith(i)') <= Cardinality(LoopsWith(i) \ {l})
    <3>1. LoopsWith(i)' \subseteq LoopsWith(i) \ {l}
      BY <2>2 DEF LoopsWith
    <3> QED  BY <1>3, <3>1, FS_Subset, FS_CardinalityType
  <2> QED  BY <2>1, <2>3
<1> QED  BY <1>4, <1>5 DEF Drop

(* Steps that leave the counting alone.                                      *)
LEMMA NothingCounted ==
  ASSUME DemuxInv, UNCHANGED <<loops, hooks, seen, routed, errors>>, delivered' \in [Call -> Nat]
  PROVE  DemuxInv'
BY DEF DemuxInv, Counted, Claims

LEMMA DemuxStarts == DemuxInit => DemuxInv
<1> SUFFICES ASSUME DemuxInit PROVE DemuxInv
  OBVIOUS
<1>1. hooks = {} /\ loops = <<>> /\ errors = 0 /\ seen = {} /\ IsFiniteSet({}) /\ Cardinality({}) = 0
  BY FS_EmptySet DEF DemuxInit
<1>2. \A i \in Call : Counted(i) = 0
  <2>1. \A i : HooksWith(i) = {} /\ LoopsWith(i) = {}
    BY <1>1 DEF HooksWith, LoopsWith
  <2> QED  BY <1>1, <2>1 DEF DemuxInit, Counted, HooksWith, LoopsWith
<1>3. loops \in Seq([lines : {}, claimed : BOOLEAN])
  BY <1>1
<1> QED  BY <1>1, <1>2, <1>3 DEF DemuxInit, DemuxInv, Claims

LEMMA ClaimedOnceMore ==
  ASSUME DemuxInv, NEW i, ClaimTool(i)
  PROVE  /\ errors' \in Nat
         /\ \A j : Claims(j)' >= Claims(j) /\ Claims(j)' \in Nat /\ Claims(j) \in Nat
         /\ Claims(i)' = Claims(i) + 1
BY DEF ClaimTool, Claims, DemuxInv

LEMMA HookStartsStep ==
  ASSUME DemuxInv, NEW i \in Call, NEW by \in {"daemon", "process"}, HookStarts(i, by)
  PROVE  DemuxInv'
<1> DEFINE h == [call |-> i, nth |-> delivered[i], by |-> by, claimed |-> FALSE]
<1>1. delivered' \in [Call -> Nat] /\ UNCHANGED <<loops, seen, routed, errors>>
  BY DEF HookStarts, DemuxInv
<1>2. h \in HookType /\ ~h.claimed
  BY DEF HookType, DemuxInv
<1>3. hooks' \in {hooks, hooks \cup {h}}
  BY DEF HookStarts
<1> HIDE DEF h
<1>4. hooks' \subseteq HookType /\ IsFiniteSet(hooks')
  BY <1>2, <1>3, FS_AddElement DEF DemuxInv
<1>5. \A j : HooksWith(j)' = HooksWith(j) /\ LoopsWith(j)' = LoopsWith(j)
  BY <1>1, <1>2, <1>3 DEF HooksWith, LoopsWith
<1>6. \A j : Counted(j)' = Counted(j) /\ Claims(j)' = Claims(j)
  BY <1>1, <1>5 DEF Counted, HooksWith, LoopsWith, Claims
<1> QED  BY <1>1, <1>4, <1>6 DEF DemuxInv

LEMMA HookResolvesStep ==
  ASSUME DemuxInv, NEW h \in hooks, HookResolves(h)
  PROVE  DemuxInv'
<1>1. h \in HookType /\ ~h.claimed /\ UNCHANGED <<loops, routed, delivered>>
  BY DEF HookResolves, DemuxInv
<1>2. \A j : LoopsWith(j)' = LoopsWith(j)
  BY <1>1 DEF LoopsWith
<1>3. CASE hooks' = hooks \ {h} /\ UNCHANGED <<seen, errors>>
  <2>1. \A j : HooksWith(j)' = HooksWith(j)
    BY <1>1, <1>3 DEF HooksWith
  <2>2. hooks' \subseteq HookType /\ IsFiniteSet(hooks')
    BY <1>3, FS_Subset DEF DemuxInv
  <2>3. \A j : Counted(j)' = Counted(j) /\ Claims(j)' = Claims(j)
    BY <1>1, <1>2, <1>3, <2>1 DEF Counted, HooksWith, LoopsWith, Claims
  <2> QED  BY <1>1, <1>3, <2>2, <2>3 DEF DemuxInv
<1>4. CASE ClaimTool(h.call) /\ hooks' = (hooks \ {h}) \cup {[h EXCEPT !.claimed = TRUE]}
  <2> DEFINE k == [h EXCEPT !.claimed = TRUE]
  <2>1. k \in HookType /\ k.claimed /\ k.call = h.call
    BY <1>1 DEF HookType
  <2> HIDE DEF k
  <2>2. hooks' = (hooks \ {h}) \cup {k}
    BY <1>4 DEF k
  <2>3. hooks' \subseteq HookType /\ IsFiniteSet(hooks')
    BY <2>1, <2>2, FS_Subset, FS_AddElement DEF DemuxInv
  <2>4. ASSUME NEW j \in Call
        PROVE  Counted(j)' <= Counted(j) + (IF j = h.call THEN 1 ELSE 0) /\ {Counted(j), Counted(j)'} \subseteq Nat
    <3> DEFINE added == IF j = h.call THEN HooksWith(j) \cup {k} ELSE HooksWith(j)
    <3>6. HooksWith(j)' = added
      BY <1>1, <2>1, <2>2 DEF HooksWith
    <3>1. PICK H, W : /\ H = HooksWith(j) /\ W = LoopsWith(j) /\ W = LoopsWith(j)'
                      /\ HooksWith(j)' = IF j = h.call THEN H \cup {k} ELSE H
      BY <1>2, <3>6
    <3>2. IsFiniteSet(H) /\ Cardinality(H) \in Nat /\ Cardinality(W) \in Nat
          /\ Counted(j) = routed[j] + Cardinality(H) + Cardinality(W)
      BY <3>1, DemuxFinite
    <3>3. Cardinality(H \cup {k}) \in {Cardinality(H), Cardinality(H) + 1}
      BY <3>2, FS_AddElement
    <3>4. Counted(j)' = routed[j] + Cardinality(IF j = h.call THEN H \cup {k} ELSE H) + Cardinality(W)
      BY <1>1, <3>1 DEF Counted, HooksWith, LoopsWith
    <3>5. routed[j] \in Nat
      BY DEF DemuxInv
    <3> QED  BY <3>2, <3>3, <3>4, <3>5
  <2>5. ASSUME NEW j \in Call PROVE Counted(j)' <= Claims(j)'
    <3>1. Claims(j)' >= Claims(j) /\ Claims(j)' \in Nat /\ Claims(j) \in Nat
          /\ (j = h.call => Claims(j)' = Claims(j) + 1)
      BY <1>4, ClaimedOnceMore
    <3>2. Counted(j) <= Claims(j)
      BY DEF DemuxInv
    <3> QED  BY <2>4, <3>1, <3>2
  <2>6. errors' \in Nat
    BY <1>4, ClaimedOnceMore
  <2> QED  BY <1>1, <2>3, <2>5, <2>6 DEF DemuxInv
<1> QED  BY <1>3, <1>4 DEF HookResolves

LEMMA HookHandledStep ==
  ASSUME DemuxInv, NEW h \in hooks, HookHandled(h)
  PROVE  DemuxInv'
<1>1. h \in HookType /\ h.claimed /\ hooks' = hooks \ {h} /\ UNCHANGED <<loops, seen, delivered, errors>>
      /\ routed' = [routed EXCEPT ![h.call] = @ + 1]
  BY DEF HookHandled, Count, DemuxInv
<1>2. hooks' \subseteq HookType /\ IsFiniteSet(hooks') /\ routed' \in [Call -> Nat]
  BY <1>1, FS_Subset DEF DemuxInv, HookType
<1>3. ASSUME NEW j \in Call PROVE Counted(j)' = Counted(j)
  <2>1. PICK H, W : H = HooksWith(j) /\ W = LoopsWith(j) /\ W = LoopsWith(j)'
    BY <1>1 DEF LoopsWith
  <2>2. IsFiniteSet(H) /\ Cardinality(H) \in Nat /\ Cardinality(W) \in Nat
        /\ Counted(j) = routed[j] + Cardinality(H) + Cardinality(W)
    BY <2>1, DemuxFinite
  <2>3. HooksWith(j)' = H \ {h} /\ (j = h.call <=> h \in H)
    BY <1>1, <2>1 DEF HooksWith
  <2>4. Counted(j)' = routed'[j] + Cardinality(H \ {h}) + Cardinality(W)
    BY <2>1, <2>3 DEF Counted, HooksWith, LoopsWith
  <2>5. routed[j] \in Nat /\ routed'[j] = routed[j] + (IF j = h.call THEN 1 ELSE 0)
    BY <1>1 DEF DemuxInv
  <2>6. CASE h \in H
    <3>1. Cardinality(H \ {h}) = Cardinality(H) - 1
      BY <2>2, <2>6, FS_RemoveElement
    <3> QED  BY <2>2, <2>3, <2>4, <2>5, <2>6, <3>1
  <2>7. CASE h \notin H
    <3>1. H \ {h} = H
      BY <2>7
    <3>2. Counted(j)' = routed'[j] + Cardinality(H) + Cardinality(W)
      BY <2>4, <3>1
    <3>3. routed'[j] = routed[j]
      BY <2>3, <2>5, <2>7
    <3> QED  BY <2>2, <3>2, <3>3
  <2> QED  BY <2>6, <2>7
<1>4. \A j \in Call : Claims(j)' = Claims(j)
  BY <1>1 DEF Claims
<1> QED  BY <1>1, <1>2, <1>3, <1>4 DEF DemuxInv

LEMMA RouteLineStep ==
  ASSUME DemuxInv, NEW l \in DOMAIN loops, RouteLine(l)
  PROVE  DemuxInv'
<1>1. ~loops[l].claimed /\ UNCHANGED <<hooks, routed, delivered>>
  BY DEF RouteLine
<1>2. \A j : HooksWith(j)' = HooksWith(j)
  BY <1>1 DEF HooksWith
<1>3. PICK i : i = Head(loops[l].lines)
  OBVIOUS
<1>4. CASE ClaimTool(i) /\ loops' = [loops EXCEPT ![l].claimed = TRUE]
  <2>1. PICK L : loops \in Seq([lines : L, claimed : BOOLEAN])
    BY DEF DemuxInv
  <2> DEFINE T == [lines : L, claimed : BOOLEAN]
  <2>2. l \in 1 .. Len(loops) /\ Len(loops) \in Nat /\ loops[l] \in T
    <3>1. loops \in Seq(T)
      BY <2>1
    <3> HIDE DEF T
    <3> QED  BY <3>1
  <2> DEFINE y == [loops[l] EXCEPT !.claimed = TRUE]
  <2>3. y \in T /\ y.claimed /\ y.lines = loops[l].lines
    BY <2>2
  <2>4. loops \in Seq(T) /\ loops' = [loops EXCEPT ![l] = y]
    BY <1>4, <2>1
  <2> HIDE DEF T, y
  <2>5. loops' \in Seq(T) /\ DOMAIN loops' = DOMAIN loops /\ loops'[l] = y
        /\ \A k \in DOMAIN loops \ {l} : loops'[k] = loops[k]
    BY <2>2, <2>3, <2>4
  <2>6. ASSUME NEW j \in Call
        PROVE  Counted(j)' <= Counted(j) + (IF j = i THEN 1 ELSE 0) /\ {Counted(j), Counted(j)'} \subseteq Nat
    <3> DEFINE added == IF j = i THEN LoopsWith(j) \cup {l} ELSE LoopsWith(j)
    <3>1. LoopsWith(j)' = added
      BY <1>1, <1>3, <2>3, <2>5 DEF LoopsWith
    <3>2. PICK H, W : /\ W = LoopsWith(j) /\ H = HooksWith(j) /\ H = HooksWith(j)'
                      /\ LoopsWith(j)' = IF j = i THEN W \cup {l} ELSE W
      BY <1>2, <3>1
    <3>3. IsFiniteSet(W) /\ Cardinality(H) \in Nat /\ Cardinality(W) \in Nat
          /\ Counted(j) = routed[j] + Cardinality(H) + Cardinality(W)
      BY <3>2, DemuxFinite
    <3>4. Cardinality(W \cup {l}) \in {Cardinality(W), Cardinality(W) + 1}
      BY <3>3, FS_AddElement
    <3>5. Counted(j)' = routed[j] + Cardinality(H) + Cardinality(IF j = i THEN W \cup {l} ELSE W)
      BY <1>1, <3>2 DEF Counted, HooksWith, LoopsWith
    <3>6. routed[j] \in Nat
      BY DEF DemuxInv
    <3> QED  BY <3>3, <3>4, <3>5, <3>6
  <2>7. ASSUME NEW j \in Call PROVE Counted(j)' <= Claims(j)'
    <3>1. Claims(j)' >= Claims(j) /\ Claims(j)' \in Nat /\ Claims(j) \in Nat
          /\ (j = i => Claims(j)' = Claims(j) + 1)
      BY <1>4, ClaimedOnceMore
    <3>2. Counted(j) <= Claims(j)
      BY DEF DemuxInv
    <3> QED  BY <2>6, <3>1, <3>2
  <2>8. \E M : loops' \in Seq([lines : M, claimed : BOOLEAN])
    BY <2>5 DEF T
  <2>9. errors' \in Nat
    BY <1>4, ClaimedOnceMore
  <2> QED  BY <1>1, <2>7, <2>8, <2>9 DEF DemuxInv
<1>5. CASE Drop(l) /\ UNCHANGED <<seen, errors>>
  <2>1. ASSUME NEW j \in Call PROVE Counted(j)' <= Counted(j) /\ {Counted(j), Counted(j)'} \subseteq Nat
    <3>1. PICK H, W, V : W = LoopsWith(j) /\ V = LoopsWith(j)' /\ H = HooksWith(j) /\ H = HooksWith(j)'
      BY <1>2
    <3>2. IsFiniteSet(W) /\ Cardinality(H) \in Nat /\ Cardinality(W) \in Nat
          /\ Counted(j) = routed[j] + Cardinality(H) + Cardinality(W)
      BY <3>1, DemuxFinite
    <3>3. W \ {l} = W
      BY <1>1, <3>1 DEF LoopsWith
    <3>4. Cardinality(V) \in Nat /\ Cardinality(V) <= Cardinality(W)
      BY <1>5, <3>1, <3>3, DropLoops
    <3>5. Counted(j)' = routed[j] + Cardinality(H) + Cardinality(V)
      BY <1>1, <3>1 DEF Counted, HooksWith, LoopsWith
    <3>6. routed[j] \in Nat
      BY DEF DemuxInv
    <3> QED  BY <3>2, <3>4, <3>5, <3>6
  <2>2. ASSUME NEW j \in Call PROVE Counted(j)' <= Claims(j)'
    <3>1. Claims(j)' = Claims(j) /\ Claims(j) \in Nat /\ Counted(j) <= Claims(j)
      BY <1>5 DEF Claims, DemuxInv
    <3> QED  BY <2>1, <3>1
  <2>3. \E M : loops' \in Seq([lines : M, claimed : BOOLEAN])
    BY <1>5, DropLoops
  <2> QED  BY <1>1, <1>5, <2>2, <2>3 DEF DemuxInv
<1> QED  BY <1>3, <1>4, <1>5 DEF RouteLine

LEMMA LineHandledStep ==
  ASSUME DemuxInv, NEW l \in DOMAIN loops, LineHandled(l)
  PROVE  DemuxInv'
<1>1. loops[l].claimed /\ Drop(l) /\ UNCHANGED <<seen, hooks, delivered, errors>>
      /\ routed' = [routed EXCEPT ![Head(loops[l].lines)] = @ + 1]
  BY DEF LineHandled, Count
<1>2. routed' \in [Call -> Nat]
  <2>1. PICK i : i = Head(loops[l].lines)
    OBVIOUS
  <2>2. routed \in [Call -> Nat] /\ routed' = [routed EXCEPT ![i] = @ + 1]
    BY <1>1, <2>1 DEF DemuxInv
  <2>3. CASE i \in Call
    BY <2>2, <2>3
  <2>4. CASE i \notin Call
    <3>1. DOMAIN routed' = Call /\ \A j \in Call : routed'[j] = routed[j]
      BY <2>2, <2>4
    <3>2. routed' = [j \in Call |-> routed'[j]]
      BY <2>2, <3>1
    <3> QED  BY <2>2, <3>1, <3>2
  <2> QED  BY <2>3, <2>4
<1>3. ASSUME NEW j \in Call PROVE Counted(j)' <= Counted(j) /\ {Counted(j), Counted(j)'} \subseteq Nat
  <2>1. PICK H, W, V : W = LoopsWith(j) /\ V = LoopsWith(j)' /\ H = HooksWith(j) /\ H = HooksWith(j)'
    BY <1>1 DEF HooksWith
  <2>2. IsFiniteSet(W) /\ Cardinality(H) \in Nat /\ Cardinality(W) \in Nat
        /\ Counted(j) = routed[j] + Cardinality(H) + Cardinality(W)
    BY <2>1, DemuxFinite
  <2>3. j = Head(loops[l].lines) <=> l \in W
    BY <1>1, <2>1 DEF LoopsWith
  <2>4. Cardinality(V) \in Nat /\ Cardinality(V) <= Cardinality(W \ {l})
    BY <1>1, <2>1, DropLoops
  <2>5. Counted(j)' = routed'[j] + Cardinality(H) + Cardinality(V)
    BY <2>1 DEF Counted, HooksWith, LoopsWith
  <2>6. routed[j] \in Nat /\ routed'[j] = routed[j] + (IF j = Head(loops[l].lines) THEN 1 ELSE 0)
    BY <1>1 DEF DemuxInv
  <2>7. CASE l \in W
    <3>1. Cardinality(W \ {l}) = Cardinality(W) - 1
      BY <2>2, <2>7, FS_RemoveElement
    <3> QED  BY <2>2, <2>3, <2>4, <2>5, <2>6, <2>7, <3>1
  <2>8. CASE l \notin W
    <3>1. W \ {l} = W
      BY <2>8
    <3> QED  BY <2>2, <2>3, <2>4, <2>5, <2>6, <2>8, <3>1
  <2> QED  BY <2>7, <2>8
<1>4. ASSUME NEW j \in Call PROVE Counted(j)' <= Claims(j)'
  <2>1. Claims(j)' = Claims(j) /\ Claims(j) \in Nat /\ Counted(j) <= Claims(j)
    BY <1>1 DEF Claims, DemuxInv
  <2> QED  BY <1>3, <2>1
<1>5. \E M : loops' \in Seq([lines : M, claimed : BOOLEAN])
  BY <1>1, DropLoops
<1> QED  BY <1>1, <1>2, <1>4, <1>5 DEF DemuxInv

LEMMA TickStep ==
  ASSUME DemuxInv, Tick
  PROVE  DemuxInv'
<1> DEFINE y == [lines |-> WholeLines(tailer.offset), claimed |-> FALSE]
<1>1. loops' \in {loops, Append(loops, y)} /\ UNCHANGED <<seen, hooks, routed, delivered, errors>>
  BY DEF Tick, capture
<1>2. PICK L : loops \in Seq([lines : L, claimed : BOOLEAN])
  BY DEF DemuxInv
<1> DEFINE T == [lines : L \cup {WholeLines(tailer.offset)}, claimed : BOOLEAN]
<1>3. y \in T /\ ~y.claimed /\ [lines : L, claimed : BOOLEAN] \subseteq T
  OBVIOUS
<1>4. loops \in Seq(T)
  <2> DEFINE U == [lines : L, claimed : BOOLEAN]
  <2>1. loops \in Seq(U) /\ U \subseteq T
    BY <1>2, <1>3
  <2> HIDE DEF U, T
  <2> QED  BY <2>1
<1> HIDE DEF T, y
<1>5. loops' \in Seq(T)
  BY <1>1, <1>3, <1>4
<1>6. \A j : LoopsWith(j)' = LoopsWith(j)
  <2>1. CASE loops' = Append(loops, y)
    <3>1. DOMAIN loops' = DOMAIN loops \cup {Len(loops) + 1} /\ loops'[Len(loops) + 1] = y
          /\ \A k \in DOMAIN loops : loops'[k] = loops[k]
      BY <1>3, <1>4, <2>1
    <3> QED  BY <1>3, <3>1 DEF LoopsWith
  <2>2. CASE loops' = loops
    BY <2>2 DEF LoopsWith
  <2> QED  BY <1>1, <2>1, <2>2
<1>7. \A j \in Call : Counted(j)' = Counted(j) /\ Claims(j)' = Claims(j)
  BY <1>1, <1>6 DEF Counted, HooksWith, LoopsWith, Claims
<1>8. \E M : loops' \in Seq([lines : M, claimed : BOOLEAN])
  BY <1>5 DEF T
<1> QED  BY <1>1, <1>7, <1>8 DEF DemuxInv

LEMMA DaemonCrashStep ==
  ASSUME DemuxInv, DaemonCrash
  PROVE  DemuxInv'
<1>1. hooks' \subseteq hooks /\ loops' = <<>> /\ UNCHANGED <<seen, routed, delivered, errors>>
  BY DEF DaemonCrash
<1>2. hooks' \subseteq HookType /\ IsFiniteSet(hooks')
  BY <1>1, FS_Subset DEF DemuxInv
<1>3. ASSUME NEW j \in Call PROVE Counted(j)' <= Counted(j) /\ {Counted(j), Counted(j)'} \subseteq Nat
  <2>6. HooksWith(j)' \subseteq HooksWith(j)
    BY <1>1 DEF HooksWith
  <2>7. LoopsWith(j)' = {}
    BY <1>1 DEF LoopsWith
  <2>1. PICK H, G, W : /\ H = HooksWith(j) /\ G = HooksWith(j)' /\ G \subseteq H
                       /\ W = LoopsWith(j) /\ LoopsWith(j)' = {}
    BY <2>6, <2>7
  <2>2. IsFiniteSet(H) /\ Cardinality(H) \in Nat /\ Cardinality(W) \in Nat
        /\ Counted(j) = routed[j] + Cardinality(H) + Cardinality(W)
    BY <2>1, DemuxFinite
  <2>3. Cardinality(G) \in Nat /\ Cardinality(G) <= Cardinality(H)
    BY <2>1, <2>2, FS_Subset, FS_CardinalityType
  <2>4. Counted(j)' = routed[j] + Cardinality(G) + Cardinality({})
    BY <1>1, <2>1 DEF Counted, HooksWith, LoopsWith
  <2>5. routed[j] \in Nat
    BY DEF DemuxInv
  <2> QED  BY <2>2, <2>3, <2>4, <2>5, FS_EmptySet
<1>4. ASSUME NEW j \in Call PROVE Counted(j)' <= Claims(j)'
  <2>1. Claims(j)' = Claims(j) /\ Claims(j) \in Nat /\ Counted(j) <= Claims(j)
    BY <1>1 DEF Claims, DemuxInv
  <2> QED  BY <1>3, <2>1
<1>5. loops' \in Seq([lines : {}, claimed : BOOLEAN])
  BY <1>1
<1> QED  BY <1>1, <1>2, <1>4, <1>5 DEF DemuxInv

LEMMA DemuxStep == DemuxInv /\ [DemuxNext]_demux => DemuxInv'
<1> SUFFICES ASSUME DemuxInv, [DemuxNext]_demux PROVE DemuxInv'
  OBVIOUS
<1>1. ASSUME NEW n \in 1 .. 2, AppendBytes(n) PROVE DemuxInv'
  BY <1>1, NothingCounted DEF AppendBytes, capture, DemuxInv
<1>2. ASSUME NEW i \in Call, NEW by \in {"daemon", "process"}, HookStarts(i, by) PROVE DemuxInv'
  BY <1>2, HookStartsStep
<1>3. ASSUME NEW h \in hooks, HookResolves(h) \/ HookHandled(h) PROVE DemuxInv'
  BY <1>3, HookResolvesStep, HookHandledStep
<1>4. CASE FirstSight
  BY <1>4, NothingCounted DEF FirstSight, capture, DemuxInv
<1>5. CASE Tick
  BY <1>5, TickStep
<1>6. ASSUME NEW l \in DOMAIN loops, RouteLine(l) \/ LineHandled(l) PROVE DemuxInv'
  BY <1>6, RouteLineStep, LineHandledStep
<1>7. CASE DaemonCrash
  BY <1>7, DaemonCrashStep
<1>8. CASE DaysPass
  BY <1>8, NothingCounted DEF DaysPass, capture, DemuxInv
<1>9. CASE UNCHANGED demux
  BY <1>9, NothingCounted DEF demux, capture, DemuxInv
<1> QED  BY <1>1, <1>2, <1>3, <1>4, <1>5, <1>6, <1>7, <1>8, <1>9 DEF DemuxNext

(* However often a call is delivered, by whomever, and whatever the tailer   *)
(* reads again after a torn line or a crash, its outcome is counted once,    *)
(* and once more for each claim the database refused (claimTool).            *)
THEOREM OutcomesCountOnce == DemuxSpec => []RoutedOnce
<1>1. DemuxInv => RoutedOnce
  <2> SUFFICES ASSUME DemuxInv, NEW j \in Call PROVE Counted(j) <= 1 + errors
    BY DEF RoutedOnce
  <2>1. Counted(j) <= Claims(j) /\ errors \in Nat /\ routed[j] \in Nat
    BY DEF DemuxInv
  <2>2. Counted(j) \in Nat
    BY <2>1, DemuxFinite
  <2> QED  BY <2>1, <2>2 DEF Claims
<1> QED  BY <1>1, DemuxStarts, DemuxStep, PTL DEF DemuxSpec
=============================================================================
