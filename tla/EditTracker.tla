---------------------------- MODULE EditTracker ----------------------------
(***************************************************************************)
(* The tracker of one session: a file that short-lived hooks read, change  *)
(* and replace, some of them under a lock directory that is stolen when it *)
(* looks old and gone without when it takes too long, and a copy of it in  *)
(* the daemon, which is flushed over the file.                             *)
(*                                                                         *)
(* Every writer makes one change, its mark.  The file is replaced whole,   *)
(* so a writer that did not see a mark drops it.                           *)
(***************************************************************************)
EXTENDS FiniteSets

CONSTANTS
  Locked,     \* hooks that go through updateTracker
  Unlocked,   \* hooks that load and save
  Served,     \* hooks the daemon answers
  Daemon,     \* the daemon, as a writer
  Nil,
  CanGiveUp,  \* whether a hook may wait for TRACKER_LOCK_MAX_WAIT_MS
  CanBeSlow   \* whether a live holder may outlast TRACKER_LOCK_STALE_MS

ASSUME TrackerAssumption ==
  /\ {CanGiveUp, CanBeSlow} \subseteq BOOLEAN
  /\ Daemon \notin Locked \cup Unlocked /\ Locked \cap Unlocked = {}
  /\ Nil \notin Locked \cup Unlocked \cup {Daemon} \cup [of : Locked, old : BOOLEAN]

Hook == Locked \cup Unlocked

VARIABLES
  file,    \* the tracker on disk, or Nil
  lock,    \* the lock directory: who made it and whether it is old, or Nil
  pc,      \* where each hook process stands
  local,   \* the tracker a hook process, or the daemon's Stop, has loaded
  held,    \* what acquireTrackerLock answered
  copy,    \* the daemon's tracker of the session, or Nil
  dirty,   \* the copy has changed since it was flushed
  at,      \* what the daemon is in the middle of, or off
  \* Ghosts.
  owed,    \* the last Stop left a nudge that no prompt has read yet
  writer,  \* who wrote the file last
  open,    \* hooks that went on without the lock
  robbed,  \* hooks whose lock somebody else removed
  aged     \* whether a lock has ever been old

daemon == <<copy, dirty, at, owed>>
locking == <<lock, held, open, robbed, aged>>
vars == <<file, pc, local, daemon, writer, locking>>

Tracker == [marks : SUBSET (Hook \cup Served), nudge : BOOLEAN]

Default == [marks |-> {}, nudge |-> FALSE]

-----------------------------------------------------------------------------
(* The file.                                                               *)

\* What loadTracker returns.
OnDisk == IF file = Nil THEN Default ELSE file

\* saveTracker by v: an atomic replacement.
Saved(v, t) == file' = t /\ writer' = v

Mark(t, h) == [t EXCEPT !.marks = @ \cup {h}]

\* deleteTracker of the session's end, and the cleaning of orphans.
DeleteTracker ==
  /\ file # Nil /\ file' = Nil /\ owed' = FALSE
  /\ UNCHANGED <<pc, local, copy, dirty, at, writer, locking>>

-----------------------------------------------------------------------------
(* A hook in a process of its own.                                         *)

Goes(p, to) == pc' = [pc EXCEPT ![p] = to]

Start(p) ==
  /\ pc[p] = "idle" /\ Goes(p, IF p \in Locked THEN "acquire" ELSE "load")
  /\ UNCHANGED <<file, local, daemon, writer, locking>>

Mkdir(p) ==
  /\ pc[p] = "acquire" /\ lock = Nil
  /\ lock' = [of |-> p, old |-> FALSE] /\ held' = [held EXCEPT ![p] = TRUE]
  /\ Goes(p, "load")
  /\ UNCHANGED <<file, local, daemon, writer, open, robbed, aged>>

\* The lock is there and its age is beyond the limit; if it is not, sleep.
StatOld(p) ==
  /\ pc[p] = "acquire" /\ lock # Nil /\ lock.old
  /\ Goes(p, "steal")
  /\ UNCHANGED <<file, local, daemon, writer, locking>>

\* rmdir takes whatever lock is at the path.
Removes(p) ==
  /\ lock' = Nil
  /\ robbed' = IF lock # Nil /\ lock.of # p THEN robbed \cup {lock.of} ELSE robbed

Rmdir(p) ==
  /\ pc[p] = "steal" /\ Removes(p) /\ Goes(p, "acquire")
  /\ UNCHANGED <<file, local, daemon, writer, held, open, aged>>

\* Fault: a hook waits for as long as it takes.
NeverGiveUp(p) == FALSE /\ UNCHANGED vars

GiveUp(p) ==
  /\ CanGiveUp /\ pc[p] = "acquire"
  /\ open' = open \cup {p} /\ Goes(p, "load")
  /\ UNCHANGED <<file, local, daemon, writer, lock, held, robbed, aged>>

Load(p) ==
  /\ pc[p] = "load" /\ local' = [local EXCEPT ![p] = OnDisk] /\ Goes(p, "save")
  /\ UNCHANGED <<file, daemon, writer, locking>>

\* Fault: the tracker was read before the lock was taken.
SaveFirstRead(p) ==
  /\ pc[p] = "save" /\ Saved(p, Mark(Default, p)) /\ Goes(p, IF p \in Locked THEN "release" ELSE "done")
  /\ local' = [local EXCEPT ![p] = Nil]
  /\ UNCHANGED <<daemon, locking>>

Save(p) ==
  /\ pc[p] = "save" /\ Saved(p, Mark(local[p], p)) /\ Goes(p, IF p \in Locked THEN "release" ELSE "done")
  /\ local' = [local EXCEPT ![p] = Nil]
  /\ UNCHANGED <<daemon, locking>>

\* Fault: a hook that went without the lock removes one.
ReleaseAny(p) ==
  /\ pc[p] = "release" /\ Goes(p, "done") /\ held' = [held EXCEPT ![p] = FALSE]
  /\ Removes(p)
  /\ UNCHANGED <<file, local, daemon, writer, open, aged>>

Release(p) ==
  /\ pc[p] = "release" /\ Goes(p, "done") /\ held' = [held EXCEPT ![p] = FALSE]
  /\ IF held[p] THEN Removes(p) ELSE UNCHANGED <<lock, robbed>>
  /\ UNCHANGED <<file, local, daemon, writer, open, aged>>

Crash(p) ==
  /\ pc[p] \notin {"idle", "done", "crashed"} /\ Goes(p, "crashed")
  /\ held' = [held EXCEPT ![p] = FALSE] /\ local' = [local EXCEPT ![p] = Nil]
  /\ UNCHANGED <<file, daemon, writer, lock, open, robbed, aged>>

\* Time: the lock is older than TRACKER_LOCK_STALE_MS by now.
Age ==
  /\ lock # Nil /\ ~lock.old /\ (CanBeSlow \/ pc[lock.of] = "crashed")
  /\ lock' = [lock EXCEPT !.old = TRUE] /\ aged' = TRUE
  /\ UNCHANGED <<file, pc, local, daemon, writer, held, open, robbed>>

-----------------------------------------------------------------------------
(* The daemon.                                                             *)

Copy == IF copy = Nil THEN OnDisk ELSE copy

\* A handler other than Stop and the prompt: setTracker.
Track(h) ==
  /\ at = "idle" /\ h \notin Copy.marks
  /\ copy' = Mark(Copy, h) /\ dirty' = TRUE
  /\ UNCHANGED <<file, pc, local, at, owed, writer, locking>>

\* Stop finds nothing to store: the nudge goes into the file.
StopLoad ==
  /\ at = "idle" /\ at' = "stop" /\ local' = [local EXCEPT ![Daemon] = OnDisk]
  /\ UNCHANGED <<file, pc, copy, dirty, owed, writer, locking>>

StopSave ==
  /\ at = "stop" /\ at' = "flush"
  /\ Saved(Daemon, [local[Daemon] EXCEPT !.nudge = TRUE]) /\ owed' = TRUE
  /\ local' = [local EXCEPT ![Daemon] = Nil]
  /\ UNCHANGED <<pc, copy, dirty, locking>>

\* flushDirtyTrackers: at the end of Stop, from its timer and before the exit.
Flush ==
  /\ at \in {"idle", "flush"} /\ at' = "idle" /\ dirty' = FALSE
  /\ IF dirty THEN Saved(Daemon, copy) ELSE at = "flush" /\ UNCHANGED <<file, writer>>
  /\ UNCHANGED <<pc, local, copy, owed, locking>>

\* The prompt handler emits the nudge, clears it and keeps the tracker.
Prompt ==
  /\ at = "idle"
  /\ copy' = [Copy EXCEPT !.nudge = FALSE] /\ dirty' = TRUE /\ owed' = FALSE
  /\ UNCHANGED <<file, pc, local, at, writer, locking>>

DaemonEnds ==
  /\ copy' = Nil /\ dirty' = FALSE /\ at' = "idle" /\ (copy # Nil \/ at \in {"stop", "flush"})
  /\ local' = [local EXCEPT ![Daemon] = Nil]
  /\ UNCHANGED <<file, pc, owed, writer, locking>>

-----------------------------------------------------------------------------

Init ==
  /\ file = Nil /\ lock = Nil /\ copy = Nil /\ dirty = FALSE /\ owed = FALSE
  /\ at = IF Served = {} THEN "off" ELSE "idle"
  /\ pc = [p \in Hook |-> "idle"] /\ held = [p \in Hook |-> FALSE]
  /\ local = [p \in Hook \cup {Daemon} |-> Nil]
  /\ writer = Nil /\ open = {} /\ robbed = {} /\ aged = FALSE

Step(p) ==
  Mkdir(p) \/ StatOld(p) \/ Rmdir(p) \/ GiveUp(p) \/ Load(p) \/ Save(p) \/ Release(p)

Next ==
  \/ \E p \in Hook : Start(p) \/ Step(p) \/ Crash(p)
  \/ Age \/ DeleteTracker
  \/ \E h \in Served : Track(h)
  \/ StopLoad \/ StopSave \/ Flush \/ Prompt \/ DaemonEnds

\* A process goes on, and its deadline comes.
Fairness == \A p \in Hook : WF_vars(Step(p)) /\ SF_vars(GiveUp(p))

Spec == Init /\ [][Next]_vars
FairSpec == Spec /\ Fairness
-----------------------------------------------------------------------------

(* Every variable has its type; a hook holds the lock from its mkdir to its  *)
(* release only.                                                             *)
TypeOK ==
  /\ file \in Tracker \cup {Nil} /\ copy \in Tracker \cup {Nil}
  /\ lock \in [of : Locked, old : BOOLEAN] \cup {Nil}
  /\ pc \in [Hook -> {"idle", "acquire", "steal", "load", "save", "release", "done", "crashed"}]
  /\ local \in [Hook \cup {Daemon} -> Tracker \cup {Nil}]
  /\ \A p \in Hook : /\ held[p] => pc[p] \in {"load", "save", "release"}
                     /\ local[p] # Nil <=> pc[p] = "save"
  /\ open \subseteq Locked /\ robbed \subseteq Locked

Alone(p) == p \in Locked \ (open \cup robbed)

DropsAMark == file' # Nil /\ ~(OnDisk.marks \subseteq file'.marks)

(* A save drops the change of another hook only when one of the two is not    *)
(* under the lock: it does not use it, it gave up waiting, or its lock was    *)
(* removed by somebody else (edit-tracker.ts, updateTracker).                 *)
LossNeedsACause == [][DropsAMark => ~(Alone(writer) /\ Alone(writer'))]_vars

(* As long as no lock has been older than the limit, nobody's lock is removed *)
(* by another, a hook that gave up waiting included.                          *)
FreshLocksAreKept == robbed # {} => aged

(* A hook ends, whoever holds the lock, holds it for ever or steals it: hooks *)
(* must never hang the client.                                                *)
EveryHookEnds == \A p \in Hook : pc[p] = "acquire" ~> pc[p] \in {"done", "crashed"}
=============================================================================
