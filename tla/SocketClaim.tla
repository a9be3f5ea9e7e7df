----------------------------- MODULE SocketClaim -----------------------------
(***************************************************************************)
(* Who serves the shared hook socket.  Every client's MCP server and the   *)
(* daemon run startHookSocket: probe the socket, look at the pid file,     *)
(* clear both, create the pid file exclusively, bind, verify, refresh.     *)
(* Each step is one system call, and those of the other processes come in  *)
(* between: starts, exits, crashes at any point, owners too slow to answer *)
(* a probe, and processes that come back under the pid they had before.    *)
(***************************************************************************)
CONSTANTS
  Process,   \* pids
  Daemon,    \* the processes that retry until they serve
  Overlap,   \* whether two calls of startHookSocket may overlap
  Nil

ASSUME ClaimAssumption ==
  Daemon \subseteq Process /\ Overlap \in BOOLEAN /\ Nil \notin Process

VARIABLES
  at,        \* where each process is
  seen,      \* the pid it read from the pid file
  leaving,   \* the processes that are exiting
  sock,      \* who bound the socket file, Nil if there is none
  pidFile    \* the pid in the pid file, Nil if there is none

vars == <<at, seen, leaving, sock, pidFile>>

Claiming == {"probe", "readPid", "checkAlive", "unlinkSocket", "unlinkPid", "createPid",
             "bind", "verify", "refresh"}
Releasing == {"releaseRead", "releaseSocket", "releasePid"}

Alive(p) == at[p] # "down"
Listening(p) == at[p] \in {"verify", "refresh", "serving"}

\* A start ends when startHookSocket returns, its own release included.
Starting(p) == at[p] \in Claiming \/ (at[p] \in Releasing /\ p \notin leaving)

Init ==
  /\ at = [p \in Process |-> "down"]
  /\ seen = [p \in Process |-> Nil]
  /\ leaving = {}
  /\ sock = Nil
  /\ pidFile = Nil

-----------------------------------------------------------------------------

Move(p, from, to) == at[p] = from /\ at' = [at EXCEPT ![p] = to]

MayStart == Overlap \/ \A q \in Process : ~Starting(q)

\* An MCP server starts, or the daemon.
Start(p) ==
  /\ MayStart
  /\ Move(p, "down", "probe")
  /\ UNCHANGED <<seen, leaving, sock, pidFile>>

\* Only the daemon tries again.
Retry(p) ==
  /\ p \in Daemon
  /\ MayStart
  /\ Move(p, "sharing", "probe")
  /\ UNCHANGED <<seen, leaving, sock, pidFile>>

\* GET /health: a live answer means share; no answer may also be a timeout.
Probe(p) ==
  /\ \/ sock # Nil /\ Listening(sock) /\ Move(p, "probe", "sharing")
     \/ Move(p, "probe", "readPid")
  /\ UNCHANGED <<seen, leaving, sock, pidFile>>

ReadPid(p) ==
  /\ Move(p, "readPid", "checkAlive")
  /\ seen' = [seen EXCEPT ![p] = pidFile]
  /\ UNCHANGED <<leaving, sock, pidFile>>

\* Fault: any pid file is taken for a stale one.
NobodyForeign(p) == FALSE

\* Fault: any pid file is respected, also one's own and a dead process's.
AnyClaimant(p) == seen[p] # Nil

\* The pid file names a live foreign process.
LiveClaimant(p) == seen[p] \notin {Nil, p} /\ Alive(seen[p])

CheckAlive(p) ==
  /\ Move(p, "checkAlive", IF LiveClaimant(p) THEN "sharing" ELSE "unlinkSocket")
  /\ UNCHANGED <<seen, leaving, sock, pidFile>>

UnlinkSocket(p) ==
  /\ Move(p, "unlinkSocket", "unlinkPid")
  /\ sock' = Nil
  /\ UNCHANGED <<seen, leaving, pidFile>>

UnlinkPid(p) ==
  /\ Move(p, "unlinkPid", "createPid")
  /\ pidFile' = Nil
  /\ UNCHANGED <<seen, leaving, sock>>

\* The exclusive create; losing it means sharing.
CreatePid(p) ==
  /\ IF pidFile = Nil
     THEN Move(p, "createPid", "bind") /\ pidFile' = p
     ELSE Move(p, "createPid", "sharing") /\ UNCHANGED pidFile
  /\ UNCHANGED <<seen, leaving, sock>>

BindSocket(p) ==
  /\ Move(p, "bind", "verify")
  /\ sock = Nil
  /\ sock' = p
  /\ UNCHANGED <<seen, leaving, pidFile>>

\* The path is taken, or any other error of listen.
BindFails(p) == Move(p, "bind", "releaseRead") /\ UNCHANGED <<seen, leaving, sock, pidFile>>

\* The file at the path is owner-only, whoever bound it.
Secured(p) ==
  Move(p, "verify", "refresh") /\ sock # Nil /\ UNCHANGED <<seen, leaving, sock, pidFile>>

\* Not provably owner-only: closing the server unlinks the path.
NotSecured(p) ==
  /\ Move(p, "verify", "releaseRead")
  /\ sock' = Nil
  /\ UNCHANGED <<seen, leaving, pidFile>>

RefreshClaim(p) ==
  /\ Move(p, "refresh", "serving")
  /\ pidFile' = p
  /\ UNCHANGED <<seen, leaving, sock>>

\* A signal or the end of the session.  The daemon closes its server first.
Stop(p) ==
  /\ Move(p, "serving", "releaseRead")
  /\ leaving' = leaving \cup {p}
  /\ sock' = IF p \in Daemon THEN Nil ELSE sock
  /\ UNCHANGED <<seen, pidFile>>

Released(p) == IF p \in leaving THEN "down" ELSE "sharing"

\* releaseSocketClaim, guarded on the content of the pid file.
ReleaseRead(p) ==
  /\ Move(p, "releaseRead", IF pidFile = p THEN "releaseSocket" ELSE Released(p))
  /\ leaving' = IF pidFile = p THEN leaving ELSE leaving \ {p}
  /\ UNCHANGED <<seen, sock, pidFile>>

ReleaseSocket(p) ==
  /\ Move(p, "releaseSocket", "releasePid")
  /\ sock' = Nil
  /\ UNCHANGED <<seen, leaving, pidFile>>

ReleasePid(p) ==
  /\ Move(p, "releasePid", Released(p))
  /\ pidFile' = Nil
  /\ leaving' = leaving \ {p}
  /\ UNCHANGED <<seen, sock>>

\* The end of a process that runs no exit handler, or has nothing to release.
Crash(p) ==
  /\ Alive(p)
  /\ at' = [at EXCEPT ![p] = "down"]
  /\ leaving' = leaving \ {p}
  /\ UNCHANGED <<seen, sock, pidFile>>

Acquire(p) ==
  \/ Probe(p) \/ ReadPid(p) \/ CheckAlive(p) \/ UnlinkSocket(p) \/ UnlinkPid(p) \/ CreatePid(p)

Bring(p) == BindSocket(p) \/ BindFails(p) \/ Secured(p) \/ NotSecured(p) \/ RefreshClaim(p)

Release(p) == ReleaseRead(p) \/ ReleaseSocket(p) \/ ReleasePid(p)

Next ==
  \E p \in Process :
    Start(p) \/ Retry(p) \/ Acquire(p) \/ Bring(p) \/ Stop(p) \/ Release(p) \/ Crash(p)

Spec == Init /\ [][Next]_vars

\* A process that runs goes on; the daemon's timer fires, and a bind that can
\* succeed again and again is not refused for ever.
FairSpec ==
  /\ Spec
  /\ \A p \in Process : WF_vars(Acquire(p) \/ Bring(p) \/ Release(p))
  /\ \A d \in Daemon : SF_vars(Retry(d)) /\ SF_vars(BindSocket(d)) /\ SF_vars(Secured(d))

-----------------------------------------------------------------------------

TypeOK ==
  /\ at \in [Process -> Claiming \cup Releasing \cup {"down", "sharing", "serving"}]
  /\ seen \in [Process -> Process \cup {Nil}]
  /\ leaving \subseteq {p \in Process : at[p] \in Releasing}
  /\ sock \in Process \cup {Nil}
  /\ pidFile \in Process \cup {Nil}

(* "Exactly one process may serve at a time" (socket-ownership.ts): no two   *)
(* processes listen, the orphan whose socket file is gone included.          *)
OneServes == \A p, q \in Process : Listening(p) /\ Listening(q) => p = q

(* Live owners are never displaced, and an exiting owner never deletes its   *)
(* successor's claim: who has claimed keeps the pid file, and who listens    *)
(* the socket file, through the exits and failed starts of all others.       *)
ClaimIsKept ==
  \A p \in Process :
    /\ at[p] \in {"bind", "verify", "refresh", "serving"} => pidFile = p
    /\ Listening(p) => sock = p

(* The files of a dead owner block nobody for ever: while a daemon runs, the *)
(* socket is served in the end, by it or by another process.                 *)
SocketGetsServed ==
  \A d \in Daemon :
    Alive(d) ~> (~Alive(d) \/ \E p \in Process : at[p] = "serving" /\ sock = p)
=============================================================================
