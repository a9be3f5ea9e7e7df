-------------------------- MODULE SocketClaimProofs --------------------------
(***************************************************************************)
(* Proofs about the claim protocol, for any number of processes whose      *)
(* starts do not overlap.  The idea: from the exclusive create to the end  *)
(* of its release a process holds the pid file, and a process that is      *)
(* about to clear the files has seen that nobody holds it.  Only a process *)
(* that is starting may come to hold it, and there is one at a time.       *)
(*                                                                         *)
(* Then about what goes by the socket.  The relays: the counts of handlers *)
(* begun and ended are those that the ends of the attempts account for.    *)
(* And the wiring of the clients' hooks (CodexTrust, ClientInit), which    *)
(* init writes one file at a time: an approval given under the shadow is   *)
(* of the command that the shadow attests, and between its writes init     *)
(* leaves it only where it changes nothing (TrustInv); what a run writes   *)
(* and removes is what it planned from what it had read (WireInv).         *)
(***************************************************************************)
EXTENDS SocketClaim, HookRelay, CodexTrust, ClientInit,
        FiniteSetTheorems, SequenceTheorems, TLAPS

Holder(p) == at[p] \in {"bind", "verify", "refresh", "serving"} \cup Releasing
Clearing(p) == at[p] \in {"unlinkSocket", "unlinkPid", "createPid"}

OneStarts == \A p, q \in Process : Starting(p) /\ Starting(q) => p = q
HoldersOwnPidFile == \A p \in Process : Holder(p) => pidFile = p
ListenersOwnSocket == \A p \in Process : Listening(p) => sock = p
HolderWasSeen ==
  \A p, q \in Process : at[p] = "checkAlive" /\ Holder(q) => seen[p] = q
NobodyHolds == \A p, q \in Process : Clearing(p) => ~Holder(q)

ClaimInv ==
  TypeOK /\ OneStarts /\ HoldersOwnPidFile /\ ListenersOwnSocket /\ HolderWasSeen /\ NobodyHolds

(* What a move of one process does to the table of processes. *)
LEMMA Moved ==
  ASSUME TypeOK, NEW p \in Process, NEW from, NEW to, Move(p, from, to)
  PROVE  /\ at[p] = from /\ at'[p] = to
         /\ \A q \in Process : q # p => at'[q] = at[q]
BY DEF Move, TypeOK

-----------------------------------------------------------------------------
LEMMA TypeInit == Init => TypeOK
BY DEF Init, TypeOK

LEMMA TypeStep == TypeOK /\ [Next]_vars => TypeOK'
<1> SUFFICES ASSUME TypeOK, [Next]_vars
             PROVE  TypeOK'
  OBVIOUS
<1> USE DEF TypeOK, Claiming, Releasing, Move
<1>1. ASSUME NEW p \in Process, Start(p) \/ Retry(p)
      PROVE  TypeOK'
  BY <1>1 DEF Start, Retry
<1>2. ASSUME NEW p \in Process, Probe(p) \/ ReadPid(p) \/ CheckAlive(p)
      PROVE  TypeOK'
  BY <1>2 DEF Probe, ReadPid, CheckAlive
<1>3. ASSUME NEW p \in Process, UnlinkSocket(p) \/ UnlinkPid(p) \/ CreatePid(p)
      PROVE  TypeOK'
  BY <1>3 DEF UnlinkSocket, UnlinkPid, CreatePid
<1>4. ASSUME NEW p \in Process, Bring(p)
      PROVE  TypeOK'
  BY <1>4 DEF Bring, BindSocket, BindFails, Secured, NotSecured, RefreshClaim
<1>5. ASSUME NEW p \in Process, Stop(p)
      PROVE  TypeOK'
  BY <1>5 DEF Stop
<1>6. ASSUME NEW p \in Process, Release(p)
      PROVE  TypeOK'
  BY <1>6 DEF Release, ReleaseRead, ReleaseSocket, ReleasePid, Released
<1>7. ASSUME NEW p \in Process, Crash(p)
      PROVE  TypeOK'
  BY <1>7 DEF Crash, Alive
<1>8. CASE UNCHANGED vars
  BY <1>8 DEF vars
<1> QED BY <1>1, <1>2, <1>3, <1>4, <1>5, <1>6, <1>7, <1>8 DEF Next, Acquire

(* Every process is at a step of the protocol, the files name processes, and *)
(* only a process that releases its claim is leaving (startHookSocket).      *)
THEOREM ClaimTypeCorrect == Spec => []TypeOK
BY TypeInit, TypeStep, PTL DEF Spec

-----------------------------------------------------------------------------
LEMMA ClaimInit == Init => ClaimInv
BY TypeInit DEF Init, ClaimInv, OneStarts, HoldersOwnPidFile, ListenersOwnSocket, HolderWasSeen,
   NobodyHolds, Starting, Holder, Listening, Clearing, Claiming, Releasing

(* A move that begins no start and reaches no file. *)
LEMMA QuietMove ==
  ASSUME ClaimInv, TypeOK', NEW p \in Process, NEW from, NEW to, Move(p, from, to),
         UNCHANGED <<seen, sock, pidFile>>,
         Starting(p)' => Starting(p),
         \A q \in Process : q # p => (q \in leaving' <=> q \in leaving),
         Holder(p)' => Holder(p),
         Listening(p)' => Listening(p),
         to # "checkAlive",
         Clearing(p)' => Clearing(p) \/ \A q \in Process : ~Holder(q)
  PROVE  ClaimInv'
<1>1. /\ at[p] = from /\ at'[p] = to
      /\ \A q \in Process : q # p => at'[q] = at[q]
  BY Moved DEF ClaimInv
<1>2. \A q \in Process : Starting(q)' => Starting(q)
  BY <1>1 DEF Starting
<1>3. \A q \in Process : Holder(q)' => Holder(q)
  BY <1>1 DEF Holder
<1>4. \A q \in Process : Listening(q)' => Listening(q)
  BY <1>1 DEF Listening
<1>5. OneStarts'
  BY <1>2 DEF ClaimInv, OneStarts
<1>6. HoldersOwnPidFile' /\ ListenersOwnSocket'
  BY <1>3, <1>4 DEF ClaimInv, HoldersOwnPidFile, ListenersOwnSocket
<1>7. HolderWasSeen'
  BY <1>1, <1>3 DEF ClaimInv, HolderWasSeen
<1>8. NobodyHolds'
  BY <1>1, <1>3 DEF ClaimInv, NobodyHolds, Clearing
<1> QED BY <1>5, <1>6, <1>7, <1>8 DEF ClaimInv

LEMMA ClaimStep == ASSUME Overlap = FALSE, ClaimInv, [Next]_vars PROVE ClaimInv'
<1>0. TypeOK /\ TypeOK'
  BY TypeStep DEF ClaimInv
<1> USE DEF Claiming, Releasing
<1>1. ASSUME NEW p \in Process, Start(p) \/ Retry(p)
      PROVE  ClaimInv'
  <2>1. PICK from : Move(p, from, "probe") /\ from \in {"down", "sharing"}
    BY <1>1 DEF Start, Retry
  <2>2. /\ \A q \in Process : ~Starting(q)
        /\ UNCHANGED <<seen, leaving, sock, pidFile>>
    BY <1>1 DEF Start, Retry, MayStart
  <2>3. /\ at[p] = from /\ at'[p] = "probe"
        /\ \A q \in Process : q # p => at'[q] = at[q]
    BY <1>0, <2>1, Moved
  <2>4. OneStarts'
    BY <2>2, <2>3 DEF OneStarts, Starting
  <2>5. HoldersOwnPidFile' /\ ListenersOwnSocket'
    BY <2>2, <2>3 DEF ClaimInv, HoldersOwnPidFile, ListenersOwnSocket, Holder, Listening
  <2>6. HolderWasSeen' /\ NobodyHolds'
    BY <2>2, <2>3 DEF ClaimInv, HolderWasSeen, NobodyHolds, Holder, Clearing
  <2> QED BY <1>0, <2>4, <2>5, <2>6 DEF ClaimInv
<1>2. ASSUME NEW p \in Process, Probe(p)
      PROVE  ClaimInv'
  <2>1. PICK to \in {"sharing", "readPid"} : Move(p, "probe", to)
    BY <1>2 DEF Probe
  <2>2. at[p] = "probe" /\ at'[p] = to
    BY <1>0, <2>1, Moved
  <2>3. /\ Starting(p) /\ ~Holder(p)' /\ ~Listening(p)' /\ ~Clearing(p)'
        /\ UNCHANGED <<seen, leaving, sock, pidFile>>
    BY <1>2, <2>2 DEF Probe, Starting, Holder, Listening, Clearing
  <2> QED BY <1>0, <2>1, <2>3, QuietMove
<1>3. ASSUME NEW p \in Process, ReadPid(p)
      PROVE  ClaimInv'
  <2>1. /\ at[p] = "readPid" /\ at'[p] = "checkAlive"
        /\ \A q \in Process : q # p => at'[q] = at[q]
        /\ UNCHANGED <<leaving, sock, pidFile>>
    BY <1>0, <1>3, Moved DEF ReadPid
  <2>2. /\ seen'[p] = pidFile
        /\ \A q \in Process : q # p => seen'[q] = seen[q]
    BY <1>0, <1>3 DEF ReadPid, TypeOK
  <2>3. OneStarts' /\ HoldersOwnPidFile' /\ ListenersOwnSocket' /\ NobodyHolds'
    BY <2>1 DEF ClaimInv, OneStarts, HoldersOwnPidFile, ListenersOwnSocket, NobodyHolds,
               Starting, Holder, Listening, Clearing
  <2>4. HolderWasSeen'
    BY <2>1, <2>2 DEF ClaimInv, HolderWasSeen, HoldersOwnPidFile, Holder
  <2> QED BY <1>0, <2>3, <2>4 DEF ClaimInv
<1>4. ASSUME NEW p \in Process, CheckAlive(p)
      PROVE  ClaimInv'
  <2>1. PICK to \in {"sharing", "unlinkSocket"} :
          Move(p, "checkAlive", to) /\ (to = "unlinkSocket" => ~LiveClaimant(p))
    BY <1>4 DEF CheckAlive
  <2>2. at[p] = "checkAlive" /\ at'[p] = to
    BY <1>0, <2>1, Moved
  <2>3. /\ Starting(p) /\ ~Holder(p)' /\ ~Listening(p)'
        /\ UNCHANGED <<seen, leaving, sock, pidFile>>
    BY <1>4, <2>2 DEF CheckAlive, Starting, Holder, Listening
  <2>4. ASSUME NEW q \in Process, Holder(q), ~LiveClaimant(p)
        PROVE  FALSE
    <3>1. seen[p] = q
      BY <2>2, <2>4 DEF ClaimInv, HolderWasSeen
    <3>2. q # p /\ q # Nil /\ Alive(q)
      BY <2>2, <2>4, ClaimAssumption DEF Holder, Alive
    <3> QED BY <2>4, <3>1, <3>2 DEF LiveClaimant
  <2>5. Clearing(p)' => \A q \in Process : ~Holder(q)
    BY <2>1, <2>2, <2>4 DEF Clearing
  <2> QED BY <1>0, <2>1, <2>3, <2>5, QuietMove
<1>5. ASSUME NEW p \in Process, UnlinkSocket(p) \/ UnlinkPid(p)
      PROVE  ClaimInv'
  <2>1. /\ Clearing(p) /\ Clearing(p)' /\ Starting(p)
        /\ \A q \in Process : q # p => at'[q] = at[q]
        /\ UNCHANGED <<seen, leaving>>
    BY <1>0, <1>5, Moved DEF UnlinkSocket, UnlinkPid, Clearing, Starting
  <2>2. \A q \in Process : ~Holder(q) /\ ~Holder(q)'
    BY <2>1 DEF ClaimInv, NobodyHolds, Holder, Clearing
  <2>3. \A q \in Process : Listening(q)' => Holder(q)'
    BY DEF Listening, Holder
  <2>4. OneStarts'
    BY <2>1 DEF ClaimInv, OneStarts, Starting, Clearing
  <2>5. HoldersOwnPidFile' /\ ListenersOwnSocket' /\ HolderWasSeen' /\ NobodyHolds'
    BY <2>2, <2>3 DEF HoldersOwnPidFile, ListenersOwnSocket, HolderWasSeen, NobodyHolds
  <2> QED BY <1>0, <2>4, <2>5 DEF ClaimInv
<1>6. ASSUME NEW p \in Process, CreatePid(p)
      PROVE  ClaimInv'
  <2>1. CASE pidFile = Nil
    <3>1. /\ at[p] = "createPid" /\ at'[p] = "bind" /\ pidFile' = p
          /\ \A q \in Process : q # p => at'[q] = at[q]
          /\ UNCHANGED <<seen, leaving, sock>>
      BY <1>0, <1>6, <2>1, Moved DEF CreatePid
    <3>2. \A q \in Process : q # p => ~Holder(q)' /\ ~Starting(q)'
      BY <3>1 DEF ClaimInv, NobodyHolds, OneStarts, Holder, Clearing, Starting
    <3>3. \A q \in Process : Listening(q)' => Holder(q)' /\ q # p
      BY <3>1 DEF Listening, Holder
    <3>4. \A q \in Process : at'[q] = "checkAlive" \/ Clearing(q)' => Starting(q)' /\ q # p
      BY <3>1 DEF Starting, Clearing
    <3>5. OneStarts' /\ HoldersOwnPidFile' /\ ListenersOwnSocket' /\ HolderWasSeen' /\ NobodyHolds'
      BY <3>1, <3>2, <3>3, <3>4 DEF OneStarts, HoldersOwnPidFile, ListenersOwnSocket,
         HolderWasSeen, NobodyHolds
    <3> QED BY <1>0, <3>5 DEF ClaimInv
  <2>2. CASE pidFile # Nil
    <3>1. Move(p, "createPid", "sharing") /\ UNCHANGED <<seen, leaving, sock, pidFile>>
      BY <1>6, <2>2 DEF CreatePid
    <3>2. at[p] = "createPid" /\ at'[p] = "sharing"
      BY <1>0, <3>1, Moved
    <3>3. Starting(p) /\ ~Holder(p)' /\ ~Listening(p)' /\ ~Clearing(p)'
      BY <3>2 DEF Starting, Holder, Listening, Clearing
    <3> QED BY <1>0, <3>1, <3>3, QuietMove
  <2> QED BY <2>1, <2>2
<1>7. ASSUME NEW p \in Process, BindSocket(p)
      PROVE  ClaimInv'
  <2>1. /\ at[p] = "bind" /\ at'[p] = "verify" /\ sock' = p
        /\ \A q \in Process : q # p => at'[q] = at[q]
        /\ UNCHANGED <<seen, leaving, pidFile>>
    BY <1>0, <1>7, Moved DEF BindSocket
  <2>2. \A q \in Process : (Holder(q)' <=> Holder(q)) /\ (Starting(q)' <=> Starting(q))
    BY <1>0, <2>1 DEF Holder, Starting, TypeOK
  <2>3. \A q \in Process : Listening(q)' => q = p
    BY <2>1 DEF ClaimInv, HoldersOwnPidFile, Holder, Listening
  <2>4. OneStarts' /\ HoldersOwnPidFile' /\ ListenersOwnSocket'
    BY <2>1, <2>2, <2>3 DEF ClaimInv, OneStarts, HoldersOwnPidFile, ListenersOwnSocket
  <2>5. HolderWasSeen' /\ NobodyHolds'
    BY <2>1, <2>2 DEF ClaimInv, HolderWasSeen, NobodyHolds, Clearing
  <2> QED BY <1>0, <2>4, <2>5 DEF ClaimInv
<1>8. ASSUME NEW p \in Process, BindFails(p) \/ Secured(p)
      PROVE  ClaimInv'
  <2>1. /\ \E from, to : Move(p, from, to) /\ to \notin {"checkAlive"}
        /\ UNCHANGED <<seen, leaving, sock, pidFile>>
    BY <1>8 DEF BindFails, Secured
  <2>2. /\ Holder(p) /\ Starting(p) /\ ~Clearing(p)'
        /\ Listening(p)' => Listening(p)
    BY <1>0, <1>8, Moved DEF BindFails, Secured, Holder, Starting, Clearing, Listening
  <2> QED BY <1>0, <2>1, <2>2, QuietMove
<1>9. ASSUME NEW p \in Process, NEW from, NEW to, Move(p, from, to), Holder(p),
             UNCHANGED <<seen, pidFile>>,
             to \in Releasing, sock' \in {sock, Nil},
             \A q \in Process : q # p => (q \in leaving' <=> q \in leaving),
             Starting(p)' => Starting(p)
      PROVE  ClaimInv'
  <2>1. /\ at'[p] = to /\ \A q \in Process : q # p => at'[q] = at[q]
    BY <1>0, <1>9, Moved
  <2>2. \A q \in Process : (Holder(q)' <=> Holder(q)) /\ (Starting(q)' => Starting(q))
    BY <1>9, <2>1 DEF Holder, Starting
  <2>3. \A q \in Process : Listening(q)' => FALSE
    BY <1>9, <2>1 DEF ClaimInv, HoldersOwnPidFile, Holder, Listening
  <2>4. OneStarts' /\ HoldersOwnPidFile' /\ ListenersOwnSocket'
    BY <1>9, <2>2, <2>3 DEF ClaimInv, OneStarts, HoldersOwnPidFile, ListenersOwnSocket
  <2>5. HolderWasSeen' /\ NobodyHolds'
    BY <1>9, <2>1, <2>2 DEF ClaimInv, HolderWasSeen, NobodyHolds, Clearing
  <2> QED BY <1>0, <2>4, <2>5 DEF ClaimInv
<1>10. ASSUME NEW p \in Process, NotSecured(p)
       PROVE  ClaimInv'
  <2>1. at[p] = "verify" /\ Move(p, "verify", "releaseRead")
    BY <1>0, <1>10, Moved DEF NotSecured
  <2>2. Holder(p) /\ Starting(p)
    BY <2>1 DEF Holder, Starting
  <2> QED BY <1>9, <1>10, <2>1, <2>2 DEF NotSecured
<1>11. ASSUME NEW p \in Process, Stop(p)
       PROVE  ClaimInv'
  <2>1. Move(p, "serving", "releaseRead") /\ at[p] = "serving" /\ at'[p] = "releaseRead"
    BY <1>0, <1>11, Moved DEF Stop
  <2>2. Holder(p) /\ ~Starting(p)'
    BY <1>11, <2>1 DEF Stop, Holder, Starting
  <2> QED BY <1>9, <1>11, <2>1, <2>2 DEF Stop
<1>12. ASSUME NEW p \in Process, ReleaseSocket(p)
       PROVE  ClaimInv'
  <2>1. /\ Move(p, "releaseSocket", "releasePid")
        /\ at[p] = "releaseSocket" /\ at'[p] = "releasePid"
    BY <1>0, <1>12, Moved DEF ReleaseSocket
  <2>2. Holder(p) /\ (Starting(p)' => Starting(p))
    BY <1>12, <2>1 DEF ReleaseSocket, Holder, Starting
  <2> QED BY <1>9, <1>12, <2>1, <2>2 DEF ReleaseSocket
<1>13. ASSUME NEW p \in Process, RefreshClaim(p)
       PROVE  ClaimInv'
  <2>1. /\ at[p] = "refresh" /\ at'[p] = "serving" /\ pidFile' = p
        /\ Move(p, "refresh", "serving")
        /\ UNCHANGED <<seen, leaving, sock>>
    BY <1>0, <1>13, Moved DEF RefreshClaim
  <2>2. /\ Holder(p) /\ Starting(p) /\ Listening(p) /\ ~Clearing(p)'
    BY <2>1 DEF Holder, Starting, Clearing, Listening
  <2>3. pidFile = p
    BY <2>2 DEF ClaimInv, HoldersOwnPidFile
  <2> QED BY <1>0, <2>1, <2>2, <2>3, QuietMove
<1>14. ASSUME NEW p \in Process, ReleaseRead(p)
       PROVE  ClaimInv'
  <2>1. PICK to \in {"releaseSocket", "down", "sharing"} :
          /\ Move(p, "releaseRead", to)
          /\ to # "releaseSocket" => (p \in leaving => to = "down")
    BY <1>14 DEF ReleaseRead, Released
  <2>2. at[p] = "releaseRead" /\ at'[p] = to
    BY <1>0, <2>1, Moved
  <2>3. /\ pidFile = p /\ leaving' = leaving
        /\ UNCHANGED <<seen, sock, pidFile>>
    BY <1>14, <2>2 DEF ReleaseRead, ClaimInv, HoldersOwnPidFile, Holder
  <2>4. /\ Holder(p) /\ (Starting(p)' => Starting(p)) /\ ~Clearing(p)' /\ ~Listening(p)'
    BY <2>2, <2>3 DEF Holder, Starting, Clearing, Listening
  <2> QED BY <1>0, <2>1, <2>3, <2>4, QuietMove
<1>15. ASSUME NEW p \in Process, ReleasePid(p)
       PROVE  ClaimInv'
  <2>1. /\ at[p] = "releasePid" /\ at'[p] \in {"down", "sharing"}
        /\ \A q \in Process : q # p => at'[q] = at[q] /\ (q \in leaving' <=> q \in leaving)
        /\ UNCHANGED <<seen, sock>>
    BY <1>0, <1>15, Moved DEF ReleasePid, Released
  <2>2. \A q \in Process : ~Holder(q)'
    BY <2>1 DEF ClaimInv, HoldersOwnPidFile, Holder
  <2>3. \A q \in Process : (Starting(q)' => Starting(q)) /\ (Listening(q)' => Holder(q)')
    BY <2>1 DEF Starting, Listening, Holder
  <2>4. OneStarts'
    BY <2>3 DEF ClaimInv, OneStarts
  <2>5. HoldersOwnPidFile' /\ ListenersOwnSocket' /\ HolderWasSeen' /\ NobodyHolds'
    BY <2>2, <2>3 DEF HoldersOwnPidFile, ListenersOwnSocket, HolderWasSeen, NobodyHolds
  <2> QED BY <1>0, <2>4, <2>5 DEF ClaimInv
<1>16. ASSUME NEW p \in Process, Crash(p)
       PROVE  ClaimInv'
  <2>1. /\ Move(p, at[p], "down") /\ at'[p] = "down"
        /\ UNCHANGED <<seen, sock, pidFile>>
        /\ \A q \in Process : q # p => (q \in leaving' <=> q \in leaving)
    BY <1>0, <1>16 DEF Crash, Move, TypeOK
  <2>2. ~Starting(p)' /\ ~Holder(p)' /\ ~Listening(p)' /\ ~Clearing(p)'
    BY <2>1 DEF Starting, Holder, Listening, Clearing
  <2> QED BY <1>0, <2>1, <2>2, QuietMove
<1>17. CASE UNCHANGED vars
  BY <1>17 DEF vars, ClaimInv, TypeOK, OneStarts, HoldersOwnPidFile, ListenersOwnSocket,
     HolderWasSeen, NobodyHolds, Starting, Holder, Listening, Clearing
<1> QED
  BY <1>1, <1>2, <1>3, <1>4, <1>5, <1>6, <1>7, <1>8, <1>10, <1>11, <1>12, <1>13, <1>14, <1>15,
     <1>16, <1>17 DEF Next, Acquire, Bring, Release

(* If starts do not overlap, one process at most listens, whatever number of *)
(* processes come, go, crash or hang (acquireSocketClaim, startHookSocket).  *)
THEOREM OneServer == ASSUME Overlap = FALSE PROVE Spec => []OneServes
<1>1. ClaimInv => OneServes
  BY DEF ClaimInv, ListenersOwnSocket, OneServes
<1>2. ClaimInv /\ [Next]_vars => ClaimInv'
  BY ClaimStep
<1> QED BY <1>1, <1>2, ClaimInit, PTL DEF Spec

(* If starts do not overlap, nobody loses a claim or a socket to another     *)
(* process (acquireSocketClaim, releaseSocketClaim).                         *)
THEOREM ClaimKept == ASSUME Overlap = FALSE PROVE Spec => []ClaimIsKept
<1>1. ClaimInv => ClaimIsKept
  BY DEF ClaimInv, ListenersOwnSocket, HoldersOwnPidFile, Holder, ClaimIsKept
<1>2. ClaimInv /\ [Next]_vars => ClaimInv'
  BY ClaimStep
<1> QED BY <1>1, <1>2, ClaimInit, PTL DEF Spec

-----------------------------------------------------------------------------
(***************************************************************************)
(* The relays that use the socket.  A relay and the daemon see one event   *)
(* each in their own way; RelayInv says which of their views go together,  *)
(* and that the counts are what the two of them have begun and ended.      *)
(***************************************************************************)

(* Where the request of an event stands while its relay is at a step. *)
RequestsAt(step) ==
  CASE step \in {"start", "stat", "connect"} -> {"none"}
    [] step = "send" -> {"open", "lost"}
    [] step = "wait" -> {"sent", "run", "half", "answered", "missing", "failed", "lost", "broken"}
    [] step \in {"fallback", "node"} -> {"none", "missing", "failed", "lost", "broken"}
    [] OTHER -> {"none", "open", "sent", "run", "half", "answered", "missing", "failed", "lost", "broken"}

(* And after an attempt at the socket that ended in a certain way. *)
RequestsAfter(e, o) ==
  CASE o \in {"large", "absent", "refused"} -> {"none"}
    [] o \in {"unsent", "lost"} -> {"lost"}
    [] o \in {"answered", "missing", "failed"} -> {o}
    [] o = "cut" -> IF Relay(e) = "sh" THEN {"broken"} ELSE {"half", "answered", "broken"}
    [] o = "unrun" -> {"none", "missing", "failed", "lost", "broken"}
    [] OTHER -> {"none", "open", "sent", "run", "half", "answered", "missing", "failed", "lost", "broken"}

(* The script of the event has begun. *)
NodeBegan(e) ==
  pc[e] = "node" \/ (pc[e] = "done" /\ outcome[e] \in FallsBack(e) \cup {"none"})

(* How often the daemon can have begun and ended the handler of a request. *)
Served(r) ==
  CASE r \in {"run", "half", "answered", "failed", "broken"} -> {1}
    [] r = "lost" -> {0, 1}
    [] OTHER -> {0}
Returned(r) == IF r \in {"half", "answered", "broken"} THEN 1 ELSE 0

(* The attempt at the socket has ended exactly when the relay is past it; a *)
(* standalone hook makes none.                                              *)
AttemptFits(e) ==
  /\ request[e] \in RequestsAt(pc[e]) \cap RequestsAfter(e, outcome[e])
  /\ pc[e] \in {"start", "stat", "connect", "send", "wait"} => outcome[e] = "none"
  /\ pc[e] \in {"stat", "connect", "send", "wait"} => Hook(e) # "standalone"
  /\ pc[e] \in {"fallback", "node", "done"} /\ outcome[e] = "none" =>
       Hook(e) = "standalone" /\ request[e] = "none"
  /\ pc[e] \in {"fallback", "node"} => outcome[e] \in FallsBack(e) \cup {"none"}
  /\ outcome[e] = "large" => Relay(e) = "c"
  /\ Hook(e) = "standalone" => request[e] = "none"

(* The counts are those of the daemon and of the script. *)
CountsFit(e) ==
  /\ \E n \in Served(request[e]) :
       /\ began[e] = IF NodeBegan(e) THEN n + 1 ELSE n
       /\ pc[e] = "send" \/ outcome[e] = "unsent" => n = 0
  /\ \/ ended[e] = Returned(request[e])
     \/ pc[e] = "done" /\ NodeBegan(e) /\ ended[e] = Returned(request[e]) + 1
  /\ printed[e] # "nothing" => ended[e] >= 1
  /\ printed[e] = "part" => Hook(e) # "governance"

(* The handlers that run are those of a request or of a relay. *)
RunningFits(e) ==
  /\ "daemon" \in running[e] <=> request[e] = "run"
  /\ "node" \in running[e] <=> pc[e] = "node"

RelayShapes ==
  /\ kind \in [Events -> Kinds] /\ socket \in BOOLEAN /\ daemon \in {"down", "up", "old"}
  /\ pc \in [Events -> {"start", "stat", "connect", "send", "wait", "fallback", "node", "done"}]
  /\ request \in [Events -> {"none", "open", "sent", "run", "half", "answered", "missing", "failed", "lost", "broken"}]
  /\ outcome \in [Events -> {"none", "large", "absent", "refused", "unsent", "answered", "missing", "failed",
                             "lost", "cut", "late", "unrun"}]
  /\ printed \in [Events -> {"nothing", "whole", "part"}]
  /\ running \in [Events -> SUBSET {"daemon", "node"}] /\ began \in [Events -> Nat] /\ ended \in [Events -> Nat]

Fits(e) == AttemptFits(e) /\ CountsFit(e) /\ RunningFits(e)

RelayInv == RelayShapes /\ \A e \in Events : Fits(e)

LEMMA RelayInvInit == RelayInit => RelayInv
BY DEF RelayInit, RelayInv, RelayShapes, Kinds, Fits, AttemptFits, CountsFit, RunningFits, RequestsAt,
   RequestsAfter, NodeBegan, Served, Returned

LEMMA RelayInvMeans == RelayInv => RelayTypeOK /\ EventsAreAccountedFor
<1> SUFFICES ASSUME RelayInv PROVE RelayTypeOK /\ EventsAreAccountedFor
  OBVIOUS
<1>0. RelayShapes
  BY DEF RelayInv
<1>1. ASSUME NEW e \in Events
      PROVE  /\ began[e] \in 0 .. 2 /\ ended[e] \in 0 .. 2
             /\ running[e] # {"daemon", "node"}
             /\ outcome[e] = "late" => began[e] <= 1 /\ "node" \notin running[e]
             /\ began[e] = 2 => \/ request[e] = "failed"
                                \/ Relay(e) = "sh" /\ Hook(e) = "sync" /\ request[e] \in {"lost", "broken"}
             /\ pc[e] = "done" /\ began[e] = 0 /\ Hook(e) # "governance" =>
                  outcome[e] \in {"unrun", "late"} \/ (outcome[e] \in {"lost", "unsent"} /\ request[e] = "lost")
             /\ printed[e] # "nothing" => ended[e] >= 1
             /\ Hook(e) = "governance" => "node" \notin running[e] /\ began[e] <= 1 /\ printed[e] # "part"
  <2>1. Fits(e) /\ began[e] \in Nat /\ ended[e] \in Nat
    BY <1>0, <1>1 DEF RelayInv, RelayShapes
  <2>2. /\ Relay(e) \in {"c", "sh"} /\ Hook(e) \in {"sync", "async", "governance", "standalone"}
        /\ outcome[e] \in {"none", "large", "absent", "refused", "unsent", "answered", "missing", "failed",
                           "lost", "cut", "late", "unrun"}
    BY <1>0, <1>1 DEF RelayShapes, Kinds, Relay, Hook
  <2>3. PICK n \in Served(request[e]) :
          /\ began[e] = IF NodeBegan(e) THEN n + 1 ELSE n
          /\ pc[e] = "send" \/ outcome[e] = "unsent" => n = 0
    BY <2>1 DEF Fits, CountsFit
  <2>4. n \in {0, 1} /\ Returned(request[e]) \in {0, 1}
    BY <2>3 DEF Served, Returned
  <2>5. began[e] \in 0 .. 2 /\ ended[e] \in 0 .. 2
    BY <2>1, <2>3, <2>4 DEF Fits, CountsFit
  <2>6. running[e] # {"daemon", "node"}
    BY <2>1 DEF Fits, RunningFits, AttemptFits, RequestsAt
  <2>0. /\ Hook(e) = "governance" => FallsBack(e) = {}
        /\ Hook(e) # "governance" => {"absent", "refused", "missing"} \subseteq FallsBack(e)
        /\ Hook(e) # "governance" /\ Relay(e) = "c" => "large" \in FallsBack(e)
        /\ "late" \notin FallsBack(e) /\ "unrun" \notin FallsBack(e)
        /\ outcome[e] \in FallsBack(e) /\ outcome[e] \in {"lost", "cut"} => Relay(e) = "sh" /\ Hook(e) # "async"
    BY <2>2 DEF FallsBack
  <2>7. NodeBegan(e) => outcome[e] \in FallsBack(e) \cup {"none"} /\ Hook(e) # "governance"
    BY <2>1, <2>0 DEF NodeBegan, Fits, AttemptFits
  <2>8. outcome[e] = "late" => began[e] <= 1 /\ "node" \notin running[e]
    BY <2>1, <2>3, <2>4, <2>7, <2>0 DEF Fits, RunningFits, NodeBegan
  <2>9. began[e] = 2 => \/ request[e] = "failed"
                        \/ Relay(e) = "sh" /\ Hook(e) = "sync" /\ request[e] \in {"lost", "broken"}
    <3> SUFFICES ASSUME began[e] = 2, request[e] # "failed"
                 PROVE  Relay(e) = "sh" /\ Hook(e) = "sync" /\ request[e] \in {"lost", "broken"}
      OBVIOUS
    <3>1. /\ NodeBegan(e) /\ n = 1 /\ outcome[e] # "unsent"
          /\ request[e] \in {"run", "half", "answered", "broken", "lost"}
      BY <2>3, <2>4 DEF Served
    <3>2. /\ outcome[e] \in FallsBack(e) \ {"unsent", "none"} /\ Hook(e) \notin {"governance", "standalone"}
          /\ request[e] \in RequestsAfter(e, outcome[e])
      BY <2>1, <2>7, <3>1 DEF Fits, AttemptFits, NodeBegan
    <3>3. outcome[e] \in {"lost", "cut"}
      BY <2>2, <3>1, <3>2 DEF RequestsAfter, FallsBack
    <3> QED BY <2>2, <2>0, <3>2, <3>3 DEF RequestsAfter
  <2>10. pc[e] = "done" /\ began[e] = 0 /\ Hook(e) # "governance" =>
           outcome[e] \in {"unrun", "late"} \/ (outcome[e] \in {"lost", "unsent"} /\ request[e] = "lost")
    <3> SUFFICES ASSUME pc[e] = "done", began[e] = 0, Hook(e) # "governance",
                        outcome[e] \notin {"unrun", "late"}
                 PROVE  outcome[e] \in {"lost", "unsent"} /\ request[e] = "lost"
      OBVIOUS
    <3>1. ~NodeBegan(e) /\ request[e] \notin {"run", "half", "answered", "failed", "broken"}
      BY <2>3, <2>4 DEF Served
    <3>2. outcome[e] \notin {"none", "absent", "refused", "missing", "large"}
      BY <2>1, <2>0, <3>1 DEF NodeBegan, Fits, AttemptFits
    <3>3. request[e] \in RequestsAfter(e, outcome[e])
      BY <2>1 DEF Fits, AttemptFits
    <3> QED BY <2>2, <3>1, <3>2, <3>3 DEF RequestsAfter
  <2>11. Hook(e) = "governance" => "node" \notin running[e] /\ began[e] <= 1 /\ printed[e] # "part"
    BY <2>1, <2>2, <2>3, <2>4, <2>7 DEF Fits, RunningFits, CountsFit, NodeBegan
  <2> QED BY <2>1, <2>5, <2>6, <2>8, <2>9, <2>10, <2>11 DEF Fits, CountsFit
<1>2. RelayTypeOK
  BY <1>0, <1>1 DEF RelayTypeOK, RelayShapes, RelayInv, Fits, RunningFits
<1> QED BY <1>1, <1>2 DEF EventsAreAccountedFor, HandledOnce, NeverSideBySide, TwiceNeedsAnError, OutputIsOfARun,
           GovernanceOnlyAdvises, LossNeedsTheDaemon

(* What a relay or the daemon does for one event leaves the others as they are. *)
LEMMA OthersFit ==
  ASSUME RelayInv, NEW x \in Events, kind' = kind, pc'[x] = pc[x], request'[x] = request[x],
         outcome'[x] = outcome[x], running'[x] = running[x], began'[x] = began[x],
         ended'[x] = ended[x], printed'[x] = printed[x]
  PROVE  Fits(x)'
BY DEF RelayInv, Fits, AttemptFits, CountsFit, RunningFits, NodeBegan, FallsBack, RequestsAfter, Relay, Hook

(* A relay whose attempt at the socket has ended. *)
LEMMA SettlesFits ==
  ASSUME RelayInv, NEW e \in Events,
         NEW o \in {"large", "absent", "refused", "unsent", "answered", "missing", "failed", "lost", "cut", "late"},
         Settles(e, o), UNCHANGED <<given, request, handlers>>,
         pc[e] \notin {"fallback", "node", "done"}, request[e] \in RequestsAfter(e, o),
         o \in FallsBack(e) => request[e] \in {"none", "missing", "failed", "lost", "broken"},
         o = "large" => Relay(e) = "c", o = "unsent" => pc[e] = "send",
         NEW what \in {"nothing", "whole", "part"}, printed' = [printed EXCEPT ![e] = what],
         what # "nothing" => ended[e] >= 1, what = "part" => Hook(e) # "governance"
  PROVE  RelayInv'
<1>0. RelayShapes /\ Fits(e)
  BY DEF RelayInv
<1>1. /\ pc'[e] = IF o \in FallsBack(e) THEN "fallback" ELSE "done"
      /\ outcome'[e] = o /\ printed'[e] = what
      /\ \A x \in Events : x # e => pc'[x] = pc[x] /\ outcome'[x] = outcome[x] /\ printed'[x] = printed[x]
      /\ kind' = kind /\ request' = request /\ running' = running /\ began' = began /\ ended' = ended
  BY <1>0 DEF Settles, Goes, RelayShapes, given, handlers
<1>2. RelayShapes'
  BY <1>0 DEF Settles, Goes, RelayShapes, given, handlers
<1>3. FallsBack(e)' = FallsBack(e) /\ Hook(e)' = Hook(e) /\ Relay(e)' = Relay(e)
  BY <1>1 DEF FallsBack, Hook, Relay
<1>4. AttemptFits(e)'
  <2>1. RequestsAfter(e, outcome[e])' = RequestsAfter(e, o)
    BY <1>1, <1>3 DEF RequestsAfter
  <2>2. request'[e] \in RequestsAt(pc'[e])
    BY <1>0, <1>1 DEF RequestsAt, RelayShapes
  <2> QED BY <1>0, <1>1, <1>3, <2>1, <2>2 DEF Fits, AttemptFits
<1>5. ~NodeBegan(e) /\ ~NodeBegan(e)'
  BY <1>1, <1>3 DEF NodeBegan
<1>6. CountsFit(e)'
  BY <1>0, <1>1, <1>3, <1>5 DEF Fits, CountsFit
<1>7. RunningFits(e)'
  BY <1>0, <1>1 DEF Fits, RunningFits
<1>8. ASSUME NEW x \in Events, x # e PROVE Fits(x)'
  BY <1>1, <1>8, OthersFit
<1> QED BY <1>2, <1>4, <1>6, <1>7, <1>8 DEF RelayInv, Fits

(* A relay or the daemon takes one event on, and what it does fits. *)
LEMMA OneMoves ==
  ASSUME RelayInv, RelayShapes', NEW e \in Events, Fits(e)', kind' = kind,
         \A x \in Events : x # e =>
           /\ pc'[x] = pc[x] /\ request'[x] = request[x] /\ outcome'[x] = outcome[x]
           /\ running'[x] = running[x] /\ began'[x] = began[x] /\ ended'[x] = ended[x] /\ printed'[x] = printed[x]
  PROVE  RelayInv'
BY OthersFit DEF RelayInv

LEMMA BeginFits == ASSUME RelayInv, NEW e \in Events, Begin(e) PROVE RelayInv'
<1>0. RelayShapes /\ Fits(e) /\ pc[e] = "start" /\ request[e] = "none" /\ outcome[e] = "none"
  BY DEF RelayInv, Begin, Fits, AttemptFits, RequestsAt
<1>1. CASE Overflows(e) /\ Settles(e, "large")
  <2>1. request[e] \in RequestsAfter(e, "large") /\ Relay(e) = "c"
    BY <1>0, <1>1 DEF RequestsAfter, Overflows
  <2>2. printed' = [printed EXCEPT ![e] = printed[e]] /\ printed[e] \in {"nothing", "whole", "part"}
    BY <1>0 DEF Begin, RelayShapes
  <2>3. (printed[e] # "nothing" => ended[e] >= 1) /\ (printed[e] = "part" => Hook(e) # "governance")
    BY <1>0 DEF Fits, CountsFit
  <2> QED BY <1>0, <1>1, <2>1, <2>2, <2>3, SettlesFits DEF Begin
<1>2. CASE ~(Overflows(e) /\ Settles(e, "large"))
  <2>1. PICK to \in {"fallback", "stat"} :
          /\ pc' = [pc EXCEPT ![e] = to] /\ UNCHANGED <<given, request, handlers, printed, outcome>>
          /\ to = "fallback" <=> Hook(e) = "standalone"
    BY <1>2 DEF Begin, Goes
  <2>2. RelayShapes'
    BY <1>0, <2>1 DEF RelayShapes, given, handlers
  <2>3. pc'[e] = to /\ UNCHANGED <<kind, request, running, began, ended, printed, outcome>>
    BY <1>0, <2>1 DEF RelayShapes, given, handlers
  <2>4. Hook(e)' = Hook(e) /\ Relay(e)' = Relay(e) /\ FallsBack(e)' = FallsBack(e)
    BY <2>3 DEF FallsBack, Hook, Relay
  <2>5. AttemptFits(e)'
    BY <1>0, <2>1, <2>3, <2>4 DEF Fits, AttemptFits, RequestsAt, RequestsAfter
  <2>6. CountsFit(e)'
    BY <1>0, <2>1, <2>3, <2>4 DEF Fits, CountsFit, NodeBegan
  <2>7. RunningFits(e)'
    BY <1>0, <2>1, <2>3 DEF Fits, RunningFits
  <2>8. \A x \in Events : x # e => pc'[x] = pc[x]
    BY <1>0, <2>1 DEF RelayShapes
  <2> QED BY <2>2, <2>3, <2>5, <2>6, <2>7, <2>8, OneMoves DEF Fits
<1> QED BY <1>1, <1>2 DEF Begin

(* A relay that goes on with its attempt. *)
LEMMA AdvanceFits ==
  ASSUME RelayInv, NEW e \in Events, NEW to \in {"connect", "send", "wait"}, NEW r \in {"none", "open", "sent"},
         pc[e] \in {"stat", "connect", "send"}, request[e] \in {"none", "open"}, r \in RequestsAt(to),
         pc' = [pc EXCEPT ![e] = to], request' = [request EXCEPT ![e] = r],
         UNCHANGED <<given, outcome, handlers, printed>>
  PROVE  RelayInv'
<1>0. RelayShapes /\ Fits(e)
  BY DEF RelayInv
<1>1. RelayShapes'
  BY <1>0 DEF RelayShapes, given, handlers
<1>2. /\ pc'[e] = to /\ request'[e] = r /\ UNCHANGED <<kind, running, began, ended, printed, outcome>>
      /\ \A x \in Events : x # e => pc'[x] = pc[x] /\ request'[x] = request[x]
  BY <1>0 DEF RelayShapes, given, handlers
<1>3. Hook(e)' = Hook(e) /\ Relay(e)' = Relay(e)
  BY <1>2 DEF Hook, Relay
<1>4. AttemptFits(e)'
  <2>1. outcome'[e] = "none" /\ Hook(e)' # "standalone"
    BY <1>0, <1>2, <1>3 DEF Fits, AttemptFits
  <2>2. request'[e] \in RequestsAfter(e, outcome[e])' /\ request'[e] \in RequestsAt(pc[e])'
    BY <1>2, <2>1 DEF RequestsAfter, RequestsAt
  <2> QED BY <1>2, <2>1, <2>2 DEF AttemptFits
<1>5. ~NodeBegan(e) /\ ~NodeBegan(e)'
  BY <1>2 DEF NodeBegan
<1>6. /\ Served(request[e]) = {0} /\ Served(r) = {0}
      /\ Returned(request[e]) = 0 /\ Returned(r) = 0
  BY DEF Served, Returned
<1>7. CountsFit(e)'
  BY <1>0, <1>2, <1>3, <1>5, <1>6 DEF Fits, CountsFit
<1>8. RunningFits(e)'
  BY <1>0, <1>2 DEF Fits, RunningFits
<1> QED BY <1>1, <1>2, <1>4, <1>7, <1>8, OneMoves DEF Fits

LEMMA StatFits == ASSUME RelayInv, NEW e \in Events, Stat(e) PROVE RelayInv'
<1>0. RelayShapes /\ Fits(e) /\ pc[e] = "stat" /\ request[e] = "none"
  BY DEF RelayInv, Stat, Fits, AttemptFits, RequestsAt
<1>1. CASE socket
  <2>1. "none" \in RequestsAt("connect")
    BY DEF RequestsAt
  <2>2. pc' = [pc EXCEPT ![e] = "connect"] /\ UNCHANGED <<given, outcome, handlers, printed>>
    BY <1>1 DEF Stat, Goes
  <2>3. request' = [request EXCEPT ![e] = "none"]
    BY <1>0 DEF Stat, RelayShapes
  <2> QED BY <1>0, <2>1, <2>2, <2>3, AdvanceFits
<1>2. CASE ~socket
  <2>1. request[e] \in RequestsAfter(e, "absent") /\ Settles(e, "absent")
    BY <1>0, <1>2 DEF RequestsAfter, Stat
  <2>2. printed' = [printed EXCEPT ![e] = printed[e]] /\ printed[e] \in {"nothing", "whole", "part"}
    BY <1>0 DEF Stat, RelayShapes
  <2>3. (printed[e] # "nothing" => ended[e] >= 1) /\ (printed[e] = "part" => Hook(e) # "governance")
    BY <1>0 DEF Fits, CountsFit
  <2> QED BY <1>0, <2>1, <2>2, <2>3, SettlesFits DEF Stat
<1> QED BY <1>1, <1>2

LEMMA ConnectFits == ASSUME RelayInv, NEW e \in Events, Connect(e) PROVE RelayInv'
<1>0. RelayShapes /\ Fits(e) /\ pc[e] = "connect" /\ request[e] = "none"
  BY DEF RelayInv, Connect, Fits, AttemptFits, RequestsAt
<1>1. CASE socket /\ daemon # "down"
  <2>1. "open" \in RequestsAt("send")
    BY DEF RequestsAt
  <2>2. /\ pc' = [pc EXCEPT ![e] = "send"] /\ request' = [request EXCEPT ![e] = "open"]
        /\ UNCHANGED <<given, outcome, handlers, printed>>
    BY <1>1 DEF Connect, Goes
  <2> QED BY <1>0, <2>1, <2>2, AdvanceFits
<1>2. CASE ~(socket /\ daemon # "down")
  <2>1. request[e] \in RequestsAfter(e, "refused") /\ Settles(e, "refused") /\ request' = request
    BY <1>0, <1>2 DEF RequestsAfter, Connect
  <2>2. printed' = [printed EXCEPT ![e] = printed[e]] /\ printed[e] \in {"nothing", "whole", "part"}
    BY <1>0 DEF Connect, RelayShapes
  <2>3. (printed[e] # "nothing" => ended[e] >= 1) /\ (printed[e] = "part" => Hook(e) # "governance")
    BY <1>0 DEF Fits, CountsFit
  <2> QED BY <1>0, <2>1, <2>2, <2>3, SettlesFits DEF Connect
<1> QED BY <1>1, <1>2

LEMMA SendFits == ASSUME RelayInv, NEW e \in Events, Send(e) PROVE RelayInv'
<1>0. RelayShapes /\ Fits(e) /\ pc[e] = "send" /\ request[e] \in {"open", "lost"}
  BY DEF RelayInv, Send, Fits, AttemptFits, RequestsAt
<1>1. CASE request[e] # "lost"
  <2>1. "sent" \in RequestsAt("wait")
    BY DEF RequestsAt
  <2>2. /\ pc' = [pc EXCEPT ![e] = "wait"] /\ request' = [request EXCEPT ![e] = "sent"]
        /\ UNCHANGED <<given, outcome, handlers, printed>>
    BY <1>1 DEF Send, Goes
  <2> QED BY <1>0, <1>1, <2>1, <2>2, AdvanceFits
<1>2. CASE request[e] = "lost"
  <2>1. request[e] \in RequestsAfter(e, "unsent") /\ Settles(e, "unsent") /\ request' = request
    BY <1>0, <1>2 DEF RequestsAfter, Send
  <2>2. printed' = [printed EXCEPT ![e] = printed[e]] /\ printed[e] \in {"nothing", "whole", "part"}
    BY <1>0 DEF Send, RelayShapes
  <2>3. (printed[e] # "nothing" => ended[e] >= 1) /\ (printed[e] = "part" => Hook(e) # "governance")
    BY <1>0 DEF Fits, CountsFit
  <2> QED BY <1>0, <1>2, <2>1, <2>2, <2>3, SettlesFits DEF Send
<1> QED BY <1>1, <1>2

(* What a relay may print of an answer. *)
LEMMA PrintsIs ==
  ASSUME NEW e, NEW whole \in BOOLEAN, NEW what \in Prints(e, whole)
  PROVE  what \in {"nothing", "whole", "part"} /\ (what = "part" => Hook(e) # "governance")
BY DEF Prints

LEMMA ReceiveFits == ASSUME RelayInv, NEW e \in Events, Receive(e) PROVE RelayInv'
<1>0. /\ RelayShapes /\ Fits(e) /\ pc[e] = "wait"
      /\ request[e] \in {"answered", "missing", "failed", "lost", "broken"}
  BY DEF RelayInv, Receive
<1> DEFINE o == IF request[e] = "broken" THEN "cut" ELSE request[e]
<1>1. /\ o \in {"answered", "missing", "failed", "lost", "cut"} /\ Settles(e, o)
      /\ request[e] \in RequestsAfter(e, o)
      /\ o \in FallsBack(e) => request[e] \in {"none", "missing", "failed", "lost", "broken"}
  BY <1>0 DEF Receive, RequestsAfter, FallsBack
<1>2. PICK what \in {"nothing", "whole", "part"} :
        /\ printed' = [printed EXCEPT ![e] = what]
        /\ what # "nothing" => ended[e] >= 1
        /\ what = "part" => Hook(e) # "governance"
  <2>1. CASE request[e] \in {"answered", "broken"}
    <3>1. PICK what \in Prints(e, request[e] = "answered") : printed' = [printed EXCEPT ![e] = what]
      BY <2>1 DEF Receive
    <3>2. ended[e] >= 1
      BY <1>0, <2>1 DEF Fits, CountsFit, Returned
    <3> QED BY <3>1, <3>2, PrintsIs
  <2>2. CASE request[e] \notin {"answered", "broken"}
    <3>1. printed' = [printed EXCEPT ![e] = printed[e]] /\ printed[e] \in {"nothing", "whole", "part"}
      BY <1>0, <2>2 DEF Receive, RelayShapes
    <3> QED BY <1>0, <3>1 DEF Fits, CountsFit
  <2> QED BY <2>1, <2>2
<1> HIDE DEF o
<1>3. UNCHANGED <<given, request, handlers>>
  BY DEF Receive
<1> QED BY <1>0, <1>1, <1>2, <1>3, SettlesFits

LEMMA TimeoutFits == ASSUME RelayInv, NEW e \in Events, Timeout(e) PROVE RelayInv'
<1>0. RelayShapes /\ Fits(e) /\ pc[e] = "wait" /\ request[e] \in {"sent", "run", "half"}
  BY DEF RelayInv, Timeout
<1> DEFINE o == IF Relay(e) = "c" /\ request[e] = "half" THEN "cut" ELSE "late"
<1>1. /\ o \in {"cut", "late"} /\ Settles(e, o) /\ request[e] \in RequestsAfter(e, o) /\ o \notin FallsBack(e)
  BY <1>0 DEF Timeout, RequestsAfter, FallsBack
<1>2. PICK what \in {"nothing", "whole", "part"} :
        /\ printed' = [printed EXCEPT ![e] = what]
        /\ what # "nothing" => ended[e] >= 1
        /\ what = "part" => Hook(e) # "governance"
  <2>1. CASE request[e] = "half"
    <3>1. PICK what \in Prints(e, FALSE) : printed' = [printed EXCEPT ![e] = what]
      BY <2>1 DEF Timeout
    <3>2. ended[e] >= 1
      BY <1>0, <2>1 DEF Fits, CountsFit, Returned
    <3> QED BY <3>1, <3>2, PrintsIs
  <2>2. CASE request[e] # "half"
    BY <2>2 DEF Timeout
  <2> QED BY <2>1, <2>2
<1> HIDE DEF o
<1>3. UNCHANGED <<given, request, handlers>>
  BY DEF Timeout
<1> QED BY <1>0, <1>1, <1>2, <1>3, SettlesFits

LEMMA WatchdogFits == ASSUME RelayInv, NEW e \in Events, Watchdog(e) PROVE RelayInv'
<1>0. RelayShapes /\ Fits(e) /\ pc[e] # "done" /\ Hook(e) = "governance"
  BY DEF RelayInv, Watchdog
<1>1. pc[e] \notin {"fallback", "node", "done"}
  BY <1>0 DEF Fits, AttemptFits, FallsBack
<1>2. request[e] \in RequestsAfter(e, "late") /\ Settles(e, "late") /\ "late" \notin FallsBack(e)
  BY <1>0 DEF RequestsAfter, Watchdog, FallsBack, RelayShapes
<1>3. printed' = [printed EXCEPT ![e] = printed[e]] /\ printed[e] \in {"nothing", "whole", "part"}
  BY <1>0 DEF Watchdog, RelayShapes
<1>4. (printed[e] # "nothing" => ended[e] >= 1) /\ (printed[e] = "part" => Hook(e) # "governance")
  BY <1>0 DEF Fits, CountsFit
<1> QED BY <1>1, <1>2, <1>3, <1>4, SettlesFits DEF Watchdog

LEMMA FallbackFits == ASSUME RelayInv, NEW e \in Events, Fallback(e) PROVE RelayInv'
<1>0. RelayShapes /\ Fits(e) /\ pc[e] = "fallback"
  BY DEF RelayInv, Fallback
<1>1. RelayShapes'
  BY <1>0 DEF Fallback, Goes, RelayShapes, given, handlers
<1>2. /\ UNCHANGED <<kind, request, ended, printed>>
      /\ \A x \in Events : x # e =>
           /\ pc'[x] = pc[x] /\ outcome'[x] = outcome[x] /\ running'[x] = running[x] /\ began'[x] = began[x]
  BY <1>0 DEF Fallback, Goes, RelayShapes, given
<1>3. Hook(e)' = Hook(e) /\ Relay(e)' = Relay(e) /\ FallsBack(e)' = FallsBack(e)
  BY <1>2 DEF Hook, Relay, FallsBack
<1>4. ~NodeBegan(e) /\ request[e] \in {"none", "missing", "failed", "lost", "broken"}
  BY <1>0 DEF NodeBegan, Fits, AttemptFits, RequestsAt
<1>5. CASE pc'[e] = "node" /\ running'[e] = running[e] \cup {"node"} /\ began'[e] = began[e] + 1 /\ outcome' = outcome
  <2>1. AttemptFits(e)'
    BY <1>0, <1>2, <1>3, <1>5 DEF Fits, AttemptFits, RequestsAt, RequestsAfter
  <2>2. NodeBegan(e)'
    BY <1>5 DEF NodeBegan
  <2>3. CountsFit(e)'
    BY <1>0, <1>2, <1>3, <1>4, <1>5, <2>2 DEF Fits, CountsFit
  <2>4. RunningFits(e)'
    BY <1>0, <1>2, <1>5 DEF Fits, RunningFits
  <2> QED BY <1>1, <1>2, <2>1, <2>3, <2>4, OneMoves DEF Fits
<1>6. CASE pc'[e] = "done" /\ outcome'[e] = "unrun" /\ UNCHANGED <<running, began>>
  <2>1. AttemptFits(e)'
    BY <1>0, <1>2, <1>3, <1>4, <1>6 DEF Fits, AttemptFits, RequestsAt, RequestsAfter
  <2>2. ~NodeBegan(e)'
    BY <1>3, <1>6 DEF NodeBegan, FallsBack
  <2>3. CountsFit(e)'
    BY <1>0, <1>2, <1>3, <1>4, <1>6, <2>2 DEF Fits, CountsFit
  <2>4. RunningFits(e)'
    BY <1>0, <1>2, <1>6 DEF Fits, RunningFits
  <2> QED BY <1>1, <1>2, <2>1, <2>3, <2>4, OneMoves DEF Fits
<1> QED BY <1>0, <1>5, <1>6 DEF Fallback, Goes, RelayShapes

LEMMA NodeFits == ASSUME RelayInv, NEW e \in Events, Node(e) PROVE RelayInv'
<1>0. RelayShapes /\ Fits(e) /\ pc[e] = "node"
  BY DEF RelayInv, Node
<1>1. RelayShapes'
  BY <1>0 DEF Node, Goes, RelayShapes, given, handlers
<1>2. /\ UNCHANGED <<kind, request, outcome, began>> /\ pc'[e] = "done" /\ running'[e] = running[e] \ {"node"}
      /\ \A x \in Events : x # e =>
           /\ pc'[x] = pc[x] /\ ended'[x] = ended[x] /\ running'[x] = running[x] /\ printed'[x] = printed[x]
  BY <1>0 DEF Node, Goes, RelayShapes, given
<1>3. \/ ended'[e] = ended[e] + 1 /\ printed'[e] \in {printed[e], "whole"}
      \/ ended'[e] = ended[e] /\ printed'[e] = printed[e]
  BY <1>0 DEF Node, RelayShapes
<1>4. Hook(e)' = Hook(e) /\ Relay(e)' = Relay(e) /\ FallsBack(e)' = FallsBack(e)
  BY <1>2 DEF Hook, Relay, FallsBack
<1>5. AttemptFits(e)'
  BY <1>0, <1>2, <1>4 DEF Fits, AttemptFits, RequestsAt, RequestsAfter
<1>6. NodeBegan(e) /\ NodeBegan(e)'
  BY <1>0, <1>2, <1>4 DEF NodeBegan, Fits, AttemptFits
<1>7. CountsFit(e)'
  <2>1. Returned(request[e]) \in {0, 1} /\ ended[e] = Returned(request[e]) /\ Returned(request[e])' = Returned(request[e])
    BY <1>0, <1>2 DEF Returned, Fits, CountsFit
  <2>2. ended'[e] = Returned(request[e])' \/ ended'[e] = Returned(request[e])' + 1
    BY <1>3, <2>1
  <2>3. (printed[e] # "nothing")' => ended'[e] >= 1
    BY <1>0, <1>3, <2>1 DEF Fits, CountsFit
  <2>4. (printed[e] = "part")' => Hook(e)' # "governance"
    BY <1>0, <1>3, <1>4 DEF Fits, CountsFit
  <2>5. \E n \in Served(request[e])' :
          /\ began'[e] = IF NodeBegan(e)' THEN n + 1 ELSE n
          /\ pc'[e] = "send" \/ outcome'[e] = "unsent" => n = 0
    BY <1>0, <1>2, <1>6 DEF Fits, CountsFit
  <2> QED BY <1>2, <1>6, <2>2, <2>3, <2>4, <2>5 DEF CountsFit
<1>8. RunningFits(e)'
  BY <1>0, <1>2 DEF Fits, RunningFits
<1> QED BY <1>1, <1>2, <1>5, <1>7, <1>8, OneMoves DEF Fits

(* The daemon is at a request that is not done with. *)
LEMMA ServesFits ==
  ASSUME RelayInv, RelayShapes', NEW e \in Events, NEW r \in {"run", "missing", "half", "answered", "failed"},
         \/ request[e] = "sent" /\ r \in {"run", "missing"}
         \/ request[e] = "run" /\ r \in {"half", "answered", "failed"}
         \/ request[e] = "half" /\ r = "answered",
         request' = [request EXCEPT ![e] = r], UNCHANGED <<given, relays>>,
         began'[e] = IF r = "run" THEN began[e] + 1 ELSE began[e],
         ended'[e] = IF request[e] = "run" /\ r # "failed" THEN ended[e] + 1 ELSE ended[e],
         "daemon" \in running'[e] <=> r = "run", "node" \in running'[e] <=> "node" \in running[e],
         \A x \in Events : x # e =>
           running'[x] = running[x] /\ began'[x] = began[x] /\ ended'[x] = ended[x]
  PROVE  RelayInv'
<1>0. RelayShapes /\ Fits(e)
  BY DEF RelayInv
<1>1. /\ request'[e] = r /\ UNCHANGED <<kind, pc, outcome, printed>>
      /\ \A x \in Events : x # e => request'[x] = request[x]
  BY <1>0 DEF RelayShapes, given, relays
<1>2. Hook(e)' = Hook(e) /\ Relay(e)' = Relay(e) /\ FallsBack(e)' = FallsBack(e)
  BY <1>1 DEF Hook, Relay, FallsBack
<1>3. pc[e] \in {"wait", "done"} /\ outcome[e] \in {"none", "late", "cut"} /\ (pc[e] = "done" => outcome[e] # "none")
  BY <1>0 DEF Fits, AttemptFits, RequestsAt, RequestsAfter, RelayShapes
<1>4. outcome[e] = "cut" => Relay(e) # "sh" /\ request[e] = "half"
  BY <1>0 DEF Fits, AttemptFits, RequestsAfter
<1>5. AttemptFits(e)'
  <2>1. r \in RequestsAt(pc[e])' /\ r \in RequestsAfter(e, outcome[e])'
    BY <1>1, <1>2, <1>3, <1>4 DEF RequestsAt, RequestsAfter
  <2> QED BY <1>0, <1>1, <1>2, <1>3, <2>1 DEF Fits, AttemptFits
<1>6. (NodeBegan(e)' <=> NodeBegan(e)) /\ NodeBegan(e) \in BOOLEAN
  BY <1>1, <1>2 DEF NodeBegan
<1>7. CountsFit(e)'
  <2>1. PICK n \in Served(request[e]) :
          /\ began[e] = IF NodeBegan(e) THEN n + 1 ELSE n
          /\ pc[e] = "send" \/ outcome[e] = "unsent" => n = 0
    BY <1>0 DEF Fits, CountsFit
  <2>2. \E m \in Served(request[e])' :
          /\ began'[e] = IF NodeBegan(e)' THEN m + 1 ELSE m
          /\ pc'[e] = "send" \/ outcome'[e] = "unsent" => m = 0
    <3> DEFINE m == IF r = "run" THEN n + 1 ELSE n
    <3>1. m \in Served(request[e])' /\ n \in {0, 1}
      BY <1>1, <2>1 DEF Served
    <3>2. began'[e] = IF NodeBegan(e)' THEN m + 1 ELSE m
      BY <1>6, <2>1, <3>1
    <3>3. ~(pc'[e] = "send" \/ outcome'[e] = "unsent")
      BY <1>1, <1>3
    <3> QED BY <3>1, <3>2, <3>3
  <2>3. \/ ended'[e] = Returned(request[e])'
        \/ pc'[e] = "done" /\ NodeBegan(e)' /\ ended'[e] = Returned(request[e])' + 1
    BY <1>0, <1>1, <1>6 DEF Fits, CountsFit, Returned
  <2>4. (printed[e] # "nothing")' => ended'[e] >= 1
    BY <1>0, <1>1 DEF Fits, CountsFit, RelayShapes
  <2> QED BY <1>0, <1>1, <1>2, <2>2, <2>3, <2>4 DEF Fits, CountsFit
<1>8. RunningFits(e)'
  BY <1>0, <1>1 DEF Fits, RunningFits
<1> QED BY <1>1, <1>5, <1>7, <1>8, OneMoves DEF Fits

LEMMA RouteFits == ASSUME RelayInv, NEW e \in Events, Route(e) PROVE RelayInv'
<1>0. RelayShapes /\ Fits(e) /\ request[e] = "sent"
  BY DEF RelayInv, Route
<1>1. RelayShapes'
  BY <1>0 DEF Route, Answers, RelayShapes, given, relays
<1>2. PICK r \in {"run", "missing"} :
        /\ request' = [request EXCEPT ![e] = r]
        /\ r = "run" => /\ running' = [running EXCEPT ![e] = @ \cup {"daemon"}]
                        /\ began' = [began EXCEPT ![e] = @ + 1]
        /\ r = "missing" => UNCHANGED <<running, began>>
  BY DEF Route, Answers
<1>3. "daemon" \notin running[e]
  BY <1>0 DEF Fits, RunningFits
<1>4. /\ began'[e] = IF r = "run" THEN began[e] + 1 ELSE began[e]
      /\ ended' = ended /\ UNCHANGED <<given, relays>>
      /\ "daemon" \in running'[e] <=> r = "run"
      /\ "node" \in running'[e] <=> "node" \in running[e]
      /\ \A x \in Events : x # e => running'[x] = running[x] /\ began'[x] = began[x]
  BY <1>0, <1>2, <1>3 DEF Route, RelayShapes, given
<1> QED BY <1>0, <1>1, <1>2, <1>4, ServesFits

LEMMA HandleFits == ASSUME RelayInv, NEW e \in Events, Handle(e) \/ Throw(e) PROVE RelayInv'
<1>0. RelayShapes /\ Fits(e) /\ request[e] = "run"
  BY DEF RelayInv, Handle, Throw
<1>1. RelayShapes'
  BY <1>0 DEF Handle, Throw, Answers, RelayShapes, given, relays
<1>2. PICK r \in {"half", "answered", "failed"} :
        /\ request' = [request EXCEPT ![e] = r]
        /\ ended' = IF r # "failed" THEN [ended EXCEPT ![e] = @ + 1] ELSE ended
  BY DEF Handle, Throw, Answers
<1>3. /\ running' = [running EXCEPT ![e] = @ \ {"daemon"}] /\ began' = began /\ UNCHANGED <<given, relays>>
  BY DEF Handle, Throw, given
<1>4. /\ ended'[e] = IF r # "failed" THEN ended[e] + 1 ELSE ended[e]
      /\ "daemon" \notin running'[e]
      /\ "node" \in running'[e] <=> "node" \in running[e]
      /\ \A x \in Events : x # e => running'[x] = running[x] /\ ended'[x] = ended[x]
  BY <1>0, <1>2, <1>3 DEF RelayShapes
<1> QED BY <1>0, <1>1, <1>2, <1>3, <1>4, ServesFits

LEMMA RestFits == ASSUME RelayInv, NEW e \in Events, Rest(e) PROVE RelayInv'
<1>0. RelayShapes /\ Fits(e) /\ request[e] = "half" /\ UNCHANGED <<given, relays, running, began, ended>>
  BY DEF RelayInv, Rest, handlers
<1>1. RelayShapes'
  BY <1>0 DEF Rest, Answers, RelayShapes, given, relays
<1>2. "daemon" \notin running[e] /\ request' = [request EXCEPT ![e] = "answered"]
  BY <1>0 DEF Rest, Answers, Fits, RunningFits
<1> QED BY <1>0, <1>1, <1>2, ServesFits

LEMMA DieFits == ASSUME RelayInv, Die PROVE RelayInv'
<1>0. RelayShapes
  BY DEF RelayInv
<1>1. \A e \in Events : request'[e] \in {"none", "open", "sent", "run", "half", "answered", "missing", "failed", "lost", "broken"}
  BY <1>0 DEF Die, RelayShapes
<1>2. RelayShapes'
  BY <1>0, <1>1 DEF Die, RelayShapes, relays
<1>3. ASSUME NEW e \in Events PROVE Fits(e)'
  <2>0. /\ Fits(e) /\ outcome'[e] = outcome[e] /\ pc' = pc /\ outcome' = outcome /\ kind' = kind
        /\ UNCHANGED <<began, ended, printed>> /\ running'[e] = running[e] \ {"daemon"}
    BY <1>0, <1>3 DEF RelayInv, Die, relays, RelayShapes
  <2>1. \/ request'[e] = request[e] /\ request[e] \notin {"open", "sent", "run", "half"}
        \/ request'[e] = "lost" /\ request[e] \in {"open", "sent", "run"}
        \/ request'[e] = "broken" /\ request[e] = "half"
    BY <1>0, <1>3 DEF Die, RelayShapes
  <2>2. Hook(e)' = Hook(e) /\ Relay(e)' = Relay(e) /\ FallsBack(e)' = FallsBack(e)
    BY <2>0 DEF Hook, Relay, FallsBack
  <2>3. request'[e] \in RequestsAt(pc[e])' /\ request'[e] \in RequestsAfter(e, outcome[e])'
    <3>1. request[e] \in RequestsAt(pc[e]) /\ request[e] \in RequestsAfter(e, outcome[e])
      BY <2>0 DEF Fits, AttemptFits
    <3>2. RequestsAt(pc[e])' = RequestsAt(pc[e]) /\ RequestsAfter(e, outcome[e])' = RequestsAfter(e, outcome[e])
      BY <2>0, <2>2 DEF RequestsAt, RequestsAfter
    <3>3. request'[e] \in RequestsAt(pc[e])
      BY <1>0, <2>1, <3>1 DEF RequestsAt, RelayShapes
    <3>4. request'[e] \in RequestsAfter(e, outcome[e])
      BY <1>0, <2>1, <3>1 DEF RequestsAfter, RelayShapes
    <3> QED BY <3>2, <3>3, <3>4
  <2>4. AttemptFits(e)'
    BY <2>0, <2>1, <2>2, <2>3 DEF Fits, AttemptFits
  <2>5. NodeBegan(e)' <=> NodeBegan(e)
    BY <2>0, <2>2 DEF NodeBegan
  <2>6. Served(request[e]) \subseteq Served(request[e])' /\ Returned(request[e])' = Returned(request[e])
    BY <2>1 DEF Served, Returned
  <2>7. CountsFit(e)'
    BY <2>0, <2>2, <2>5, <2>6 DEF Fits, CountsFit
  <2>8. RunningFits(e)'
    BY <2>0, <2>1 DEF Fits, RunningFits
  <2> QED BY <2>4, <2>7, <2>8 DEF Fits
<1> QED BY <1>2, <1>3 DEF RelayInv

LEMMA RelayInvStep == RelayInv /\ [RelayNext]_relayVars => RelayInv'
<1> SUFFICES ASSUME RelayInv, [RelayNext]_relayVars
             PROVE  RelayInv'
  OBVIOUS
<1>1. ASSUME NEW e \in Events, RelayStep(e)
      PROVE  RelayInv'
  BY <1>1, BeginFits, StatFits, ConnectFits, SendFits, ReceiveFits, TimeoutFits, FallbackFits, NodeFits DEF RelayStep
<1>2. ASSUME NEW e \in Events, Watchdog(e) \/ Serve(e)
      PROVE  RelayInv'
  BY <1>2, WatchdogFits, RouteFits, HandleFits, RestFits DEF Serve
<1>3. CASE DaemonStarts
  <2>1. RelayShapes' /\ UNCHANGED <<kind, relays, request, handlers>>
    BY <1>3 DEF DaemonStarts, RelayInv, RelayShapes, relays, handlers
  <2> QED BY <2>1, OthersFit DEF RelayInv, relays, handlers
<1>4. CASE Die
  BY <1>4, DieFits
<1>5. CASE UNCHANGED relayVars
  <2>1. RelayShapes' /\ UNCHANGED <<kind, relays, request, handlers>>
    BY <1>5 DEF relayVars, given, RelayInv, RelayShapes, relays, handlers
  <2> QED BY <2>1, OthersFit DEF RelayInv, relays, handlers
<1> QED BY <1>1, <1>2, <1>3, <1>4, <1>5 DEF RelayNext

(* Every variable of the relays and of the daemon has its type, no handler is *)
(* begun a third time, and the daemon runs exactly the handlers of the        *)
(* requests it is at (hook-relay.c, hook-relay.sh, handleRequest).            *)
THEOREM RelayTypeCorrect == RelaySpec => []RelayTypeOK
<1>1. RelayInv => RelayTypeOK
  BY RelayInvMeans
<1> QED BY <1>1, RelayInvInit, RelayInvStep, PTL DEF RelaySpec

(* However the relays and the daemon are interleaved, and whenever the daemon *)
(* dies, an event is handled by one of the two and again only after an error, *)
(* its client gets what a handler returned, and its loss has the daemon or    *)
(* node for a cause (hook-relay.c, hook-relay.sh).                            *)
THEOREM EventsAreHandledOnce == RelaySpec => []EventsAreAccountedFor
<1>1. RelayInv => EventsAreAccountedFor
  BY RelayInvMeans
<1> QED BY <1>1, RelayInvInit, RelayInvStep, PTL DEF RelaySpec
(* What init has decided is what it read calls for; of the shadow it read, of *)
(* which only its own last step writes another.                               *)
PlannedFrom(sh) ==
  plan = PlanFor(plan.was, plan.config, plan.state, sh, plan.relay, plan.migrate)

PlanFits ==
  /\ stage \in {"config", "hooks", "shadow"} => PlannedFrom(shadow)
  /\ stage = "done" =>
       PlannedFrom(shadow) \/ \E sh : PlannedFrom(sh) /\ shadow = [o \in Pos |-> CommandAt(plan.merged, o)]

(* A reviewed approval of a place the shadow says is ours is of the command there. *)
Reviewed(o) == how[o] = "reviewed"

ReviewedFits ==
  \A o \in Pos : Reviewed(o) =>
    state[o] # Absent /\ shadow # Absent /\ (IsWaykeep(shadow[o]) => state[o].hash = shadow[o])

(* While init is at work it was there when init read it, and stays only where *)
(* nothing changes.                                                           *)
ReviewedWasRead == stage = "config" => \A o \in Pos : Reviewed(o) => plan.state[o] # Absent

ReviewedStays ==
  stage \in {"hooks", "shadow"} =>
    \A o \in Pos : Reviewed(o) => ~Doubtful(plan.was, plan.merged, shadow, o)

TrustInv == TrustTypeOK /\ PlanFits /\ ReviewedFits /\ ReviewedWasRead /\ ReviewedStays

-----------------------------------------------------------------------------
(* Selecting from a sequence.                                               *)

(* Each number up to their cardinality is the rank of one of some indices.  *)
LEMMA RankIs ==
  ASSUME NEW n \in Nat, NEW S \in SUBSET (1..n)
  PROVE  /\ IsFiniteSet(S) /\ Cardinality(S) \in Nat
         /\ \A k \in 1..Cardinality(S) : \E i \in S : Cardinality({j \in S : j <= i}) = k
<1> DEFINE Below(i) == {j \in S : j <= i}
           rank == [i \in S |-> Cardinality(Below(i))]
           T == 1..Cardinality(S)
<1>1. IsFiniteSet(1..n) /\ n \in Int
  BY FS_Interval
<1>2. IsFiniteSet(S) /\ Cardinality(S) \in Nat
  BY <1>1, FS_Subset, FS_CardinalityType
<1>3. ASSUME NEW i \in S
      PROVE  /\ IsFiniteSet(Below(i)) /\ Cardinality(Below(i)) \in T
  <2>1. Below(i) \in SUBSET S /\ i \in Below(i)
    BY <1>1
  <2>2. IsFiniteSet(Below(i)) /\ Cardinality(Below(i)) <= Cardinality(S) /\ Cardinality(Below(i)) \in Nat
    BY <1>2, <2>1, FS_Subset, FS_CardinalityType
  <2>3. Cardinality(Below(i)) # 0
    BY <2>1, <2>2, FS_EmptySet
  <2> QED BY <1>2, <2>2, <2>3
<1>4. ASSUME NEW i \in S, NEW j \in S, i < j
      PROVE  Cardinality(Below(i)) # Cardinality(Below(j))
  <2>1. \A k \in S : k \in Int
    BY <1>1
  <2>2. (\A k \in S : k <= i => k <= j) /\ j <= j /\ ~(j <= i)
    BY <1>4, <2>1
  <2>3. Below(i) \in SUBSET Below(j) /\ j \in Below(j) /\ j \notin Below(i)
    BY <2>2, Zenon
  <2> HIDE DEF Below
  <2> QED BY <1>3, <2>3, FS_Subset
<1>5. rank \in Injection(S, T)
  <2>1. \A i, j \in S : i # j => i < j \/ j < i
    BY <1>1
  <2>2. \A i, j \in S : rank[i] = rank[j] => i = j
    BY <1>4, <2>1
  <2>3. rank \in [S -> T]
    BY <1>3
  <2> HIDE DEF rank
  <2> QED BY <2>2, <2>3 DEF Injection, IsInjective
<1>6. IsFiniteSet(T) /\ Cardinality(T) = Cardinality(S)
  <2>1. Cardinality(S) \in Int /\ 1 \in Int
    BY <1>2
  <2> QED BY <1>2, <2>1, FS_Interval
<1>7. rank \in Surjection(S, T)
  <2> HIDE DEF rank, T
  <2> QED BY <1>5, <1>6, FS_Injection
<1>8. \A k \in T : \E i \in S : rank[i] = k
  <2> HIDE DEF rank, T
  <2> QED BY <1>7 DEF Surjection
<1> QED BY <1>2, <1>8

LEMMA SelectedIs ==
  ASSUME NEW T, NEW n \in Nat, NEW s, NEW S \in SUBSET (1..n), \A i \in S : s[i] \in T
  PROVE  /\ Selected(s, S) \in Seq(T) /\ Len(Selected(s, S)) = Cardinality(S) /\ Cardinality(S) \in Nat
<1> DEFINE Nth(k) == CHOOSE i \in S : Cardinality({j \in S : j <= i}) = k
<1>1. Cardinality(S) \in Nat /\ \A k \in 1..Cardinality(S) : Nth(k) \in S
  BY RankIs
<1>2. Selected(s, S) = [k \in 1..Cardinality(S) |-> s[Nth(k)]]
  BY DEF Selected
<1> HIDE DEF Nth
<1>3. \A k \in 1..Cardinality(S) : s[Nth(k)] \in T
  BY <1>1
<1> QED BY <1>1, <1>2, <1>3

LEMMA SelectedAll ==
  ASSUME NEW n \in Nat, NEW s
  PROVE  Selected(s, 1..n) = [k \in 1..n |-> s[k]]
<1> DEFINE Below(i) == {j \in 1..n : j <= i}
           Nth(k) == CHOOSE i \in 1..n : Cardinality(Below(i)) = k
<1>1. Cardinality(1..n) = n
  BY FS_Interval
<1>2. ASSUME NEW i \in 1..n
      PROVE  Cardinality(Below(i)) = i
  <2>1. Below(i) = 1..i /\ i \in Int /\ ~(1 > i) /\ i - 1 + 1 = i
    OBVIOUS
  <2>2. Cardinality(1..i) = IF 1 > i THEN 0 ELSE i - 1 + 1
    BY <2>1, FS_Interval
  <2> QED BY <2>1, <2>2
<1>3. ASSUME NEW k \in 1..n
      PROVE  Nth(k) = k
  <2> HIDE DEF Below
  <2> QED BY <1>2
<1>4. Selected(s, 1..n) = [k \in 1..n |-> s[Nth(k)]]
  BY <1>1 DEF Selected
<1> HIDE DEF Nth
<1> QED BY <1>3, <1>4

(* Of a group, and of a file of groups. *)
LEMMA StrangersIs ==
  ASSUME NEW g \in Seq(Command)
  PROVE  /\ Strangers(g) \in Seq(Command)
         /\ (\A h \in DOMAIN g : ~IsWaykeep(g[h])) => Strangers(g) = g
<1> DEFINE n == Len(g)
           S == {h \in DOMAIN g : ~IsWaykeep(g[h])}
<1>1. n \in Nat /\ DOMAIN g = 1..n /\ \A h \in DOMAIN g : g[h] \in Command
  OBVIOUS
<1>2. Selected(g, S) \in Seq(Command)
  <2>1. S \in SUBSET (1..n) /\ \A h \in S : g[h] \in Command
    BY <1>1
  <2> HIDE DEF S, n
  <2> QED BY <1>1, <2>1, SelectedIs
<1>3. ASSUME \A h \in DOMAIN g : ~IsWaykeep(g[h])
      PROVE  Selected(g, S) = g
  <2>1. S = 1..n /\ g = [k \in 1..n |-> g[k]]
    BY <1>1, <1>3
  <2> HIDE DEF n, S
  <2> QED BY <1>1, <2>1, SelectedAll
<1> QED BY <1>2, <1>3 DEF Strangers

LEMMA MergeIs ==
  ASSUME NEW file \in Seq(Seq(Command)), NEW cmd \in Command
  PROVE  Merge(file, cmd) \in Seq(Seq(Command))
<1> DEFINE n == Len(file)
           rep == Replaced(file, cmd)
<1>1. n \in Nat /\ DOMAIN file = 1..n /\ \A i \in DOMAIN file : file[i] \in Seq(Command)
  OBVIOUS
<1>2. \A i \in DOMAIN file : rep[i] \in Seq(Command)
  BY <1>1, StrangersIs DEF Replaced
<1>3. KeptGroups(file) \in SUBSET (1..n)
  BY <1>1 DEF KeptGroups
<1>4. Selected(rep, KeptGroups(file)) \in Seq(Seq(Command))
  <2> HIDE DEF n, rep
  <2> QED BY <1>1, <1>2, <1>3, SelectedIs
<1>5. <<>> \in Seq(Seq(Command)) /\ <<<<cmd>>>> \in Seq(Seq(Command))
  OBVIOUS
<1> QED BY <1>4, <1>5 DEF Merge

-----------------------------------------------------------------------------
(* A tidy file: what init does to it is to put its command into one place.  *)
LEMMA TidyMergeIs ==
  ASSUME NEW file \in Seq(Seq(Command)), Tidy(file), NEW cmd \in Command
  PROVE  Merge(file, cmd) =
           [i \in DOMAIN file |-> IF i \in OurGroups(file) THEN <<cmd>> ELSE file[i]]
             \o (IF OurGroups(file) = {} THEN <<<<cmd>>>> ELSE <<>>)
<1> DEFINE n == Len(file)
           rep == Replaced(file, cmd)
<1>1. n \in Nat /\ DOMAIN file = 1..n /\ \A i \in DOMAIN file : file[i] \in Seq(Command)
  OBVIOUS
<1>2. ASSUME NEW i \in DOMAIN file
      PROVE  rep[i] = IF i \in OurGroups(file) THEN <<cmd>> ELSE file[i]
  <2>1. CASE AllOurs(file[i])
    BY <2>1 DEF Replaced, OurGroups
  <2>2. CASE ~AllOurs(file[i])
    <3>1. \A h \in DOMAIN file[i] : ~IsWaykeep(file[i][h])
      BY <2>2 DEF Tidy
    <3>2. Strangers(file[i]) = file[i]
      BY <1>1, <3>1, StrangersIs
    <3> QED BY <2>2, <3>2 DEF Replaced, OurGroups
  <2> QED BY <2>1, <2>2
<1>3. KeptGroups(file) = 1..n
  <2>1. \A i, j \in OurGroups(file) : i <= j
    BY <1>1 DEF Tidy, OurGroups
  <2> QED BY <1>1, <2>1 DEF KeptGroups
<1>4. Selected(rep, 1..n) = [i \in 1..n |-> rep[i]]
  <2> HIDE DEF n, rep
  <2> QED BY <1>1, SelectedAll
<1>5. [i \in 1..n |-> rep[i]] = [i \in DOMAIN file |-> IF i \in OurGroups(file) THEN <<cmd>> ELSE file[i]]
  <2> HIDE DEF rep
  <2> QED BY <1>1, <1>2
<1> QED BY <1>3, <1>4, <1>5 DEF Merge

LEMMA Concat ==
  ASSUME NEW T, NEW s \in Seq(T), NEW t \in Seq(T)
  PROVE  /\ s \o t \in Seq(T) /\ Len(s) \in Nat /\ Len(t) \in Nat
         /\ Len(s \o t) = Len(s) + Len(t) /\ DOMAIN (s \o t) = 1..(Len(s) + Len(t))
         /\ \A i \in 1..(Len(s) + Len(t)) : (s \o t)[i] = IF i <= Len(s) THEN s[i] ELSE t[i - Len(s)]
<1>1. s \o t \in Seq(T) /\ Len(s \o t) = Len(s) + Len(t)
  BY ConcatProperties
<1>2. Len(s) \in Nat /\ Len(t) \in Nat /\ DOMAIN (s \o t) = 1..Len(s \o t)
  BY <1>1, LenProperties
<1>3. \A i \in 1..(Len(s) + Len(t)) : (s \o t)[i] = IF i <= Len(s) THEN s[i] ELSE t[i - Len(s)]
  BY ConcatProperties
<1> QED BY <1>1, <1>2, <1>3

(* A group of ours in its place, or a new one at the end. *)
TidyOutcome(file, cmd, merged) ==
  /\ DOMAIN merged = 1..Len(merged)
  /\ DOMAIN file = 1..Len(file)
  /\ Len(file) \in Nat
  /\ OurGroups(file) \subseteq DOMAIN file
  /\ OurGroups(file) # {} =>
       /\ Len(merged) = Len(file)
       /\ \A i \in DOMAIN file : merged[i] = IF i \in OurGroups(file) THEN <<cmd>> ELSE file[i]
  /\ OurGroups(file) = {} =>
       /\ Len(merged) = Len(file) + 1 /\ merged[Len(file) + 1] = <<cmd>>
       /\ \A i \in DOMAIN file : merged[i] = file[i]

LEMMA MergedGroups ==
  ASSUME NEW file \in Seq(Seq(Command)), Tidy(file), NEW cmd \in Command
  PROVE  TidyOutcome(file, cmd, Merge(file, cmd))
<1> DEFINE n == Len(file)
           merged == Merge(file, cmd)
           body == [i \in DOMAIN file |-> IF i \in OurGroups(file) THEN <<cmd>> ELSE file[i]]
           tail == IF OurGroups(file) = {} THEN <<<<cmd>>>> ELSE <<>>
<1>1. n \in Nat /\ DOMAIN file = 1..n /\ \A i \in DOMAIN file : file[i] \in Seq(Command)
  OBVIOUS
<1>2. merged = body \o tail
  BY TidyMergeIs
<1>3. body \in Seq(Seq(Command)) /\ Len(body) = n
  BY <1>1
<1>4. tail \in Seq(Seq(Command)) /\ (OurGroups(file) # {} => Len(tail) = 0)
      /\ (OurGroups(file) = {} => Len(tail) = 1 /\ tail[1] = <<cmd>>)
  OBVIOUS
<1>5. \A i \in 1..n : body[i] = IF i \in OurGroups(file) THEN <<cmd>> ELSE file[i]
  BY <1>1
<1> HIDE DEF body, tail, n
<1>6. /\ Len(tail) \in Nat
      /\ Len(body \o tail) = n + Len(tail) /\ DOMAIN (body \o tail) = 1..(n + Len(tail))
      /\ \A i \in 1..(n + Len(tail)) : (body \o tail)[i] = IF i <= n THEN body[i] ELSE tail[i - n]
  BY <1>3, <1>4, Concat
<1> HIDE DEF merged
<1>7. /\ OurGroups(file) \subseteq DOMAIN file /\ DOMAIN merged = 1..Len(merged)
      /\ \A i \in DOMAIN file : merged[i] = body[i]
  BY <1>1, <1>2, <1>6 DEF OurGroups
<1>8. OurGroups(file) # {} => Len(merged) = n
  BY <1>1, <1>2, <1>4, <1>6
<1>9. OurGroups(file) = {} => Len(merged) = n + 1 /\ merged[n + 1] = <<cmd>>
  <2> SUFFICES ASSUME OurGroups(file) = {} PROVE Len(merged) = n + 1 /\ merged[n + 1] = <<cmd>>
    OBVIOUS
  <2>1. Len(tail) = 1 /\ tail[1] = <<cmd>> /\ n + 1 - n = 1 /\ ~(n + 1 <= n)
    BY <1>1, <1>4
  <2> QED BY <1>1, <1>2, <1>6, <2>1
<1>10. OurGroups(file) = {} => \A i \in DOMAIN file : body[i] = file[i]
  BY <1>1, <1>5
<1> QED BY <1>1, <1>5, <1>7, <1>8, <1>9, <1>10 DEF TidyOutcome, n, merged

(* Our command is in a group of its own. *)
LEMMA OursIsAlone ==
  ASSUME NEW file \in Seq(Seq(Command)), Tidy(file), NEW o \in Pos, IsWaykeep(CommandAt(file, o))
  PROVE  o[1] \in OurGroups(file) /\ o[2] = 1
<1>1. Absent \notin Ours
  BY TrustAssumption DEF Command
<1>2. /\ o[1] \in DOMAIN file /\ o[2] \in DOMAIN file[o[1]]
      /\ IsWaykeep(file[o[1]][o[2]])
  BY <1>1 DEF CommandAt, IsWaykeep
<1>3. AllOurs(file[o[1]]) /\ Len(file[o[1]]) = 1
  BY <1>2 DEF Tidy
<1>4. file[o[1]] \in Seq(Command)
  BY <1>2
<1> QED BY <1>2, <1>3, <1>4 DEF OurGroups

LEMMA MergedAt ==
  ASSUME NEW file \in Seq(Seq(Command)), Tidy(file), NEW cmd \in Command, NEW o \in Pos
  PROVE  /\ o[1] \in OurGroups(file) /\ o[2] = 1 => CommandAt(Merge(file, cmd), o) = cmd
         /\ o[1] \in DOMAIN file \ OurGroups(file) => CommandAt(Merge(file, cmd), o) = CommandAt(file, o)
         /\ IsWaykeep(CommandAt(Merge(file, cmd), o)) => CommandAt(Merge(file, cmd), o) = cmd
<1> DEFINE merged == Merge(file, cmd)
<1>1. TidyOutcome(file, cmd, merged)
  BY MergedGroups
<1> HIDE DEF merged
<1>2. DOMAIN <<cmd>> = {1} /\ <<cmd>>[1] = cmd /\ Absent \notin Ours
  BY TrustAssumption DEF Command
<1>3. CASE o[1] \in OurGroups(file)
  <2>1. OurGroups(file) # {}
    BY <1>3
  <2>2. o[1] \in DOMAIN merged /\ merged[o[1]] = <<cmd>>
    BY <1>1, <1>3, <2>1 DEF TidyOutcome
  <2> QED BY <1>2, <1>3, <2>2 DEF CommandAt, IsWaykeep, merged
<1>4. CASE o[1] \in DOMAIN file \ OurGroups(file)
  <2>1. o[1] \in DOMAIN merged
    <3>1. Len(file) \in Nat /\ (Len(merged) = Len(file) \/ Len(merged) = Len(file) + 1)
      BY <1>1 DEF TidyOutcome
    <3>2. o[1] \in 1..Len(file) /\ DOMAIN merged = 1..Len(merged)
      BY <1>1, <1>4 DEF TidyOutcome
    <3>3. \A i \in 1..Len(file) : i \in 1..Len(merged)
      BY <3>1
    <3> QED BY <3>2, <3>3
  <2>2. merged[o[1]] = file[o[1]]
    BY <1>1, <1>4 DEF TidyOutcome
  <2>3. CommandAt(merged, o) = CommandAt(file, o)
    BY <1>4, <2>1, <2>2 DEF CommandAt
  <2>4. ~IsWaykeep(CommandAt(file, o))
    BY <1>4, OursIsAlone
  <2> QED BY <1>4, <2>3, <2>4 DEF merged
<1>5. CASE o[1] \notin DOMAIN file
  <2>1. o[1] \in DOMAIN merged => merged[o[1]] = <<cmd>>
    <3> SUFFICES ASSUME o[1] \in DOMAIN merged PROVE merged[o[1]] = <<cmd>>
      OBVIOUS
    <3>1. OurGroups(file) = {}
      BY <1>1, <1>5 DEF TidyOutcome
    <3>2. o[1] \in 1..(Len(file) + 1) /\ o[1] \notin 1..Len(file) /\ Len(file) \in Nat
      BY <1>1, <1>5, <3>1 DEF TidyOutcome
    <3>3. o[1] = Len(file) + 1
      BY <3>2
    <3> QED BY <1>1, <3>1, <3>3 DEF TidyOutcome
  <2>2. o[1] \notin OurGroups(file)
    BY <1>1, <1>5 DEF TidyOutcome
  <2> QED BY <1>2, <1>5, <2>1, <2>2 DEF CommandAt, IsWaykeep, merged
<1> QED BY <1>3, <1>4, <1>5

(* Once is enough. *)
LEMMA MergedAgain ==
  ASSUME NEW file \in Seq(Seq(Command)), Tidy(file), NEW cmd \in Ours
  PROVE  Merge(Merge(file, cmd), cmd) = Merge(file, cmd)
<1> DEFINE merged == Merge(file, cmd)
<1>0. cmd \in Command
  BY DEF Command
<1>1. TidyOutcome(file, cmd, merged)
  BY <1>0, MergedGroups
<1>2. merged \in Seq(Seq(Command))
  BY <1>0, MergeIs
<1> HIDE DEF merged
<1>3. AllOurs(<<cmd>>) /\ Len(<<cmd>>) = 1
  BY DEF AllOurs, IsWaykeep
<1>4. PICK k \in DOMAIN merged :
        /\ merged[k] = <<cmd>>
        /\ \A i \in DOMAIN merged \ {k} : \A h \in DOMAIN merged[i] : ~IsWaykeep(merged[i][h])
        /\ \A i \in DOMAIN merged \ {k} : merged[i] \in Seq(Command)
  <2>1. CASE OurGroups(file) # {}
    <3>1. PICK k \in OurGroups(file) : \A i \in OurGroups(file) : i = k
      BY <2>1 DEF Tidy
    <3>2. k \in DOMAIN merged /\ merged[k] = <<cmd>> /\ \A i \in DOMAIN merged \ {k} : merged[i] = file[i] /\ i \in DOMAIN file
      BY <1>1, <2>1, <3>1 DEF TidyOutcome
    <3>3. \A i \in DOMAIN file \ {k} : \A h \in DOMAIN file[i] : ~IsWaykeep(file[i][h])
      BY <3>1 DEF Tidy, OurGroups
    <3> QED BY <3>2, <3>3
  <2>2. CASE OurGroups(file) = {}
    <3> DEFINE k == Len(file) + 1
    <3>1. k \in DOMAIN merged /\ merged[k] = <<cmd>> /\ \A i \in DOMAIN merged \ {k} : merged[i] = file[i] /\ i \in DOMAIN file
      BY <1>1, <2>2 DEF TidyOutcome
    <3>2. \A i \in DOMAIN file : \A h \in DOMAIN file[i] : ~IsWaykeep(file[i][h])
      BY <2>2 DEF Tidy, OurGroups
    <3> QED BY <3>1, <3>2
  <2> QED BY <2>1, <2>2
<1>5. \A i \in DOMAIN merged \ {k} : ~AllOurs(merged[i])
  <2> SUFFICES ASSUME NEW i \in DOMAIN merged \ {k}, AllOurs(merged[i])
               PROVE  FALSE
    OBVIOUS
  <2>1. 1 \in DOMAIN merged[i]
    BY <1>4 DEF AllOurs
  <2> QED BY <1>4, <2>1 DEF AllOurs
<1>6. OurGroups(merged) = {k}
  BY <1>3, <1>4, <1>5 DEF OurGroups
<1>7. Tidy(merged)
  BY <1>3, <1>4, <1>6 DEF Tidy
<1>8. Merge(merged, cmd) =
        [i \in DOMAIN merged |-> IF i \in {k} THEN <<cmd>> ELSE merged[i]] \o <<>>
  BY <1>0, <1>2, <1>6, <1>7, TidyMergeIs
<1>9. [i \in DOMAIN merged |-> IF i \in {k} THEN <<cmd>> ELSE merged[i]] = merged
  <2>1. merged = [i \in DOMAIN merged |-> merged[i]]
    BY <1>2
  <2> QED BY <1>4, <2>1
<1>10. merged \o <<>> = merged
  BY <1>2, ConcatEmptySeq
<1> QED BY <1>8, <1>9, <1>10 DEF merged

-----------------------------------------------------------------------------
(* Types.                                                                   *)
LEMMA PosIs ==
  /\ MaxGroups \in Nat /\ MaxHandlers \in Nat /\ MaxInits \in Nat /\ MaxByHand \in Nat
  /\ \A o \in Pos : o = <<o[1], o[2]>> /\ o[1] \in Nat /\ o[2] \in Nat
  BY TrustAssumption DEF Pos

LEMMA CommandAtIs ==
  ASSUME NEW file \in Seq(Seq(Command)), NEW o \in Pos
  PROVE  CommandAt(file, o) \in Command \cup {Absent}
<1>1. CASE o[1] \in DOMAIN file /\ o[2] \in DOMAIN file[o[1]]
  <2>1. file[o[1]] \in Seq(Command)
    BY <1>1
  <2>2. file[o[1]][o[2]] \in Command
    BY <1>1, <2>1
  <2> QED BY <1>1, <2>2 DEF CommandAt
<1>2. CASE ~(o[1] \in DOMAIN file /\ o[2] \in DOMAIN file[o[1]])
  BY <1>2 DEF CommandAt
<1> QED BY <1>1, <1>2

LEMMA PlanForIs ==
  ASSUME NEW file \in Seq(Seq(Command)), NEW conf, NEW st, NEW sh, NEW relay \in Prefix, NEW migrate
  PROVE  /\ OurCommand(file, st, sh, relay, migrate) \in Ours
         /\ OurCommand(file, st, sh, relay, migrate) \in Command
         /\ PlanFor(file, conf, st, sh, relay, migrate).was = file
         /\ PlanFor(file, conf, st, sh, relay, migrate).merged
              = Merge(file, OurCommand(file, st, sh, relay, migrate))
         /\ PlanFor(file, conf, st, sh, relay, migrate).merged \in Seq(Seq(Command))
         /\ PlanFor(file, conf, st, sh, relay, migrate).config = conf
         /\ PlanFor(file, conf, st, sh, relay, migrate).state = st
         /\ PlanFor(file, conf, st, sh, relay, migrate).relay = relay
         /\ PlanFor(file, conf, st, sh, relay, migrate).migrate = migrate
         /\ PlanFor(file, conf, st, sh, relay, migrate).gone
              = Invalidated(file, Merge(file, OurCommand(file, st, sh, relay, migrate)), st, sh)
<1> DEFINE cmd == OurCommand(file, st, sh, relay, migrate)
<1>1. RouteFor(file, st, sh, relay, migrate) \in PostRoute
  BY DEF RouteFor, PostRoute
<1>2. cmd \in Ours /\ cmd \in Command
  BY <1>1 DEF Ours, Command, OurCommand
<1>3. Merge(file, cmd) \in Seq(Seq(Command))
  BY <1>2, MergeIs
<1> QED BY <1>2, <1>3 DEF PlanFor, OurCommand

LEMMA LayoutsAre == \A l \in Layouts : l \in Seq(Seq(Command)) /\ InBounds(l)
<1>1. \A f \in Others : f \in Command
  BY DEF Command
<1>2. \A old \in [relay : Prefix, route : {"legacy"}] : old \in Command
  BY DEF Command, Ours, PostRoute
<1>3. <<>> \in Seq(Seq(Command))
  OBVIOUS
<1>4. ASSUME NEW f \in Command, NEW old \in Command
      PROVE  {<<<<f>>>>, <<<<old>>>>, <<<<f>>, <<old>>>>, <<<<old>>, <<f>>>>,
              <<<<old, f>>>>, <<<<old>>, <<f>>, <<old>>>>} \subseteq Seq(Seq(Command))
  <2>1. <<f>> \in Seq(Command) /\ <<old>> \in Seq(Command) /\ <<old, f>> \in Seq(Command)
    OBVIOUS
  <2>2. \A a, b, c \in Seq(Command) :
          <<a>> \in Seq(Seq(Command)) /\ <<a, b>> \in Seq(Seq(Command)) /\ <<a, b, c>> \in Seq(Seq(Command))
    OBVIOUS
  <2> QED BY <2>1, <2>2
<1> SUFFICES ASSUME NEW l \in Layouts PROVE l \in Seq(Seq(Command)) /\ InBounds(l)
  OBVIOUS
<1>5. InBounds(l)
  BY DEF Layouts
<1>6. l = <<>> \/ \E f \in Others, old \in [relay : Prefix, route : {"legacy"}] :
        l \in {<<<<f>>>>, <<<<old>>>>, <<<<f>>, <<old>>>>, <<<<old>>, <<f>>>>,
              <<<<old, f>>>>, <<<<old>>, <<f>>, <<old>>>>}
  BY DEF Layouts
<1> QED BY <1>1, <1>2, <1>3, <1>4, <1>5, <1>6

LEMMA EditHooksIs ==
  ASSUME hooks \in Seq(Seq(Command)), EditHooks
  PROVE  hooks' \in Seq(Seq(Command)) /\ InBounds(hooks')
<1>0. InBounds(hooks')
  BY DEF EditHooks
<1>1. Len(hooks) \in Nat /\ DOMAIN hooks = 1..Len(hooks) /\ \A i \in DOMAIN hooks : hooks[i] \in Seq(Command)
  OBVIOUS
<1>2. ASSUME NEW f \in Others, hooks' = <<<<f>>>> \o hooks
      PROVE  hooks' \in Seq(Seq(Command))
  <2>1. <<<<f>>>> \in Seq(Seq(Command))
    BY DEF Command
  <2> QED BY <1>2, <2>1, Concat
<1>3. ASSUME NEW i \in DOMAIN hooks, hooks' = Selected(hooks, DOMAIN hooks \ {i})
      PROVE  hooks' \in Seq(Seq(Command))
  <2>1. DOMAIN hooks \ {i} \in SUBSET (1..Len(hooks)) /\ \A j \in DOMAIN hooks \ {i} : hooks[j] \in Seq(Command)
    BY <1>1
  <2> QED BY <1>1, <1>3, <2>1, SelectedIs
<1>4. ASSUME NEW i \in DOMAIN hooks, i + 1 \in DOMAIN hooks,
             hooks' = [hooks EXCEPT ![i] = hooks[i + 1], ![i + 1] = hooks[i]]
      PROVE  hooks' \in Seq(Seq(Command))
  <2> DEFINE one == [hooks EXCEPT ![i] = hooks[i + 1]]
  <2>1. one \in Seq(Seq(Command)) /\ Len(one) = Len(hooks)
    BY <1>1, <1>4, ExceptSeq
  <2>2. hooks' = [one EXCEPT ![i + 1] = hooks[i]]
    BY <1>4
  <2>3. i + 1 \in 1..Len(one) /\ hooks[i] \in Seq(Command)
    BY <1>1, <1>4, <2>1
  <2> HIDE DEF one
  <2> QED BY <2>1, <2>2, <2>3, ExceptSeq
<1>5. ASSUME NEW i \in DOMAIN hooks, NEW c \in Command, NEW h \in DOMAIN hooks[i],
             hooks' = [hooks EXCEPT ![i][h] = c]
      PROVE  hooks' \in Seq(Seq(Command))
  <2> DEFINE group == [hooks[i] EXCEPT ![h] = c]
  <2>1. hooks[i] \in Seq(Command) /\ h \in 1..Len(hooks[i])
    BY <1>1
  <2>2. group \in Seq(Command)
    BY <2>1, ExceptSeq
  <2>3. hooks' = [hooks EXCEPT ![i] = group]
    BY <1>5
  <2> HIDE DEF group
  <2> QED BY <1>1, <2>2, <2>3, ExceptSeq
<1> QED BY <1>0, <1>2, <1>3, <1>4, <1>5 DEF EditHooks

LEMMA TrustInitTyped == TrustInit => TrustTypeOK
<1> SUFFICES ASSUME TrustInit PROVE TrustTypeOK
  OBVIOUS
<1>1. hooks \in Seq(Seq(Command)) /\ InBounds(hooks)
  BY LayoutsAre DEF TrustInit
<1>2. state \in Approvals /\ 0 \in 0..MaxInits /\ 0 \in 0..MaxByHand
  BY PosIs DEF TrustInit, Approvals
<1> QED BY <1>1, <1>2 DEF TrustInit, TrustTypeOK

LEMMA TrustPlanIs ==
  ASSUME hooks \in Seq(Seq(Command)), NEW r \in Prefix, NEW migrate
  PROVE  /\ TrustPlan(r, migrate).was = hooks /\ TrustPlan(r, migrate).merged \in Seq(Seq(Command))
         /\ TrustPlan(r, migrate).config = config /\ TrustPlan(r, migrate).state = state
         /\ TrustPlan(r, migrate).relay = r /\ TrustPlan(r, migrate).migrate = migrate
<1>1. PlanFor(hooks, config, state, shadow, r, migrate).merged \in Seq(Seq(Command))
  BY PlanForIs
<1> QED BY <1>1 DEF TrustPlan, PlanFor

LEMMA ReadIs ==
  ASSUME hooks \in Seq(Seq(Command)), NEW r \in Prefix, NEW migrate, Read(r, migrate)
  PROVE  /\ plan'.was = hooks /\ plan'.merged \in Seq(Seq(Command)) /\ plan'.config = config
         /\ plan'.state = state /\ plan'.relay = r /\ plan'.migrate = migrate
<1>1. plan' = TrustPlan(r, migrate)
  BY DEF Read
<1> QED BY <1>1, TrustPlanIs

LEMMA SwitchedIs ==
  ASSUME NEW approval \in Approval \cup {Absent}
  PROVE  /\ Switched(approval) \in Approval
         /\ approval # Absent => Switched(approval).hash = approval.hash
<1>1. CASE approval = Absent
  BY <1>1 DEF Switched, Approval
<1>2. CASE approval # Absent
  <2>1. approval \in Approval
    BY <1>2
  <2>2. (~approval.disabled) \in BOOLEAN
    OBVIOUS
  <2> QED BY <1>2, <2>1, <2>2 DEF Switched, Approval
<1> QED BY <1>1, <1>2

LEMMA OneMore ==
  \A m \in Nat : \A k \in 0..m : k < m => k + 1 \in 0..m
  OBVIOUS

LEMMA TrustStepTyped == TrustTypeOK /\ [TrustNext]_trust => TrustTypeOK'
<1> SUFFICES ASSUME TrustTypeOK, [TrustNext]_trust PROVE TrustTypeOK'
  OBVIOUS
<1> USE DEF TrustTypeOK
<1>1. CASE UNCHANGED trust
  BY <1>1 DEF trust, trustFiles, InBounds
<1>2. ASSUME NEW r \in Prefix, NEW migrate \in BOOLEAN, Read(r, migrate)
      PROVE  TrustTypeOK'
  <2>1. /\ plan'.was = hooks /\ plan'.merged \in Seq(Seq(Command)) /\ plan'.config = config
        /\ plan'.state = state /\ plan'.relay = r /\ plan'.migrate = migrate
    BY <1>2, ReadIs
  <2>2. inits' \in 0..MaxInits
    BY <1>2, PosIs, OneMore DEF Read
  <2>3. stage' = "config" /\ UNCHANGED <<hooks, config, state, shadow, byHand, how>>
    BY <1>2 DEF Read, trustFiles
  <2>4. InBounds(plan'.merged)
    BY <1>2 DEF Read
  <2> QED BY <2>1, <2>2, <2>3, <2>4 DEF InBounds
<1>3. CASE WriteConfig
  <2>1. Pruned(plan.state) \in Approvals
    BY <1>3 DEF WriteConfig, Pruned, Approvals
  <2>2. state' \in Approvals /\ config' \in Form
    BY <1>3, <2>1 DEF WriteConfig
  <2>3. how' \in [Pos -> {"none", "before", "during init", "unattested", "reviewed", "overwritten", "kept"}]
    BY <1>3 DEF WriteConfig
  <2>4. stage' = "hooks" /\ stage # "idle" /\ UNCHANGED <<hooks, shadow, plan, inits, byHand>>
    BY <1>3 DEF WriteConfig
  <2> QED BY <2>2, <2>3, <2>4 DEF InBounds
<1>4. CASE WriteHooks
  BY <1>4 DEF WriteHooks, InBounds
<1>5. CASE WriteShadow
  <2>1. shadow' \in Shadow \cup {Absent}
    <3>1. \A o \in Pos : CommandAt(plan.merged, o) \in Command \cup {Absent}
      BY <1>5, CommandAtIs DEF WriteShadow
    <3> QED BY <1>5, <3>1 DEF WriteShadow, Shadow
  <2>2. stage' = "done" /\ stage # "idle" /\ UNCHANGED <<hooks, config, state, plan, inits, byHand, how>>
    BY <1>5 DEF WriteShadow
  <2> QED BY <2>1, <2>2 DEF InBounds
<1>6. CASE Done \/ StopInit
  BY <1>6 DEF Done, StopInit, trustFiles, InBounds
<1>7. ASSUME NEW o \in Pos, Approve(o)
      PROVE  TrustTypeOK'
  <2>1. CommandAt(hooks, o) \in Command \cup {Absent}
    BY CommandAtIs
  <2>2. state' \in Approvals
    BY <1>7, <2>1 DEF Approve, Approvals, Approval
  <2>3. how' \in [Pos -> {"none", "before", "during init", "unattested", "reviewed", "overwritten", "kept"}]
    BY <1>7 DEF Approve
  <2>4. UNCHANGED <<hooks, config, shadow, stage, plan, inits, byHand>>
    BY <1>7 DEF Approve
  <2> QED BY <2>2, <2>3, <2>4 DEF InBounds
<1>8. ASSUME NEW o \in Pos, Toggle(o)
      PROVE  TrustTypeOK'
  <2>1. state' \in Approvals
    BY <1>8, SwitchedIs DEF Toggle, Approvals
  <2>2. byHand' \in 0..MaxByHand
    BY <1>8, PosIs, OneMore DEF Toggle
  <2>3. UNCHANGED <<hooks, config, shadow, stage, plan, inits, how>>
    BY <1>8 DEF Toggle
  <2> QED BY <2>1, <2>2, <2>3 DEF InBounds
<1>9. CASE EditHooks
  <2>1. hooks' \in Seq(Seq(Command)) /\ InBounds(hooks')
    BY <1>9, EditHooksIs
  <2>2. byHand' \in 0..MaxByHand /\ UNCHANGED <<config, state, shadow, stage, plan, inits, how>>
    BY <1>9, PosIs, OneMore DEF EditHooks
  <2> QED BY <2>1, <2>2 DEF InBounds
<1>10. CASE EditConfig
  <2>1. byHand' \in 0..MaxByHand /\ config' \in Form /\ UNCHANGED <<hooks, state, shadow, stage, plan, inits, how>>
    BY <1>10, PosIs, OneMore DEF EditConfig
  <2> QED BY <2>1 DEF InBounds
<1> QED BY <1>1, <1>2, <1>3, <1>4, <1>5, <1>6, <1>7, <1>8, <1>9, <1>10 DEF TrustNext

(* Every variable of the trust of the hooks keeps its type. *)
THEOREM TrustTypeCorrect == TrustSpec => []TrustTypeOK
  BY TrustInitTyped, TrustStepTyped, PTL DEF TrustSpec

-----------------------------------------------------------------------------
(* What keeps approvals warranted.                                          *)
LEMMA TrustInvHolds == TrustInit => TrustInv
<1> SUFFICES ASSUME TrustInit PROVE TrustInv
  OBVIOUS
<1>1. TrustTypeOK
  BY TrustInitTyped
<1>2. stage = "idle" /\ how = [o \in Pos |-> "none"]
  BY DEF TrustInit
<1>3. \A o \in Pos : ~Reviewed(o)
  BY <1>2 DEF Reviewed
<1> QED BY <1>1, <1>2, <1>3 DEF TrustInv, PlanFits, ReviewedFits, ReviewedWasRead, ReviewedStays

LEMMA PlanFitsStays == TrustTypeOK /\ PlanFits /\ [TrustNext]_trust => PlanFits'
<1> SUFFICES ASSUME TrustTypeOK, PlanFits, [TrustNext]_trust PROVE PlanFits'
  OBVIOUS
<1>1. ASSUME UNCHANGED <<shadow, plan, stage>>
      PROVE  PlanFits'
  <2>1. \A sh : PlannedFrom(sh) => PlannedFrom(sh)'
    BY <1>1 DEF PlannedFrom
  <2>2. ASSUME NEW sh, PlannedFrom(sh), shadow = [o \in Pos |-> CommandAt(plan.merged, o)]
        PROVE  \E x : PlannedFrom(x)' /\ shadow' = [o \in Pos |-> CommandAt(plan'.merged, o)]
    BY <1>1, <2>1, <2>2
  <2> QED BY <1>1, <2>1, <2>2 DEF PlanFits
<1>2. ASSUME NEW r \in Prefix, NEW migrate \in BOOLEAN, Read(r, migrate)
      PROVE  PlanFits'
  <2>1. /\ plan' = PlanFor(hooks, config, state, shadow, r, migrate)
        /\ stage' = "config" /\ shadow' = shadow
    BY <1>2 DEF Read, TrustPlan, trustFiles
  <2>2. /\ plan'.was = hooks /\ plan'.config = config
        /\ plan'.state = state /\ plan'.relay = r /\ plan'.migrate = migrate
    BY <1>2, ReadIs DEF TrustTypeOK
  <2> QED BY <2>1, <2>2 DEF PlanFits, PlannedFrom
<1>3. CASE WriteConfig
  BY <1>3 DEF WriteConfig, PlanFits, PlannedFrom
<1>4. CASE WriteHooks
  BY <1>4 DEF WriteHooks, PlanFits, PlannedFrom
<1>5. CASE WriteShadow
  <2>1. PlannedFrom(shadow) /\ plan' = plan /\ stage' = "done"
    BY <1>5 DEF WriteShadow, PlanFits
  <2>2. CASE shadow' = shadow
    BY <2>1, <2>2 DEF PlanFits, PlannedFrom
  <2>3. CASE shadow' = [o \in Pos |-> CommandAt(plan.merged, o)]
    <3>1. PlannedFrom(shadow)'  \/ \E x : PlannedFrom(x)' /\ shadow' = [o \in Pos |-> CommandAt(plan'.merged, o)]
      BY <2>1, <2>3 DEF PlannedFrom
    <3> QED BY <2>1, <3>1 DEF PlanFits
  <2> QED BY <1>5, <2>2, <2>3 DEF WriteShadow
<1>6. CASE Done \/ StopInit
  BY <1>6 DEF Done, StopInit, PlanFits
<1>7. ASSUME NEW o \in Pos, Approve(o) \/ Toggle(o)
      PROVE  PlanFits'
  BY <1>1, <1>7 DEF Approve, Toggle
<1>8. CASE EditHooks \/ EditConfig
  BY <1>1, <1>8 DEF EditHooks, EditConfig
<1>9. CASE UNCHANGED trust
  BY <1>1, <1>9 DEF trust, trustFiles
<1> QED BY <1>2, <1>3, <1>4, <1>5, <1>6, <1>7, <1>8, <1>9 DEF TrustNext

(* What init decides to prune. *)
LEMMA GoneIs ==
  ASSUME TrustTypeOK, stage # "idle", NEW sh, PlannedFrom(sh)
  PROVE  /\ plan.merged = Merge(plan.was, OurCommand(plan.was, plan.state, sh, plan.relay, plan.migrate))
         /\ OurCommand(plan.was, plan.state, sh, plan.relay, plan.migrate) \in Ours
         /\ OurCommand(plan.was, plan.state, sh, plan.relay, plan.migrate) \in Command
         /\ plan.was \in Seq(Seq(Command)) /\ plan.merged \in Seq(Seq(Command))
         /\ plan.state \in Approvals /\ plan.relay \in Prefix
         /\ plan.gone = Invalidated(plan.was, plan.merged, plan.state, sh)
<1> DEFINE w == plan.was
           cmd == OurCommand(w, plan.state, sh, plan.relay, plan.migrate)
           new == PlanFor(w, plan.config, plan.state, sh, plan.relay, plan.migrate)
<1>1. /\ w \in Seq(Seq(Command)) /\ plan.merged \in Seq(Seq(Command))
      /\ plan.state \in Approvals /\ plan.relay \in Prefix
  BY DEF TrustTypeOK
<1>2. plan = new
  BY DEF PlannedFrom
<1>3. /\ new.merged = Merge(w, cmd) /\ cmd \in Ours /\ cmd \in Command
      /\ new.gone = Invalidated(w, Merge(w, cmd), plan.state, sh)
  BY <1>1, PlanForIs
<1> HIDE DEF w, cmd, new
<1>4. plan.merged = Merge(w, cmd) /\ plan.gone = Invalidated(w, plan.merged, plan.state, sh)
  BY <1>2, <1>3
<1> QED BY <1>1, <1>3, <1>4 DEF w, cmd

LEMMA ReviewedFitsStays ==
  TrustTypeOK /\ ReviewedFits /\ ReviewedStays /\ [TrustNext]_trust => ReviewedFits'
<1> SUFFICES ASSUME TrustTypeOK, ReviewedFits, ReviewedStays, [TrustNext]_trust,
                    NEW o \in Pos, Reviewed(o)'
             PROVE  /\ state'[o] # Absent /\ shadow' # Absent
                    /\ IsWaykeep(shadow'[o]) => state'[o].hash = shadow'[o]
  BY DEF ReviewedFits
<1>0. /\ state \in [Pos -> Approval \cup {Absent}] /\ DOMAIN how = Pos /\ how'[o] = "reviewed"
      /\ Absent \notin Approval /\ Absent \notin Shadow
  BY TrustAssumption DEF TrustTypeOK, Approvals, Reviewed
<1>1. ASSUME UNCHANGED <<state, shadow, how>>
      PROVE  /\ state'[o] # Absent /\ shadow' # Absent
             /\ IsWaykeep(shadow'[o]) => state'[o].hash = shadow'[o]
  BY <1>0, <1>1 DEF ReviewedFits, Reviewed
<1>2. ASSUME NEW r \in Prefix, NEW migrate \in BOOLEAN, Read(r, migrate)
      PROVE  UNCHANGED <<state, shadow, how>>
  BY <1>2 DEF Read, trustFiles
<1>3. CASE WriteConfig
  <2>1. how[o] = "reviewed" /\ state'[o] = state[o] /\ shadow' = shadow
    BY <1>0, <1>3 DEF WriteConfig
  <2> QED BY <2>1 DEF ReviewedFits, Reviewed
<1>4. CASE WriteHooks \/ Done \/ StopInit \/ EditHooks \/ EditConfig \/ UNCHANGED trust
  <2>1. UNCHANGED <<state, shadow, how>>
    BY <1>4 DEF WriteHooks, Done, StopInit, EditHooks, EditConfig, trust, trustFiles
  <2> QED BY <1>1, <2>1
<1>5. CASE WriteShadow
  <2>1. CASE shadow' = shadow
    BY <1>1, <1>5, <2>1 DEF WriteShadow
  <2>2. CASE shadow' = [x \in Pos |-> CommandAt(plan.merged, x)]
    <3>1. stage = "shadow" /\ how[o] = "reviewed" /\ state' = state /\ shadow'[o] = CommandAt(plan.merged, o)
      BY <1>0, <1>5, <2>2 DEF WriteShadow
    <3>2. /\ state[o] # Absent /\ shadow # Absent /\ (IsWaykeep(shadow[o]) => state[o].hash = shadow[o])
          /\ ~Doubtful(plan.was, plan.merged, shadow, o)
      BY <3>1 DEF ReviewedFits, ReviewedStays, Reviewed
    <3>3. shadow' # Absent
      <4>1. \A x \in Pos : CommandAt(plan.merged, x) \in Command \cup {Absent}
        BY <3>1, CommandAtIs DEF TrustTypeOK
      <4>2. shadow' \in Shadow
        BY <2>2, <4>1 DEF Shadow
      <4> QED BY <1>0, <4>2
    <3> QED BY <3>1, <3>2, <3>3 DEF Doubtful, Unattested
  <2> QED BY <1>5, <2>1, <2>2 DEF WriteShadow
<1>6. ASSUME NEW p \in Pos, Approve(p)
      PROVE  /\ state'[o] # Absent /\ shadow' # Absent
             /\ IsWaykeep(shadow'[o]) => state'[o].hash = shadow'[o]
  <2>1. CASE o # p
    <3>1. how[o] = "reviewed" /\ state'[o] = state[o] /\ shadow' = shadow
      BY <1>0, <1>6, <2>1 DEF Approve
    <3> QED BY <3>1 DEF ReviewedFits, Reviewed
  <2>2. CASE o = p
    <3>1. shadow' = shadow /\ state'[p] = [hash |-> CommandAt(hooks, p), disabled |-> FALSE]
      BY <1>0, <1>6 DEF Approve
    <3>2. stage = "idle" /\ shadow # Absent /\ shadow[p] = CommandAt(hooks, p)
      BY <1>0, <1>6, <2>2 DEF Approve
    <3>3. CommandAt(hooks, p) \in Command \cup {Absent}
      BY CommandAtIs DEF TrustTypeOK
    <3>4. state'[p] \in Approval
      BY <3>1, <3>3 DEF Approval
    <3>5. state'[p] # Absent
      BY <1>0, <3>4
    <3>6. state'[p].hash = shadow'[p] /\ shadow' # Absent
      BY <3>1, <3>2
    <3> QED BY <2>2, <3>5, <3>6
  <2> QED BY <2>1, <2>2
<1>7. ASSUME NEW p \in Pos, Toggle(p)
      PROVE  /\ state'[o] # Absent /\ shadow' # Absent
             /\ IsWaykeep(shadow'[o]) => state'[o].hash = shadow'[o]
  <2>1. how[o] = "reviewed" /\ shadow' = shadow
    BY <1>0, <1>7 DEF Toggle
  <2>2. /\ state[o] # Absent /\ shadow # Absent /\ (IsWaykeep(shadow[o]) => state[o].hash = shadow[o])
    BY <2>1 DEF ReviewedFits, Reviewed
  <2>3. state[o] \in Approval
    BY <1>0, <2>2
  <2>4. state'[o] = IF o = p THEN Switched(state[o]) ELSE state[o]
    BY <1>0, <1>7 DEF Toggle
  <2>5. Switched(state[o]) \in Approval /\ Switched(state[o]).hash = state[o].hash
    BY <2>2, <2>3, SwitchedIs
  <2> QED BY <1>0, <2>1, <2>2, <2>4, <2>5
<1> QED BY <1>1, <1>2, <1>3, <1>4, <1>5, <1>6, <1>7 DEF TrustNext

LEMMA ReviewedWasReadStays ==
  TrustTypeOK /\ ReviewedFits /\ ReviewedWasRead /\ [TrustNext]_trust => ReviewedWasRead'
<1> SUFFICES ASSUME TrustTypeOK, ReviewedFits, ReviewedWasRead, [TrustNext]_trust,
                    stage' = "config", NEW o \in Pos, Reviewed(o)'
             PROVE  plan'.state[o] # Absent
  BY DEF ReviewedWasRead
<1>0. DOMAIN how = Pos /\ how'[o] = "reviewed"
  BY DEF TrustTypeOK, Reviewed
<1>1. ASSUME UNCHANGED <<stage, plan>>, how[o] = "reviewed"
      PROVE  plan'.state[o] # Absent
  BY <1>1 DEF ReviewedWasRead, Reviewed
<1>2. ASSUME NEW r \in Prefix, NEW migrate \in BOOLEAN, Read(r, migrate)
      PROVE  plan'.state[o] # Absent
  <2>1. plan'.state = state
    BY <1>2, ReadIs DEF TrustTypeOK
  <2>2. how[o] = "reviewed"
    BY <1>0, <1>2 DEF Read
  <2> QED BY <2>1, <2>2 DEF ReviewedFits, Reviewed
<1>3. ASSUME NEW p \in Pos, Approve(p)
      PROVE  plan'.state[o] # Absent
  <2>1. UNCHANGED <<stage, plan>> /\ stage # "idle"
    BY <1>3 DEF Approve
  <2>2. how[o] = "reviewed"
    BY <1>0, <1>3, <2>1 DEF Approve
  <2> QED BY <1>1, <2>1, <2>2
<1>4. ASSUME NEW p \in Pos, Toggle(p)
      PROVE  plan'.state[o] # Absent
  BY <1>0, <1>1, <1>4 DEF Toggle
<1>5. CASE EditHooks \/ EditConfig \/ UNCHANGED trust
  <2>1. UNCHANGED <<stage, plan, how>>
    BY <1>5 DEF EditHooks, EditConfig, trust
  <2> QED BY <1>0, <1>1, <2>1
<1>6. ~WriteConfig /\ ~WriteHooks /\ ~WriteShadow /\ ~Done /\ ~StopInit
  BY DEF WriteConfig, WriteHooks, WriteShadow, Done, StopInit
<1> QED BY <1>2, <1>3, <1>4, <1>5, <1>6 DEF TrustNext

LEMMA ReviewedStaysSo == TrustInv /\ [TrustNext]_trust => ReviewedStays'
<1> SUFFICES ASSUME TrustInv, [TrustNext]_trust,
                    stage' \in {"hooks", "shadow"}, NEW o \in Pos, Reviewed(o)'
             PROVE  ~Doubtful(plan'.was, plan'.merged, shadow', o)
  BY DEF ReviewedStays
<1> USE DEF TrustInv
<1>0. DOMAIN how = Pos /\ how'[o] = "reviewed" /\ DOMAIN state = Pos
  BY DEF TrustTypeOK, Reviewed, Approvals
<1>1. ASSUME UNCHANGED <<plan, shadow>>, stage \in {"hooks", "shadow"}, how[o] = "reviewed"
      PROVE  ~Doubtful(plan'.was, plan'.merged, shadow', o)
  BY <1>1 DEF ReviewedStays, Reviewed
<1>2. CASE WriteConfig
  <2>1. /\ stage = "config" /\ UNCHANGED <<plan, shadow>>
        /\ how[o] = "reviewed" /\ state'[o] = state[o] /\ ~ToBeKept(o)
    BY <1>0, <1>2 DEF WriteConfig
  <2>2. state[o] # Absent /\ plan.state[o] # Absent
    BY <2>1 DEF ReviewedFits, ReviewedWasRead, Reviewed
  <2> SUFFICES ASSUME Doubtful(plan.was, plan.merged, shadow, o) PROVE FALSE
    BY <2>1
  <2>3. plan.config = "plain" /\ ~Off(plan.state, o)
    BY <2>1 DEF ToBeKept
  <2>4. plan.gone = Invalidated(plan.was, plan.merged, plan.state, shadow)
    <3>1. PlannedFrom(shadow)
      BY <2>1 DEF PlanFits
    <3> QED BY <2>1, <3>1, GoneIs
  <2>5. o \in plan.gone
    BY <2>2, <2>3, <2>4 DEF Invalidated
  <2>6. state' = Pruned(plan.state)
    BY <1>2, <2>3, <2>5 DEF WriteConfig
  <2> QED BY <2>1, <2>2, <2>5, <2>6 DEF Pruned
<1>3. CASE WriteHooks
  BY <1>0, <1>1, <1>3 DEF WriteHooks
<1>4. ASSUME NEW p \in Pos, Approve(p)
      PROVE  ~Doubtful(plan'.was, plan'.merged, shadow', o)
  <2>1. UNCHANGED <<stage, plan, shadow>> /\ stage # "idle"
    BY <1>4 DEF Approve
  <2>2. how[o] = "reviewed"
    BY <1>0, <1>4, <2>1 DEF Approve
  <2> QED BY <1>1, <2>1, <2>2
<1>5. ASSUME NEW p \in Pos, Toggle(p)
      PROVE  ~Doubtful(plan'.was, plan'.merged, shadow', o)
  BY <1>0, <1>1, <1>5 DEF Toggle
<1>6. CASE EditHooks \/ EditConfig \/ UNCHANGED trust
  <2>1. UNCHANGED <<stage, plan, how, shadow>>
    BY <1>6 DEF EditHooks, EditConfig, trust, trustFiles
  <2> QED BY <1>0, <1>1, <2>1
<1>7. ~WriteShadow /\ ~Done /\ ~StopInit /\ \A r \in Prefix, migrate \in BOOLEAN : ~Read(r, migrate)
  BY DEF WriteShadow, Done, StopInit, Read
<1> QED BY <1>2, <1>3, <1>4, <1>5, <1>6, <1>7 DEF TrustNext

LEMMA TrustInvStays == TrustInv /\ [TrustNext]_trust => TrustInv'
  BY TrustStepTyped, PlanFitsStays, ReviewedFitsStays, ReviewedWasReadStays, ReviewedStaysSo DEF TrustInv

(* What FalseTrustHasACause and InitIsIdempotent need of it. *)
LEMMA FalseTrustIs == TrustInv => FalseTrustHasACause
<1> SUFFICES ASSUME TrustInv, NEW o \in Reported(hooks, state, shadow),
                    IsWaykeep(CommandAt(hooks, o)), shadow # Absent, how[o] = "reviewed"
             PROVE  Runs(o)
  BY DEF FalseTrustHasACause
<1>1. o \in Pos /\ Live(state, o) /\ ~Unattested(hooks, shadow, o)
  BY DEF Reported
<1>2. shadow[o] = CommandAt(hooks, o)
  BY <1>1 DEF Unattested
<1>3. state[o].hash = shadow[o]
  BY <1>1, <1>2 DEF TrustInv, ReviewedFits, Reviewed
<1> QED BY <1>1, <1>2, <1>3 DEF Runs

(* The route a second run takes is that of the first. *)
LEMMA RouteAgain ==
  ASSUME NEW file \in Seq(Seq(Command)), Tidy(file), NEW st, NEW sh, NEW now, NEW after,
         NEW relay \in Prefix, NEW migrate,
         NEW merged, merged = Merge(file, OurCommand(file, st, sh, relay, migrate)),
         \A o \in Pos : o \notin Invalidated(file, merged, st, sh) => after[o] = st[o],
         now = sh \/ now = [o \in Pos |-> CommandAt(merged, o)]
  PROVE  RouteFor(merged, after, now, relay, migrate) = RouteFor(file, st, sh, relay, migrate)
<1> DEFINE candidate == [relay |-> relay, route |-> "legacy"]
           cmd == OurCommand(file, st, sh, relay, migrate)
<1>1. cmd \in Ours /\ cmd \in Command /\ candidate \in Ours /\ Absent \notin Ours
  BY PlanForIs, TrustAssumption DEF Ours, PostRoute, Command
<1>2. cmd = [relay |-> relay, route |-> RouteFor(file, st, sh, relay, migrate)]
  BY DEF OurCommand
<1>3. CASE migrate
  BY <1>3 DEF RouteFor
<1>4. ASSUME ~migrate, NEW o \in Reported(file, st, sh), CommandAt(file, o) = candidate
      PROVE  RouteFor(merged, after, now, relay, migrate) = RouteFor(file, st, sh, relay, migrate)
  <2>1. RouteFor(file, st, sh, relay, migrate) = "legacy"
    BY <1>4 DEF RouteFor
  <2>2. o \in Pos /\ Live(st, o) /\ ~Unattested(file, sh, o)
    BY DEF Reported
  <2>3. o[1] \in OurGroups(file) /\ o[2] = 1
    BY <1>1, <1>4, <2>2, OursIsAlone DEF IsWaykeep
  <2>4. CommandAt(merged, o) = candidate
    BY <1>1, <1>2, <2>1, <2>2, <2>3, MergedAt
  <2>5. ~Doubtful(file, merged, sh, o)
    BY <1>4, <2>2, <2>4 DEF Doubtful, Unattested
  <2>6. after[o] = st[o]
    BY <2>2, <2>5 DEF Invalidated
  <2>7. Live(after, o)
    BY <2>2, <2>6 DEF Live, Off
  <2>8. ~Unattested(merged, now, o)
    BY <2>2, <2>5 DEF Doubtful, Unattested
  <2>9. o \in Reported(merged, after, now)
    BY <1>1, <2>2, <2>4, <2>7, <2>8 DEF Reported
  <2> QED BY <1>4, <2>1, <2>4, <2>9 DEF RouteFor
<1>5. ASSUME ~migrate, \A o \in Reported(file, st, sh) : CommandAt(file, o) # candidate
      PROVE  RouteFor(merged, after, now, relay, migrate) = RouteFor(file, st, sh, relay, migrate)
  <2>1. RouteFor(file, st, sh, relay, migrate) = "canonical"
    BY <1>5 DEF RouteFor
  <2>2. cmd # candidate
    BY <1>2, <2>1
  <2>3. ASSUME NEW o \in Reported(merged, after, now), CommandAt(merged, o) = candidate
        PROVE  FALSE
    <3>1. o \in Pos
      BY DEF Reported
    <3> QED BY <1>1, <2>2, <2>3, <3>1, MergedAt DEF IsWaykeep
  <2> QED BY <2>1, <2>3 DEF RouteFor
<1> QED BY <1>3, <1>4, <1>5

LEMMA IdempotentIs == TrustInv => InitIsIdempotent
<1> DEFINE again == TrustPlan(plan.relay, plan.migrate)
<1> SUFFICES ASSUME TrustInv, stage = "done", hooks = plan.merged, state = Pruned(plan.state), Tidy(plan.was)
             PROVE  again.merged = hooks /\ again.gone = {}
  BY DEF InitIsIdempotent
<1>1. PICK sh : PlannedFrom(sh) /\ (shadow = sh \/ shadow = [o \in Pos |-> CommandAt(plan.merged, o)])
  BY DEF TrustInv, PlanFits
<1> DEFINE cmd == OurCommand(plan.was, plan.state, sh, plan.relay, plan.migrate)
<1>2. /\ plan.merged = Merge(plan.was, cmd) /\ cmd \in Ours /\ cmd \in Command
      /\ plan.was \in Seq(Seq(Command)) /\ plan.merged \in Seq(Seq(Command))
      /\ plan.state \in Approvals /\ plan.relay \in Prefix
      /\ plan.gone = Invalidated(plan.was, plan.merged, plan.state, sh)
  BY <1>1, GoneIs DEF TrustInv
<1>3. \A o \in Pos : o \notin plan.gone => state[o] = plan.state[o]
  BY DEF Pruned
<1>4. RouteFor(hooks, state, shadow, plan.relay, plan.migrate)
        = RouteFor(plan.was, plan.state, sh, plan.relay, plan.migrate)
  BY <1>1, <1>2, <1>3, RouteAgain
<1>5. OurCommand(hooks, state, shadow, plan.relay, plan.migrate) = cmd
  BY <1>4 DEF OurCommand
<1>6. Merge(hooks, cmd) = hooks
  BY <1>2, MergedAgain
<1>7. again.merged = hooks /\ again.gone = Invalidated(hooks, hooks, state, shadow)
  BY <1>2, <1>5, <1>6, PlanForIs DEF TrustPlan
<1>8. ASSUME NEW o \in Invalidated(hooks, hooks, state, shadow)
      PROVE  FALSE
  <2>1. o \in Pos /\ state[o] # Absent /\ ~Off(state, o) /\ Unattested(hooks, shadow, o)
    BY DEF Invalidated, Doubtful
  <2>2. shadow = sh
    BY <1>1, <2>1 DEF Unattested
  <2>3. o \notin plan.gone /\ state[o] = plan.state[o]
    BY <2>1 DEF Pruned
  <2>4. plan.state[o] # Absent /\ ~Off(plan.state, o)
    BY <2>1, <2>3 DEF Off
  <2>5. o \in plan.gone
    BY <1>2, <2>1, <2>2, <2>4 DEF Invalidated, Doubtful
  <2> QED BY <2>3, <2>5
<1> QED BY <1>7, <1>8

(* A hook of ours that Codex skips though doctor reports it as trusted has one of *)
(* the known causes, and a second run of init finds nothing to do.          *)
THEOREM InitIsWarrantedHolds == TrustSpec => []InitIsWarranted
<1>1. TrustInv => InitIsWarranted
  BY FalseTrustIs, IdempotentIs DEF InitIsWarranted
<1> QED BY <1>1, TrustInvHolds, TrustInvStays, PTL DEF TrustSpec

-----------------------------------------------------------------------------
(* What a run costs in approvals.                                           *)

(* A tidy file's other hooks stay where they are. *)
LEMMA OthersStay ==
  ASSUME NEW file \in Seq(Seq(Command)), Tidy(file), NEW cmd \in Command, NEW o \in Pos,
         CommandAt(file, o) # Absent, ~IsWaykeep(CommandAt(file, o))
  PROVE  CommandAt(Merge(file, cmd), o) = CommandAt(file, o)
<1>1. o[1] \in DOMAIN file /\ o[2] \in DOMAIN file[o[1]] /\ ~IsWaykeep(file[o[1]][o[2]])
  BY DEF CommandAt
<1>2. ~AllOurs(file[o[1]])
  BY <1>1 DEF AllOurs
<1> QED BY <1>1, <1>2, MergedAt DEF OurGroups

LEMMA InitStepIs ==
  ASSUME TrustInv, InitStep
  PROVE  /\ PlannedFrom(shadow) /\ stage # "idle" /\ TrustTypeOK /\ plan' = plan /\ shadow' = shadow
         /\ \/ hooks' = hooks /\ state' = state
            \/ hooks' = hooks /\ state' = Pruned(plan.state)
            \/ hooks' = plan.merged /\ state' = state
<1>1. CASE WriteConfig
  BY <1>1 DEF WriteConfig, TrustInv, PlanFits
<1>2. CASE WriteHooks
  BY <1>2 DEF WriteHooks, TrustInv, PlanFits
<1> QED BY <1>1, <1>2 DEF InitStep

(* A hook init has no doubt of. *)
LEMMA UndoubtedRuns ==
  ASSUME TrustInv, InitStep, NEW o \in Pos, Runs(o), plan.was = hooks, plan.state[o] = state[o],
         ~Doubtful(hooks, plan.merged, shadow, o)
  PROVE  Runs(o)'
<1>1. /\ PlannedFrom(shadow) /\ stage # "idle" /\ TrustTypeOK
      /\ \/ hooks' = hooks /\ state' = state
         \/ hooks' = hooks /\ state' = Pruned(plan.state)
         \/ hooks' = plan.merged /\ state' = state
  BY InitStepIs
<1>2. plan.gone = Invalidated(plan.was, plan.merged, plan.state, shadow)
  BY <1>1, GoneIs
<1>3. o \notin plan.gone
  BY <1>2 DEF Invalidated
<1>4. state'[o] = state[o]
  BY <1>1, <1>3 DEF Pruned
<1>5. CommandAt(hooks, o)' = CommandAt(hooks, o)
  <2>1. CommandAt(plan.merged, o) = CommandAt(hooks, o)
    BY DEF Doubtful
  <2>2. CASE hooks' = hooks
    BY <2>2 DEF CommandAt
  <2>3. CASE hooks' = plan.merged
    BY <2>1, <2>3 DEF CommandAt
  <2> QED BY <1>1, <2>2, <2>3
<1> QED BY <1>4, <1>5 DEF Runs, Live, Off

LEMMA ForeignStays ==
  ASSUME TrustInv, InitStep, Tidy(plan.was), NEW o \in Pos, Runs(o),
         ~IsWaykeep(CommandAt(hooks, o)), plan.was = hooks, plan.state[o] = state[o]
  PROVE  Runs(o)'
<1>1. PlannedFrom(shadow) /\ stage # "idle" /\ TrustTypeOK
  BY InitStepIs
<1> DEFINE cmd == OurCommand(plan.was, plan.state, shadow, plan.relay, plan.migrate)
<1>2. plan.merged = Merge(plan.was, cmd) /\ cmd \in Command /\ plan.was \in Seq(Seq(Command))
  BY <1>1, GoneIs
<1>3. CommandAt(hooks, o) # Absent
  BY DEF Runs, Live
<1>4. CommandAt(plan.merged, o) = CommandAt(hooks, o)
  BY <1>2, <1>3, OthersStay
<1>5. ~Doubtful(hooks, plan.merged, shadow, o)
  BY <1>4 DEF Doubtful, Unattested
<1> QED BY <1>5, UndoubtedRuns

LEMMA ReinitKeeps ==
  ASSUME TrustInv, InitStep, Tidy(plan.was), ~plan.migrate, NEW o \in Pos,
         o \in Reported(hooks, state, shadow), Runs(o),
         IsWaykeep(CommandAt(hooks, o)), CommandAt(hooks, o).relay = plan.relay,
         plan.was = hooks, plan.state[o] = state[o]
  PROVE  Runs(o)'
<1>1. PlannedFrom(shadow) /\ stage # "idle" /\ TrustTypeOK
  BY InitStepIs
<1> DEFINE w == plan.was
           relay == plan.relay
           cmd == OurCommand(w, plan.state, shadow, relay, plan.migrate)
           candidate == [relay |-> relay, route |-> "legacy"]
<1>2. plan.merged = Merge(w, cmd) /\ cmd \in Command /\ cmd \in Ours /\ w \in Seq(Seq(Command))
  BY <1>1, GoneIs
<1>3. PICK way \in PostRoute : CommandAt(w, o) = [relay |-> relay, route |-> way]
  BY DEF IsWaykeep, Ours
<1>4. w[o[1]] = <<CommandAt(w, o)>> /\ o[1] \in OurGroups(w) /\ o[2] = 1
  <2>1. o[1] \in OurGroups(w) /\ o[2] = 1
    BY <1>2, OursIsAlone
  <2>2. w[o[1]] \in Seq(Command) /\ Len(w[o[1]]) = 1
    <3>1. o[1] \in DOMAIN w /\ o[2] \in DOMAIN w[o[1]] /\ IsWaykeep(w[o[1]][o[2]])
      BY TrustAssumption DEF CommandAt, IsWaykeep, Command
    <3> QED BY <1>2, <3>1 DEF Tidy
  <2>3. CommandAt(w, o) = w[o[1]][1]
    BY <2>1, <2>2 DEF CommandAt, OurGroups
  <2> QED BY <2>1, <2>2, <2>3
<1>5. RouteFor(w, plan.state, shadow, relay, plan.migrate) = way
  <2>1. CASE way = "legacy"
    <3>1. o \in Reported(w, plan.state, shadow)
      BY DEF Reported, Live, Off
    <3> QED BY <1>3, <2>1, <3>1 DEF RouteFor
  <2>2. CASE way = "canonical"
    <3>1. ASSUME NEW x \in Reported(w, plan.state, shadow), CommandAt(w, x) = candidate
          PROVE  FALSE
      <4>1. x \in Pos /\ IsWaykeep(CommandAt(w, x))
        BY <3>1 DEF Reported, IsWaykeep, Ours, PostRoute
      <4>2. x[1] \in OurGroups(w) /\ x[2] = 1
        BY <1>2, <4>1, OursIsAlone
      <4>3. x[1] = o[1]
        BY <1>4, <4>2 DEF Tidy
      <4>4. CommandAt(w, x) = CommandAt(w, o)
        BY <1>4, <4>2, <4>3 DEF CommandAt
      <4> QED BY <1>3, <2>2, <3>1, <4>4
    <3> QED BY <2>2, <3>1 DEF RouteFor
  <2> QED BY <2>1, <2>2 DEF PostRoute
<1>6. CommandAt(plan.merged, o) = CommandAt(hooks, o)
  <2>1. cmd = CommandAt(w, o)
    BY <1>3, <1>5 DEF OurCommand
  <2> QED BY <1>2, <1>4, <2>1, MergedAt
<1>7. ~Doubtful(hooks, plan.merged, shadow, o)
  BY <1>6 DEF Doubtful, Unattested, Reported
<1> QED BY <1>7, UndoubtedRuns

LEMMA DisabledStays ==
  ASSUME TrustInv, InitStep, NEW o \in Pos, Off(state, o), state'[o] # state[o]
  PROVE  plan.state[o] # state[o]
<1>1. /\ PlannedFrom(shadow) /\ stage # "idle" /\ TrustTypeOK
      /\ state' = state \/ state' = Pruned(plan.state)
  BY InitStepIs
<1>2. plan.gone = Invalidated(plan.was, plan.merged, plan.state, shadow)
  BY <1>1, GoneIs
<1> QED BY <1>1, <1>2 DEF Pruned, Invalidated, Off

(* A run of init costs no approval of a hook it has no cause to rewrite, and no *)
(* switch the user has turned.                                              *)
THEOREM ApprovalsAreKeptAlways == TrustSpec => ApprovalsAreKept
<1>1. TrustInv /\ [TrustNext]_trust =>
        [(InitStep /\ Tidy(plan.was)) =>
           \A p \in Pos : (Runs(p) /\ ~IsWaykeep(CommandAt(hooks, p)) /\ plan.was = hooks /\ plan.state[p] = state[p])
                            => Runs(p)']_trust
  BY ForeignStays
<1>2. TrustInv /\ [TrustNext]_trust =>
        [(InitStep /\ Tidy(plan.was) /\ ~plan.migrate) =>
           \A p \in Pos : /\ p \in Reported(hooks, state, shadow) /\ Runs(p)
                          /\ IsWaykeep(CommandAt(hooks, p)) /\ CommandAt(hooks, p).relay = plan.relay
                          /\ plan.was = hooks /\ plan.state[p] = state[p]
                          => Runs(p)']_trust
  BY ReinitKeeps
<1>3. TrustInv /\ [TrustNext]_trust =>
        [\A p \in Pos : (InitStep /\ Off(state, p) /\ state'[p] # state[p]) => plan.state[p] # state[p]]_trust
  BY DisabledStays
<1>4. TrustSpec => []TrustInv
  BY TrustInvHolds, TrustInvStays, PTL DEF TrustSpec
<1>5. TrustSpec => ForeignTrustStays
  BY <1>1, <1>4, PTL DEF TrustSpec, ForeignTrustStays
<1>6. TrustSpec => ReinitKeepsTrust
  BY <1>2, <1>4, PTL DEF TrustSpec, ReinitKeepsTrust
<1>7. TrustSpec => DisabledNeedsARace
  BY <1>3, <1>4, PTL DEF TrustSpec, DisabledNeedsARace
<1> QED BY <1>5, <1>6, <1>7 DEF ApprovalsAreKept

-----------------------------------------------------------------------------
(* What init makes of the settings, and what it plans for the registry.     *)
LEMMA InertIs ==
  ASSUME NEW s \in Settings, NEW i
  PROVE  /\ WithoutInert(s, i) \in Settings /\ WithoutInert(s, i).hooks = s.hooks
         /\ ~LooksOurs(WithoutInert(s, i).server)
  BY DEF WithoutInert, Settings, LooksOurs

LEMMA MergedIs ==
  ASSUME NEW s \in Settings, NEW i \in Install, NEW mode \in Mode
  PROVE  /\ Merged(s, i, mode) \in Settings
         /\ ~LooksOurs(Merged(s, i, mode).server)
         /\ \A ev \in Event : Merged(s, i, mode).hooks[ev] =
              IF mode = "full" /\ ev = "wired" THEN Rewired(s.hooks[ev], i) ELSE Swept(s.hooks[ev])
<1> DEFINE u == WithoutInert(s, i)
           h == [ev \in Event |-> IF mode = "full" /\ ev = "wired" THEN Rewired(u.hooks[ev], i) ELSE Swept(u.hooks[ev])]
<1>1. u \in Settings /\ u.hooks = s.hooks /\ ~LooksOurs(u.server)
  BY InertIs
<1>2. Merged(s, i, mode) = [u EXCEPT !.status = IF @ = "user" THEN @ ELSE "ours", !.hooks = h]
  BY DEF Merged
<1> HIDE DEF u
<1>4. ASSUME NEW entries \in SUBSET SUBSET (Install \cup Foreign)
      PROVE  /\ Rewired(entries, i) \in SUBSET SUBSET (Install \cup Foreign)
             /\ Swept(entries) \in SUBSET SUBSET (Install \cup Foreign)
  BY DEF Rewired, Swept
<1>5. h \in [Event -> SUBSET SUBSET (Install \cup Foreign)]
  <2>1. \A ev \in Event : u.hooks[ev] \in SUBSET SUBSET (Install \cup Foreign)
    BY <1>1 DEF Settings
  <2> QED BY <1>4, <2>1
<1>6. \A ev \in Event : h[ev] = IF mode = "full" /\ ev = "wired" THEN Rewired(s.hooks[ev], i) ELSE Swept(s.hooks[ev])
  BY <1>1
<1> HIDE DEF h
<1>7. Merged(s, i, mode) \in Settings /\ Merged(s, i, mode).hooks = h /\ Merged(s, i, mode).server = u.server
  BY <1>1, <1>2, <1>5 DEF Settings
<1> QED BY <1>1, <1>6, <1>7

LEMMA PlannedIs ==
  ASSUME NEW reg \in Registry, NEW i \in Install, NEW mode \in Mode
  PROVE  /\ Planned(reg, i, mode) \in Seq(Action)
         /\ Range(Planned(reg, i, mode)) =
              Range(PlannedOurs(reg["waykeep"], i, mode)) \cup Range(PlannedLegacy(reg["cairn"], i))
<1> DEFINE s == PlannedOurs(reg["waykeep"], i, mode)
           t == PlannedLegacy(reg["cairn"], i)
<1>1. reg["waykeep"] \in Entry \cup {Missing}
  BY DEF Registry, Name
<1>2. Removing("waykeep") \in Action /\ Removing("cairn") \in Action
      /\ Adding(Missing) \in Action /\ Adding(reg["waykeep"]) \in Action
  BY <1>1 DEF Removing, Adding, Action, Name
<1>3. s \in Seq(Action)
  BY <1>2 DEF PlannedOurs
<1>4. t \in Seq(Action)
  BY <1>2 DEF PlannedLegacy
<1> HIDE DEF s, t
<1>5. /\ s \o t \in Seq(Action) /\ Len(s) \in Nat /\ Len(t) \in Nat
      /\ DOMAIN (s \o t) = 1..(Len(s) + Len(t))
      /\ \A k \in 1..(Len(s) + Len(t)) : (s \o t)[k] = IF k <= Len(s) THEN s[k] ELSE t[k - Len(s)]
      /\ DOMAIN s = 1..Len(s) /\ DOMAIN t = 1..Len(t)
  BY <1>3, <1>4, Concat, LenProperties
<1>6. Range(s \o t) \subseteq Range(s) \cup Range(t)
  <2> SUFFICES ASSUME NEW k \in 1..(Len(s) + Len(t)) PROVE (s \o t)[k] \in Range(s) \cup Range(t)
    BY <1>5 DEF Range
  <2>1. CASE k <= Len(s)
    BY <1>5, <2>1 DEF Range
  <2>2. CASE ~(k <= Len(s))
    <3>1. k - Len(s) \in 1..Len(t)
      BY <1>5, <2>2
    <3> QED BY <1>5, <2>2, <3>1 DEF Range
  <2> QED BY <2>1, <2>2
<1>7. \A k \in 1..Len(s) : s[k] \in Range(s \o t)
  <2> SUFFICES ASSUME NEW k \in 1..Len(s) PROVE s[k] \in Range(s \o t)
    OBVIOUS
  <2>1. k \in 1..(Len(s) + Len(t)) /\ k <= Len(s)
    BY <1>5
  <2> QED BY <1>5, <2>1 DEF Range
<1>8. \A k \in 1..Len(t) : t[k] \in Range(s \o t)
  <2> SUFFICES ASSUME NEW k \in 1..Len(t) PROVE t[k] \in Range(s \o t)
    OBVIOUS
  <2>1. Len(s) + k \in 1..(Len(s) + Len(t)) /\ ~(Len(s) + k <= Len(s)) /\ Len(s) + k - Len(s) = k
    BY <1>5
  <2> QED BY <1>5, <2>1 DEF Range
<1> QED BY <1>5, <1>6, <1>7, <1>8 DEF Planned, s, t, Range

(* Of each name, what planning leaves alone is right. *)
RightAs(e, n, i, mode) == IF n = "waykeep" /\ mode = "full" THEN e = Desired(i) ELSE ~References(e, i)

LEMMA PlannedActs ==
  ASSUME NEW reg \in Registry, NEW i \in Install, NEW mode \in Mode
  PROVE  /\ \A n \in Name : n \notin NamesIn(Planned(reg, i, mode)) => RightAs(reg[n], n, i, mode)
         /\ \A a \in Range(Planned(reg, i, mode)) :
              /\ a \in Action
              /\ a.do = "remove" => References(reg[a.name], i) \/ (a.name = "waykeep" /\ mode = "full")
<1> DEFINE e == reg["waykeep"]
           f == reg["cairn"]
           s == PlannedOurs(e, i, mode)
           t == PlannedLegacy(f, i)
<1>1. Planned(reg, i, mode) \in Seq(Action) /\ Range(Planned(reg, i, mode)) = Range(s) \cup Range(t)
  BY PlannedIs
<1>2. Range(t) = IF References(f, i) THEN {Removing("cairn")} ELSE {}
  BY DEF PlannedLegacy, Range
<1>5. References(f, i) => "cairn" \in NamesIn(Planned(reg, i, mode))
  <2>1. References(f, i) => Removing("cairn") \in Range(Planned(reg, i, mode))
    BY <1>1, <1>2
  <2> QED BY <2>1 DEF NamesIn, Removing
<1>3. CASE mode = "plugin"
  <2>1. Range(s) = IF References(e, i) THEN {Removing("waykeep")} ELSE {}
    BY <1>3 DEF PlannedOurs, Range
  <2>2. References(e, i) => "waykeep" \in NamesIn(Planned(reg, i, mode))
    <3>1. References(e, i) => Removing("waykeep") \in Range(Planned(reg, i, mode))
      BY <1>1, <2>1
    <3> QED BY <3>1 DEF NamesIn, Removing
  <2>3. \A n \in Name : n \notin NamesIn(Planned(reg, i, mode)) => RightAs(reg[n], n, i, mode)
    BY <1>3, <1>5, <2>2 DEF Name, RightAs
  <2>4. \A a \in Range(Planned(reg, i, mode)) : References(reg[a.name], i)
    BY <1>1, <1>2, <2>1 DEF Removing
  <2>5. \A a \in Range(Planned(reg, i, mode)) : a \in Action
    BY <1>1 DEF Range
  <2> QED BY <2>3, <2>4, <2>5
<1>4. CASE mode = "full"
  <2>1. mode # "plugin"
    BY <1>4
  <2>2. Range(s) = IF e = Missing THEN {Adding(Missing)}
                   ELSE IF e = Desired(i) THEN {}
                   ELSE {Removing("waykeep"), Adding(e)}
    BY <2>1 DEF PlannedOurs, Range
  <2>3. e # Desired(i) => "waykeep" \in NamesIn(Planned(reg, i, mode))
    <3>1. e # Desired(i) => Adding(e) \in Range(Planned(reg, i, mode))
      BY <1>1, <2>2
    <3> QED BY <3>1 DEF NamesIn, Adding
  <2>5. \A n \in Name : n \notin NamesIn(Planned(reg, i, mode)) => RightAs(reg[n], n, i, mode)
    BY <1>4, <1>5, <2>3 DEF Name, RightAs
  <2>6. \A a \in Range(Planned(reg, i, mode)) :
           a.do = "remove" => References(reg[a.name], i) \/ a.name = "waykeep"
    BY <1>1, <1>2, <2>2 DEF Removing, Adding
  <2>7. \A a \in Range(Planned(reg, i, mode)) : a \in Action
    BY <1>1 DEF Range
  <2> QED BY <1>4, <2>5, <2>6, <2>7
<1> QED BY <1>3, <1>4 DEF Mode

-----------------------------------------------------------------------------
(* A run keeps to what it read.                                             *)
RunFits(r) ==
  /\ r.merged = Merged(r.was, r.at, r.mode)
  /\ r.pc \in {"apply", "verify"} => r.names = NamesIn(Planned(r.seen, r.at, r.mode))
  /\ r.pc = "apply" => Range(r.todo) \subseteq Range(Planned(r.seen, r.at, r.mode))

RunsFit == \A o \in Run : run[o] # Missing => RunFits(run[o])

WireInv == WireTypeOK /\ RunsFit

(* What a step of one run leaves alone. *)
LEMMA OwnStep ==
  ASSUME run \in [Run -> Running \cup {Missing}], [WireNext]_wire, NEW o \in Run, run'[o] # run[o]
  PROVE  Step(o)
<1>1. ~(UNCHANGED wire) /\ ~EditSettings /\ ~EditRegistry
  BY DEF wire, EditSettings, EditRegistry
<1>2. ASSUME NEW x \in Run, Step(x), x # o
      PROVE  FALSE
  <2>1. \A y : run' = [run EXCEPT ![x] = y] => run'[o] = run[o]
    BY <1>2
  <2>2. \A y : run' = [run EXCEPT ![x].pc = y] => run'[o] = run[o]
    BY <1>2
  <2>3. \A r, y : Ends(x, r, y) => run'[o] = run[o]
    BY <2>1 DEF Ends
  <2> QED BY <1>2, <2>1, <2>2, <2>3
       DEF Step, BeginRun, Backup, Copy, Write, Plan, RunCommand, Verify, Leave, StopRun, GoesTo
<1> QED BY <1>1, <1>2 DEF WireNext

(* A run that has its type, fits what it read and has a command to give when it *)
(* is about to give one.                                                    *)
RunWell(r) ==
  /\ r \in Running \cup {Missing}
  /\ r # Missing => RunFits(r)
  /\ r # Missing /\ r.pc = "apply" => r.todo # <<>>

LEMMA WellIs ==
  WireTypeOK /\ RunsFit <=>
    /\ settings \in Settings \cup {Missing}
    /\ backup \in {Missing, "user", "init", "partial"} /\ written \in BOOLEAN
    /\ registry \in Registry
    /\ runs \in 0..MaxRuns /\ edits \in 0..MaxEdits /\ faults \in 0..MaxFaults
    /\ DOMAIN run = Run /\ run = [o \in Run |-> run[o]] /\ \A o \in Run : RunWell(run[o])
  BY DEF WireTypeOK, RunsFit, RunWell, Stands

LEMMA MovedIs ==
  ASSUME NEW r \in Running, RunFits(r), NEW place \in {"copy", "write", "plan"}
  PROVE  RunWell([r EXCEPT !.pc = place])
<1> DEFINE new == [r EXCEPT !.pc = place]
<1>1. /\ new \in Running /\ new.pc = place /\ new.merged = r.merged /\ new.was = r.was /\ new.at = r.at /\ new.mode = r.mode
  BY DEF Running
<1> HIDE DEF new
<1>2. RunFits(new)
  BY <1>1 DEF RunFits
<1>3. RunWell(new)
  BY <1>1, <1>2 DEF RunWell
<1> QED BY <1>3 DEF new

LEMMA EndedIs ==
  ASSUME NEW r \in Running, r.merged = Merged(r.was, r.at, r.mode), NEW result \in {"ok", "pending", "failed"}
  PROVE  RunWell([r EXCEPT !.pc = "done", !.outcome = result])
<1> DEFINE new == [r EXCEPT !.pc = "done", !.outcome = result]
<1>1. /\ new \in Running /\ new.pc = "done" /\ new.merged = r.merged /\ new.was = r.was /\ new.at = r.at /\ new.mode = r.mode
  BY DEF Running
<1> HIDE DEF new
<1>2. RunFits(new)
  BY <1>1 DEF RunFits
<1>3. RunWell(new)
  BY <1>1, <1>2 DEF RunWell
<1> QED BY <1>3 DEF new

LEMMA NewRunIs ==
  ASSUME NEW i \in Install, NEW mode \in Mode, NEW was \in Settings, registry \in Registry
  PROVE  RunWell([pc |-> "backup", at |-> i, mode |-> mode, was |-> was, merged |-> Merged(was, i, mode),
                  seen |-> registry, todo |-> <<>>, names |-> {}, removed |-> {},
                  failed |-> FALSE, told |-> FALSE, outcome |-> Missing])
<1> DEFINE new == [pc |-> "backup", at |-> i, mode |-> mode, was |-> was, merged |-> Merged(was, i, mode),
                   seen |-> registry, todo |-> <<>>, names |-> {}, removed |-> {},
                   failed |-> FALSE, told |-> FALSE, outcome |-> Missing]
<1>1. Merged(was, i, mode) \in Settings /\ <<>> \in Seq(Action)
  BY MergedIs
<1>2. new \in Running
  BY <1>1 DEF Running
<1>3. new.pc = "backup" /\ new.merged = Merged(new.was, new.at, new.mode)
  OBVIOUS
<1> HIDE DEF new
<1>4. RunWell(new)
  BY <1>2, <1>3 DEF RunWell, RunFits
<1> QED BY <1>4 DEF new

(* After a command the rest is to be done, or nothing is. *)
LEMMA CommandedIs ==
  ASSUME NEW r \in Running, RunFits(r), r.pc = "apply", r.todo # <<>>, NEW a \in Action,
         NEW rest, rest = [r EXCEPT !.todo = Tail(@)],
         NEW next \in {Succeeding(rest, a), Failing(rest, a)}
  PROVE  RunWell(AfterCommand(next))
<1>1. /\ Tail(r.todo) \in Seq(Action) /\ r.todo \in Seq(Action)
      /\ Range(Tail(r.todo)) \subseteq Range(r.todo)
  <2>1. r.todo \in Seq(Action)
    BY DEF Running
  <2>2. Tail(r.todo) \in Seq(Action) /\ Len(Tail(r.todo)) = Len(r.todo) - 1
        /\ \A k \in 1..Len(Tail(r.todo)) : Tail(r.todo)[k] = r.todo[k + 1]
    BY <2>1, HeadTailProperties
  <2>3. Len(r.todo) \in Nat /\ DOMAIN r.todo = 1..Len(r.todo) /\ DOMAIN Tail(r.todo) = 1..Len(Tail(r.todo))
    BY <2>1, <2>2, LenProperties
  <2>4. \A k \in 1..Len(Tail(r.todo)) : k + 1 \in 1..Len(r.todo)
    BY <2>2, <2>3
  <2> QED BY <2>1, <2>2, <2>3, <2>4 DEF Range
<1>2. /\ rest \in Running /\ rest.todo = Tail(r.todo) /\ rest.pc = "apply" /\ rest.names = r.names /\ rest.seen = r.seen
      /\ rest.at = r.at /\ rest.mode = r.mode /\ rest.merged = r.merged /\ rest.was = r.was
  BY <1>1 DEF Running
<1>3. /\ next \in Running /\ next.todo = Tail(r.todo) /\ next.pc = "apply" /\ next.names = r.names /\ next.seen = r.seen
      /\ next.at = r.at /\ next.mode = r.mode /\ next.merged = r.merged /\ next.was = r.was
  <2>1. CASE next = Succeeding(rest, a)
    BY <1>2, <2>1 DEF Running, Succeeding, Action
  <2>2. CASE next = Failing(rest, a)
    BY <1>2, <2>2 DEF Running, Failing
  <2> QED BY <2>1, <2>2
<1>4. RunFits(next)
  BY <1>1, <1>3 DEF RunFits
<1>5. CASE next.todo # <<>>
  BY <1>3, <1>4, <1>5 DEF AfterCommand, RunWell
<1>6. CASE next.todo = <<>> /\ next.failed
  <2>1. RunWell([next EXCEPT !.pc = "done", !.outcome = "failed"])
    BY <1>3, <1>4, EndedIs DEF RunFits
  <2> QED BY <1>6, <2>1 DEF AfterCommand
<1>7. CASE next.todo = <<>> /\ ~next.failed
  <2> DEFINE new == [next EXCEPT !.pc = "verify"]
  <2>1. /\ new \in Running /\ new.pc = "verify" /\ new.names = next.names /\ new.seen = next.seen
        /\ new.at = next.at /\ new.mode = next.mode /\ new.merged = next.merged /\ new.was = next.was
    BY <1>3 DEF Running
  <2>2. AfterCommand(next) = new
    BY <1>7 DEF AfterCommand
  <2> HIDE DEF new
  <2>3. RunFits(new)
    BY <1>3, <1>4, <2>1 DEF RunFits
  <2> QED BY <2>1, <2>2, <2>3 DEF RunWell
<1> QED BY <1>5, <1>6, <1>7

LEMMA WireInvHolds == WireInit => WireInv
<1> SUFFICES ASSUME WireInit PROVE WireInv
  OBVIOUS
<1>1. /\ settings \in Settings \cup {Missing} /\ registry \in Registry
  BY ClientAssumption DEF WireInit, Registry
<1>2. runs \in 0..MaxRuns /\ edits \in 0..MaxEdits /\ faults \in 0..MaxFaults
  BY ClientAssumption DEF WireInit
<1>3. DOMAIN run = Run /\ run = [o \in Run |-> run[o]] /\ \A o \in Run : RunWell(run[o])
  BY DEF WireInit, RunWell
<1> QED BY <1>1, <1>2, <1>3, WellIs DEF WireInit, WireInv

(* A run at work. *)
LEMMA StandsIs ==
  ASSUME WireInv, NEW o \in Run, run[o] # Missing
  PROVE  /\ run[o] \in Running /\ RunFits(run[o]) /\ RunWell(run[o])
         /\ run[o].merged = Merged(run[o].was, run[o].at, run[o].mode)
         /\ run[o].at \in Install /\ run[o].mode \in Mode /\ run[o].was \in Settings /\ run[o].merged \in Settings
         /\ run[o].seen \in Registry
<1>1. run[o] \in Running /\ RunFits(run[o])
  BY DEF WireInv, WireTypeOK, RunsFit
<1>2. RunWell(run[o])
  BY WellIs DEF WireInv
<1> QED BY <1>1, <1>2 DEF Running, RunFits

(* What a step makes of a run. *)
LEMMA RunsStayWell ==
  ASSUME WireInv, NEW o \in Run, Step(o)
  PROVE  \E r : run' = [run EXCEPT ![o] = r] /\ RunWell(r)
<1> DEFINE r0 == run[o]
<1>0. RunWell(Missing) /\ registry \in Registry /\ settings \in Settings \cup {Missing}
  BY DEF RunWell, WireInv, WireTypeOK
<1>1. CASE BeginRun(o)
  <2>1. (IF settings = Missing THEN Empty ELSE settings) \in Settings
    BY <1>0 DEF Empty, Settings
  <2> QED BY <1>0, <1>1, <2>1, NewRunIs DEF BeginRun
<1>2. CASE Backup(o) \/ Copy(o) \/ Write(o)
  <2>1. PICK place \in {"copy", "write", "plan"} : run' = [run EXCEPT ![o].pc = place]
    BY <1>2 DEF Backup, Copy, Write, GoesTo
  <2>2. r0 \in Running /\ RunFits(r0)
    BY <1>2, StandsIs DEF Backup, Copy, Write, Stands
  <2>3. RunWell([r0 EXCEPT !.pc = place])
    BY <2>2, MovedIs
  <2> QED BY <2>1, <2>3
<1>3. CASE Plan(o)
  <2> DEFINE todo == Planned(registry, r0.at, r0.mode)
             r == [r0 EXCEPT !.pc = "apply", !.seen = registry, !.todo = todo, !.names = NamesIn(todo)]
  <2>1. /\ r0 \in Running /\ r0.merged = Merged(r0.was, r0.at, r0.mode)
        /\ r0.at \in Install /\ r0.mode \in Mode
    BY <1>3, StandsIs DEF Plan, Stands
  <2>2. todo \in Seq(Action) /\ NamesIn(todo) \subseteq Name
    <3>1. todo \in Seq(Action)
      BY <1>0, <2>1, PlannedIs
    <3>2. \A a \in Range(todo) : a \in Action
      BY <3>1 DEF Range
    <3> QED BY <3>1, <3>2 DEF NamesIn, Action
  <2> HIDE DEF r0
  <2>3. /\ r \in Running /\ r.pc = "apply" /\ r.seen = registry /\ r.todo = todo /\ r.names = NamesIn(todo)
        /\ r.merged = r0.merged /\ r.was = r0.was /\ r.at = r0.at /\ r.mode = r0.mode
    <3> HIDE DEF todo
    <3> QED BY <1>0, <2>1, <2>2 DEF Running
  <2>4. \A result \in {"ok", "pending"} : Ends(o, r, result) =>
          run' = [run EXCEPT ![o] = [r EXCEPT !.pc = "done", !.outcome = result]]
    BY DEF Ends
  <2>5. \/ todo # <<>> /\ run' = [run EXCEPT ![o] = r]
        \/ Ends(o, r, "pending") \/ Ends(o, r, "ok")
    BY <1>3 DEF Plan, r0
  <2> HIDE DEF r
  <2>6. \A result \in {"ok", "pending"} : RunWell([r EXCEPT !.pc = "done", !.outcome = result])
    BY <2>1, <2>3, EndedIs
  <2>7. todo # <<>> => RunWell(r)
    BY <2>1, <2>3 DEF RunWell, RunFits
  <2> QED BY <2>4, <2>5, <2>6, <2>7
<1>4. CASE RunCommand(o)
  <2> DEFINE a == Head(r0.todo)
             rest == [r0 EXCEPT !.todo = Tail(@)]
  <2>1. r0 \in Running /\ RunFits(r0) /\ r0.pc = "apply" /\ r0.todo # <<>>
    BY <1>4, StandsIs DEF RunCommand, Stands, WireInv, WireTypeOK
  <2>2. a \in Action
    <3>1. r0.todo \in Seq(Action)
      BY <2>1 DEF Running
    <3> QED BY <2>1, <3>1
  <2>3. \/ run' = [run EXCEPT ![o] = AfterCommand(Succeeding(rest, a))]
        \/ run' = [run EXCEPT ![o] = AfterCommand(Failing(rest, a))]
    BY <1>4 DEF RunCommand
  <2> HIDE DEF r0, a, rest
  <2>4. RunWell(AfterCommand(Succeeding(rest, a))) /\ RunWell(AfterCommand(Failing(rest, a)))
    BY <2>1, <2>2, CommandedIs DEF rest
  <2> QED BY <2>3, <2>4
<1>5. CASE Verify(o)
  <2>1. PICK result \in {"ok", "failed"} :
          run' = [run EXCEPT ![o] = [r0 EXCEPT !.pc = "done", !.outcome = result]]
    BY <1>5 DEF Verify, Ends
  <2>2. r0 \in Running /\ r0.merged = Merged(r0.was, r0.at, r0.mode)
    BY <1>5, StandsIs DEF Verify, Stands
  <2>3. RunWell([r0 EXCEPT !.pc = "done", !.outcome = result])
    BY <2>2, EndedIs
  <2> QED BY <2>1, <2>3
<1>6. CASE Leave(o) \/ StopRun(o)
  <2>1. run' = [run EXCEPT ![o] = Missing]
    BY <1>6 DEF Leave, StopRun
  <2> QED BY <1>0, <2>1
<1> QED BY <1>1, <1>2, <1>3, <1>4, <1>5, <1>6 DEF Step

LEMMA WireInvStays == WireInv /\ [WireNext]_wire => WireInv'
<1> SUFFICES ASSUME WireInv, [WireNext]_wire PROVE WireInv'
  OBVIOUS
<1>0. /\ settings \in Settings \cup {Missing}
      /\ backup \in {Missing, "user", "init", "partial"} /\ written \in BOOLEAN
      /\ registry \in Registry
      /\ runs \in 0..MaxRuns /\ edits \in 0..MaxEdits /\ faults \in 0..MaxFaults
      /\ DOMAIN run = Run /\ run = [o \in Run |-> run[o]] /\ \A o \in Run : RunWell(run[o])
      /\ MaxRuns \in Nat /\ MaxEdits \in Nat /\ MaxFaults \in Nat
  BY WellIs, ClientAssumption DEF WireInv
<1>1. DOMAIN run' = Run /\ run' = [o \in Run |-> run'[o]] /\ \A o \in Run : RunWell(run'[o])
  <2>1. CASE run' = run
    BY <1>0, <2>1
  <2>2. ASSUME NEW o \in Run, Step(o)
        PROVE  DOMAIN run' = Run /\ run' = [x \in Run |-> run'[x]] /\ \A x \in Run : RunWell(run'[x])
    <3>1. PICK r : run' = [run EXCEPT ![o] = r] /\ RunWell(r)
      BY <2>2, RunsStayWell
    <3> QED BY <1>0, <3>1
  <2> QED BY <2>1, <2>2 DEF WireNext, EditSettings, EditRegistry, wire
<1>2. settings' \in Settings \cup {Missing}
  <2>1. ASSUME NEW o \in Run, Write(o)
        PROVE  settings' \in Settings
    BY <2>1, StandsIs DEF Write, Stands
  <2>2. ASSUME EditSettings
        PROVE  settings' \in Settings
    <3>1. PICK ev \in Event, e \in Entries :
            settings' = [(IF settings = Missing THEN Empty ELSE settings) EXCEPT !.hooks[ev] = @ \cup {e}]
      BY <2>2 DEF EditSettings
    <3>2. (IF settings = Missing THEN Empty ELSE settings) \in Settings /\ e \in SUBSET (Install \cup Foreign)
      BY <1>0, ClientAssumption DEF Empty, Settings
    <3> QED BY <3>1, <3>2 DEF Settings
  <2>3. ASSUME settings' = settings
        PROVE  settings' \in Settings \cup {Missing}
    BY <1>0, <2>3
  <2> QED BY <2>1, <2>2, <2>3 DEF WireNext, Step, BeginRun, Backup, Copy, Plan, RunCommand, Verify,
                                  Leave, StopRun, EditRegistry, wire, files, bounds
<1>3. registry' \in Registry
  <2>1. ASSUME NEW o \in Run, RunCommand(o)
        PROVE  registry' \in Registry
    <3>1. run[o].at \in Install
      BY <2>1, StandsIs DEF RunCommand, Stands
    <3>2. Desired(run[o].at) \in Entry
      BY <3>1 DEF Desired, Entry
    <3>3. \A a : Applied(registry, a, run[o].at) \in Registry
      BY <1>0, <3>2 DEF Applied, Registry
    <3>4. registry' = registry \/ \E a : registry' = Applied(registry, a, run[o].at)
      BY <2>1 DEF RunCommand
    <3> QED BY <1>0, <3>3, <3>4
  <2>2. ASSUME EditRegistry
        PROVE  registry' \in Registry
    BY <1>0, <2>2, ClientAssumption DEF EditRegistry, Registry
  <2>3. ASSUME registry' = registry
        PROVE  registry' \in Registry
    BY <1>0, <2>3
  <2> QED BY <2>1, <2>2, <2>3 DEF WireNext, Step, BeginRun, Backup, Copy, Write, Plan, Verify,
                                  Leave, StopRun, EditSettings, wire, files, bounds
<1>4. backup' \in {Missing, "user", "init", "partial"} /\ written' \in BOOLEAN
  <2>1. ASSUME NEW o \in Run, Copy(o) \/ Write(o) \/ StopRun(o)
        PROVE  backup' \in {Missing, "user", "init", "partial"} /\ written' \in BOOLEAN
    BY <1>0, <2>1 DEF Copy, Write, StopRun
  <2>2. ASSUME backup' = backup, written' = written
        PROVE  backup' \in {Missing, "user", "init", "partial"} /\ written' \in BOOLEAN
    BY <1>0, <2>2
  <2> QED BY <2>1, <2>2 DEF WireNext, Step, BeginRun, Backup, Plan, RunCommand, Verify,
                            Leave, EditSettings, EditRegistry, wire, files, bounds
<1>5. runs' \in 0..MaxRuns /\ edits' \in 0..MaxEdits /\ faults' \in 0..MaxFaults
  <2>1. /\ runs' = runs \/ (runs < MaxRuns /\ runs' = runs + 1)
        /\ edits' = edits \/ (edits < MaxEdits /\ edits' = edits + 1)
        /\ faults' = faults \/ (faults < MaxFaults /\ faults' = faults + 1)
    BY DEF WireNext, Step, BeginRun, Backup, Copy, Write, Plan, RunCommand, Verify,
           Leave, StopRun, EditSettings, EditRegistry, wire, files, bounds
  <2> QED BY <1>0, <2>1, OneMore
<1> QED BY <1>1, <1>2, <1>3, <1>4, <1>5, SMT DEF WireInv, WireTypeOK, RunsFit, RunWell, Stands

(* Every variable of the wiring keeps its type. *)
THEOREM WireTypeCorrect == WireSpec => []WireTypeOK
<1>1. WireInv => WireTypeOK
  BY DEF WireInv
<1> QED BY <1>1, WireInvHolds, WireInvStays, PTL DEF WireSpec

-----------------------------------------------------------------------------
(* What a run does to settings.json.                                        *)

LEMMA WriteIs ==
  ASSUME WireInv, [WireNext]_wire, NEW o \in Run, Stands(o, "write"), Stands(o, "plan")'
  PROVE  settings' = run[o].merged
<1>1. run \in [Run -> Running \cup {Missing}]
  BY DEF WireInv, WireTypeOK
<1>2. run'[o] # run[o] /\ run'[o] # Missing /\ run'[o].pc = "plan"
  BY DEF Stands
<1>3. Step(o)
  BY <1>1, <1>2, OwnStep
<1>4. ~BeginRun(o) /\ ~Backup(o) /\ ~Copy(o) /\ ~Plan(o) /\ ~RunCommand(o) /\ ~Verify(o) /\ ~Leave(o)
  BY DEF Stands, BeginRun, Backup, Copy, Plan, RunCommand, Verify, Leave
<1>5. ~StopRun(o)
  BY <1>1, <1>2 DEF StopRun
<1> QED BY <1>3, <1>4, <1>5 DEF Step, Write

LEMMA HandlersStay ==
  ASSUME NEW s \in Settings, NEW i \in Install, NEW mode \in Mode, NEW ev \in Event, NEW f \in Foreign,
         NEW e \in s.hooks[ev], f \in e,
         mode = "full" /\ ev = "wired" => ~IsOurs(e)
  PROVE  f \in UNION Merged(s, i, mode).hooks[ev]
<1>1. Merged(s, i, mode).hooks[ev] =
        IF mode = "full" /\ ev = "wired" THEN Rewired(s.hooks[ev], i) ELSE Swept(s.hooks[ev])
  BY MergedIs
<1>2. f \notin Install
  BY ClientAssumption
<1>3. CASE ~IsOurs(e)
  <2>1. e \in Rewired(s.hooks[ev], i) /\ e \in Swept(s.hooks[ev])
    BY <1>3 DEF Rewired, Swept
  <2> QED BY <1>1, <2>1
<1>4. CASE IsOurs(e)
  <2>1. f \in e \ Install
    BY <1>2
  <2>2. e \ Install \in Swept(s.hooks[ev])
    BY <2>1 DEF Swept
  <2> QED BY <1>1, <1>4, <2>1, <2>2
<1> QED BY <1>3, <1>4

LEMMA WiredIs ==
  ASSUME NEW s \in Settings, NEW i \in Install, NEW mode \in Mode
  PROVE  LET merged == Merged(s, i, mode) IN
         /\ (UNION merged.hooks["wired"]) \cap Install = (IF mode = "full" THEN {i} ELSE {})
         /\ (UNION merged.hooks["retired"]) \cap Install = {}
<1>1. /\ Merged(s, i, mode).hooks["wired"] =
           IF mode = "full" THEN Rewired(s.hooks["wired"], i) ELSE Swept(s.hooks["wired"])
      /\ Merged(s, i, mode).hooks["retired"] = Swept(s.hooks["retired"])
  BY MergedIs DEF Event
<1>2. \A entries : (UNION Swept(entries)) \cap Install = {}
  BY DEF Swept, IsOurs
<1>3. \A entries : (UNION Rewired(entries, i)) \cap Install = {i}
  BY DEF Rewired, IsOurs
<1> QED BY <1>1, <1>2, <1>3

-----------------------------------------------------------------------------
(* What a run does to the registry.                                         *)

(* A run that ends well has looked and found, or verified, all it wants. *)
LEMMA OkIs ==
  ASSUME WireInv, [WireNext]_wire, NEW o \in Run, Ended(o, "ok")
  PROVE  /\ run[o] # Missing /\ run[o].pc \in {"plan", "verify"} /\ UNCHANGED <<settings, registry>>
         /\ \A n \in Name : \/ RightAs(registry[n], n, run[o].at, run[o].mode)
                            \/ /\ n \notin run[o].names /\ run[o].pc = "verify"
                               /\ registry[n] # run[o].seen[n]
<1> DEFINE r0 == run[o]
<1>1. /\ run \in [Run -> Running \cup {Missing}] /\ registry \in Registry
      /\ run'[o] # Missing /\ run'[o].pc = "done" /\ run'[o].outcome = "ok" /\ ~Stands(o, "done")
  BY DEF WireInv, WireTypeOK, Ended, Stands
<1>2. Step(o)
  <2>1. run'[o] # run[o]
    BY <1>1 DEF Stands
  <2> QED BY <1>1, <2>1, OwnStep
<1>3. ~BeginRun(o) /\ ~Leave(o) /\ ~StopRun(o)
  BY <1>1 DEF BeginRun, Leave, StopRun
<1>4. ~Backup(o) /\ ~Copy(o) /\ ~Write(o)
  <2>1. ASSUME NEW place, run' = [run EXCEPT ![o].pc = place], run[o] # Missing
        PROVE  run'[o].pc = place
    <3>1. run[o] \in Running
      BY <1>1, <2>1
    <3>2. run'[o] = [run[o] EXCEPT !.pc = place]
      BY <1>1, <2>1
    <3> QED BY <3>1, <3>2 DEF Running
  <2> QED BY <1>1, <2>1 DEF Backup, Copy, Write, GoesTo, Stands
<1>5. ~RunCommand(o)
  <2> SUFFICES ASSUME RunCommand(o) PROVE FALSE
    OBVIOUS
  <2> DEFINE a == Head(r0.todo)
             rest == [r0 EXCEPT !.todo = Tail(@)]
  <2>1. PICK next \in {Succeeding(rest, a), Failing(rest, a)} : run' = [run EXCEPT ![o] = AfterCommand(next)]
    BY DEF RunCommand
  <2>2. r0 \in Running /\ r0.pc = "apply"
    BY StandsIs DEF RunCommand, Stands
  <2>3. rest.pc = "apply" /\ DOMAIN rest = DOMAIN r0
    BY <2>2 DEF Running
  <2>4. next.pc = "apply"
    BY <2>2, <2>3 DEF Succeeding, Failing, Running
  <2>5. AfterCommand(next).outcome = "failed" \/ AfterCommand(next).pc # "done"
    BY <2>2, <2>4 DEF AfterCommand, Succeeding, Failing, Running
  <2> QED BY <1>1, <2>1, <2>5
<1>6. CASE Plan(o)
  <2> DEFINE todo == Planned(registry, r0.at, r0.mode)
             r == [r0 EXCEPT !.pc = "apply", !.seen = registry, !.todo = todo, !.names = NamesIn(todo)]
  <2>1. r0 \in Running /\ r0.pc = "plan" /\ r0.at \in Install /\ r0.mode \in Mode /\ run[o] # Missing
    BY <1>6, StandsIs DEF Plan, Stands
  <2>2. todo = <<>>
    <3>1. todo = <<>> \/ run' = [run EXCEPT ![o] = r] \/ Ends(o, r, "pending")
      BY <1>6 DEF Plan
    <3>2. r.pc = "apply" /\ [r EXCEPT !.pc = "done", !.outcome = "pending"].outcome = "pending"
      BY <2>1 DEF Running
    <3>3. run' # [run EXCEPT ![o] = r]
      BY <1>1, <3>2
    <3>4. ~Ends(o, r, "pending")
      BY <1>1, <3>2 DEF Ends
    <3> QED BY <3>1, <3>3, <3>4
  <2>3. NamesIn(todo) = {}
    BY <2>2 DEF NamesIn, Range
  <2>4. \A n \in Name : RightAs(registry[n], n, r0.at, r0.mode)
    BY <1>1, <2>1, <2>3, PlannedActs
  <2> QED BY <1>6, <2>1, <2>4 DEF Plan, files
<1>7. CASE Verify(o)
  <2>1. /\ r0 \in Running /\ RunFits(r0) /\ r0.pc = "verify" /\ run[o] # Missing
        /\ r0.at \in Install /\ r0.mode \in Mode /\ r0.seen \in Registry
    BY <1>7, StandsIs DEF Verify, Stands
  <2>2. Verified(registry, r0.names, r0.at, r0.mode)
    <3>1. ASSUME Ends(o, r0, "failed")
          PROVE  run'[o].outcome = "failed"
      BY <1>1, <2>1, <3>1 DEF Ends, Running
    <3> QED BY <1>1, <1>7, <3>1 DEF Verify
  <2>3. r0.names = NamesIn(Planned(r0.seen, r0.at, r0.mode))
    BY <2>1 DEF RunFits
  <2>4. \A n \in r0.names : RightAs(registry[n], n, r0.at, r0.mode)
    BY <2>2 DEF Verified, RightAs, References
  <2>5. \A n \in Name : n \notin r0.names => RightAs(r0.seen[n], n, r0.at, r0.mode)
    BY <2>1, <2>3, PlannedActs
  <2> QED BY <1>7, <2>1, <2>4, <2>5 DEF Verify, files
<1> QED BY <1>2, <1>3, <1>4, <1>5, <1>6, <1>7 DEF Step

(* A command removes what the run had seen to be its own. *)
LEMMA RemovedIs ==
  ASSUME WireInv, [WireNext]_wire, NEW o \in Run, NEW n \in Name,
         Stands(o, "apply"), run'[o] # run[o], registry[n] # Missing, registry'[n] # registry[n]
  PROVE  \/ References(registry[n], run[o].at)
         \/ (n = "waykeep" /\ run[o].mode = "full")
         \/ registry[n] # run[o].seen[n]
<1> DEFINE r0 == run[o]
           a == Head(r0.todo)
<1>1. run \in [Run -> Running \cup {Missing}] /\ registry \in Registry
  BY DEF WireInv, WireTypeOK
<1>2. /\ r0 \in Running /\ RunFits(r0) /\ r0.pc = "apply" /\ r0.todo # <<>> /\ run[o] # Missing
      /\ r0.at \in Install /\ r0.mode \in Mode /\ r0.seen \in Registry
  BY StandsIs DEF Stands, WireInv, WireTypeOK
<1>3. Step(o)
  BY <1>1, OwnStep
<1>4. RunCommand(o)
  BY <1>2, <1>3 DEF Step, Stands, BeginRun, Backup, Copy, Write, Plan, Verify, Leave, StopRun, files
<1>5. registry' = Applied(registry, a, r0.at) /\ Accepts(registry, a)
  BY <1>4 DEF RunCommand
<1>6. a \in Range(Planned(r0.seen, r0.at, r0.mode))
  <2>1. r0.todo \in Seq(Action)
    BY <1>2 DEF Running
  <2>2. a = r0.todo[1] /\ 1 \in DOMAIN r0.todo
    BY <1>2, <2>1
  <2>3. a \in Range(r0.todo)
    BY <2>2 DEF Range
  <2> QED BY <1>2, <2>3 DEF RunFits
<1>7. n = a.name
  BY <1>1, <1>5 DEF Applied, Registry
<1>8. a.do = "remove"
  <2>1. a.do # "add"
    BY <1>5, <1>7 DEF Accepts
  <2>2. a \in Action
    BY <1>2, <1>6, PlannedActs
  <2> QED BY <2>1, <2>2 DEF Action
<1>9. References(r0.seen[a.name], r0.at) \/ (a.name = "waykeep" /\ r0.mode = "full")
  BY <1>2, <1>6, <1>8, PlannedActs
<1> QED BY <1>7, <1>9

-----------------------------------------------------------------------------
LEMMA ForeignLossIs ==
  WireInv /\ [WireNext]_wire =>
    \A o \in Run, ev \in Event : (Stands(o, "write") /\ Stands(o, "plan")' /\ settings # Missing) =>
      \A f \in Kept(settings, ev) \ Kept(settings', ev) :
        \/ f \notin Kept(run[o].was, ev)
        \/ /\ ev = "wired" /\ run[o].mode = "full"
           /\ \A e \in run[o].was.hooks[ev] : f \in e => IsOurs(e)
<1> SUFFICES ASSUME WireInv, [WireNext]_wire, NEW o \in Run, NEW ev \in Event,
                    Stands(o, "write"), Stands(o, "plan")',
                    NEW f, f \notin Kept(settings', ev), f \in Kept(run[o].was, ev),
                    ~(/\ ev = "wired" /\ run[o].mode = "full"
                      /\ \A e \in run[o].was.hooks[ev] : f \in e => IsOurs(e))
             PROVE  FALSE
  OBVIOUS
<1>1. settings' = run[o].merged
  BY WriteIs
<1>2. /\ run[o].merged = Merged(run[o].was, run[o].at, run[o].mode)
      /\ run[o].at \in Install /\ run[o].mode \in Mode /\ run[o].was \in Settings
  BY StandsIs DEF Stands
<1>3. f \in Foreign /\ f \in UNION run[o].was.hooks[ev]
  BY DEF Kept
<1>4. PICK e \in run[o].was.hooks[ev] : f \in e /\ (run[o].mode = "full" /\ ev = "wired" => ~IsOurs(e))
  BY <1>3
<1>5. f \in UNION Merged(run[o].was, run[o].at, run[o].mode).hooks[ev]
  BY <1>2, <1>3, <1>4, HandlersStay
<1> QED BY <1>1, <1>2, <1>3, <1>5 DEF Kept

LEMMA WiredOnceIs ==
  WireInv /\ [WireNext]_wire =>
    \A o \in Run : (Stands(o, "write") /\ Stands(o, "plan")') =>
      /\ (UNION settings'.hooks["wired"]) \cap Install = (IF run[o].mode = "full" THEN {run[o].at} ELSE {})
      /\ (UNION settings'.hooks["retired"]) \cap Install = {}
<1> SUFFICES ASSUME WireInv, [WireNext]_wire, NEW o \in Run, Stands(o, "write"), Stands(o, "plan")'
             PROVE  /\ (UNION settings'.hooks["wired"]) \cap Install = (IF run[o].mode = "full" THEN {run[o].at} ELSE {})
                    /\ (UNION settings'.hooks["retired"]) \cap Install = {}
  OBVIOUS
<1>1. settings' = run[o].merged
  BY WriteIs
<1>2. /\ run[o].merged = Merged(run[o].was, run[o].at, run[o].mode)
      /\ run[o].at \in Install /\ run[o].mode \in Mode /\ run[o].was \in Settings
  BY StandsIs DEF Stands
<1> QED BY <1>1, <1>2, WiredIs

LEMMA OkIsRegisteredIs ==
  WireInv /\ [WireNext]_wire =>
    \A o \in Run : Ended(o, "ok") =>
      \A n \in Name : \/ Right(n, run[o].at, run[o].mode)
                      \/ n \notin run[o].names /\ run[o].pc = "verify" /\ registry[n] # run[o].seen[n]
  BY OkIs DEF Right, RightAs

LEMMA DoctorIs ==
  WireInv /\ [WireNext]_wire =>
    \A o \in Run : (Ended(o, "ok") /\ settings = run[o].merged) =>
      \/ Health(settings, registry, run[o].at, run[o].mode) = "ok"
      \/ (run[o].mode = "plugin" /\ registry["waykeep"] # Missing)
      \/ /\ "waykeep" \notin run[o].names /\ run[o].pc = "verify"
         /\ registry["waykeep"] # run[o].seen["waykeep"]
<1> SUFFICES ASSUME WireInv, [WireNext]_wire, NEW o \in Run, Ended(o, "ok"), settings = run[o].merged,
                    ~(run[o].mode = "plugin" /\ registry["waykeep"] # Missing),
                    RightAs(registry["waykeep"], "waykeep", run[o].at, run[o].mode)
             PROVE  Health(settings, registry, run[o].at, run[o].mode) = "ok"
  BY OkIs DEF Name
<1>1. /\ run[o].merged = Merged(run[o].was, run[o].at, run[o].mode)
      /\ run[o].at \in Install /\ run[o].mode \in Mode /\ run[o].was \in Settings
  BY OkIs, StandsIs
<1>2. ~LooksOurs(settings.server)
  BY <1>1, MergedIs
<1>3. CASE run[o].mode = "full"
  <2>1. registry["waykeep"] = Desired(run[o].at) /\ Desired(run[o].at) \in Entry
    BY <1>1, <1>3 DEF RightAs, Desired, Entry
  <2>2. registry["waykeep"] # Missing
    BY <2>1, ClientAssumption
  <2> QED BY <1>2, <2>1, <2>2 DEF Health, Desired
<1>4. CASE run[o].mode = "plugin"
  BY <1>2, <1>4 DEF Health
<1> QED BY <1>1, <1>3, <1>4 DEF Mode

(* What the user and other tools put into the client's files stays there, and *)
(* what init says of the registry is what the registry holds.               *)
THEOREM WiringIsKeptAlways == WireSpec => WiringIsKept
<1>1. WireSpec => []WireInv
  BY WireInvHolds, WireInvStays, PTL DEF WireSpec
<1>2. WireInv /\ [WireNext]_wire =>
        [\A p \in Run, ev \in Event : (Stands(p, "write") /\ Stands(p, "plan")' /\ settings # Missing) =>
           \A f \in Kept(settings, ev) \ Kept(settings', ev) :
             \/ f \notin Kept(run[p].was, ev)
             \/ /\ ev = "wired" /\ run[p].mode = "full"
                /\ \A e \in run[p].was.hooks[ev] : f \in e => IsOurs(e)]_wire
  BY ForeignLossIs
<1>3. WireInv /\ [WireNext]_wire =>
        [\A p \in Run : (Stands(p, "write") /\ Stands(p, "plan")') =>
           /\ (UNION settings'.hooks["wired"]) \cap Install = (IF run[p].mode = "full" THEN {run[p].at} ELSE {})
           /\ (UNION settings'.hooks["retired"]) \cap Install = {}]_wire
  BY WiredOnceIs
<1>4. WireInv /\ [WireNext]_wire =>
        [\A p \in Run : Ended(p, "ok") =>
           \A n \in Name : \/ Right(n, run[p].at, run[p].mode)
                            \/ /\ n \notin run[p].names /\ run[p].pc = "verify"
                               /\ registry[n] # run[p].seen[n]]_wire
  BY OkIsRegisteredIs
<1>5. WireInv /\ [WireNext]_wire =>
        [\A p \in Run, n \in Name :
           (Stands(p, "apply") /\ run'[p] # run[p] /\ registry[n] # Missing /\ registry'[n] # registry[n]) =>
             \/ References(registry[n], run[p].at)
             \/ (n = "waykeep" /\ run[p].mode = "full")
             \/ registry[n] # run[p].seen[n]]_wire
  BY RemovedIs
<1>6. WireInv /\ [WireNext]_wire =>
        [\A p \in Run : (Ended(p, "ok") /\ settings = run[p].merged) =>
           \/ Health(settings, registry, run[p].at, run[p].mode) = "ok"
           \/ (run[p].mode = "plugin" /\ registry["waykeep"] # Missing)
           \/ /\ "waykeep" \notin run[p].names /\ run[p].pc = "verify"
              /\ registry["waykeep"] # run[p].seen["waykeep"]]_wire
  BY DoctorIs
<1>7. WireSpec => ForeignLossHasACause
  BY <1>1, <1>2, PTL DEF WireSpec, ForeignLossHasACause
<1>8. WireSpec => WiredOnce
  BY <1>1, <1>3, PTL DEF WireSpec, WiredOnce
<1>9. WireSpec => OkIsRegistered
  BY <1>1, <1>4, PTL DEF WireSpec, OkIsRegistered
<1>10. WireSpec => OthersNeedARace
  BY <1>1, <1>5, PTL DEF WireSpec, OthersNeedARace
<1>11. WireSpec => DoctorAgrees
  BY <1>1, <1>6, PTL DEF WireSpec, DoctorAgrees
<1> QED BY <1>7, <1>8, <1>9, <1>10, <1>11 DEF WiringIsKept, HandlersAreKept, RegistryIsAsReported
=============================================================================
