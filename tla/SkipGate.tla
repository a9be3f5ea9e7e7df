------------------------------- MODULE SkipGate -------------------------------
(***************************************************************************)
(* The cache of the process that serves the hooks.  A hook that found      *)
(* nothing to say is remembered and skipped the next time; the recall      *)
(* passes behind it remember their candidates.  Memory is written by this  *)
(* process, by MCP servers that relay a bump over the socket, by inbound   *)
(* events here or in another process, which raise a durable generation,    *)
(* and by hooks that tell nobody.                                          *)
(*                                                                         *)
(* Writes are numbered.  A cached answer keeps, as a ghost, how many of    *)
(* them the oldest read behind it could see, when that read was, and       *)
(* whether the generation was known by then.                               *)
(***************************************************************************)
EXTENDS Integers, SequencesExt

CONSTANTS
  Key,         \* what the skip gate is keyed by: tool, file, mode, session state
  Passes,      \* recall passes of the handler: 1 for Bash, 2 for an edit
  SkipTTL, FtsTTL,  \* SKIP_GATE_TTL_MS, FTS_TTL_MS
  MaxEntries,  \* MAX_SKIP_GATE_ENTRIES
  MaxWrites, MaxTime,  \* bounds of the model
  MaxVersion   \* bound: a check fails only below this memoryVersion

ASSUME SkipGateAssumption ==
  /\ {Passes, SkipTTL, FtsTTL, MaxEntries, MaxWrites, MaxTime, MaxVersion} \subseteq Nat
  /\ Passes > 0 /\ MaxEntries > 0

Channel == {"local", "relayed", "applied", "owner-applied", "silent"}

VARIABLES
  now,            \* the clock
  writes,         \* the channel of each committed memory write
  relays,         \* bumps posted to the owner's socket, by number of their write
  heard,          \* ghost: writes this process has made or been told of by a bump
  memoryVersion,
  lastSeen,       \* lastSeenGeneration, -1 before a check has succeeded
  skipGate,       \* skip-gate entries, oldest first
  fts,            \* per pass and key, the set of at most one candidate entry
  request         \* the hook being handled, or Idle

cache == <<memoryVersion, lastSeen, skipGate, fts>>
vars == <<now, writes, relays, heard, cache, request>>

Idle == [stage |-> "idle"]

Applied == {w \in DOMAIN writes : writes[w] \in {"applied", "owner-applied"}}
Generation == Cardinality(Applied)

-----------------------------------------------------------------------------
(* Invalidation.                                                           *)

\* Fault: the candidates of the recall passes are kept.
InvalidateSkipGate ==
  /\ skipGate' = <<>> /\ memoryVersion' = memoryVersion + 1
  /\ UNCHANGED fts

InvalidateMemoryDerived ==
  /\ skipGate' = <<>> /\ memoryVersion' = memoryVersion + 1
  /\ fts' = [x \in DOMAIN fts |-> {}]

\* Fault: a new generation is noted and flushes nothing.
FlushesOnFailure(outcome) == outcome = "failed"

\* A failed read flushes too; the first generation ever seen does not.
Flushes(outcome) == outcome = "failed" \/ lastSeen \notin {-1, Generation}

Checked(outcome) == IF outcome = "read" THEN Generation ELSE lastSeen

CheckDurableGeneration(outcome) ==
  /\ lastSeen' = Checked(outcome)
  /\ IF Flushes(outcome) THEN InvalidateMemoryDerived ELSE UNCHANGED <<memoryVersion, skipGate, fts>>

-----------------------------------------------------------------------------
(* Memory writes.                                                          *)

Written(channel) == Len(writes) < MaxWrites /\ writes' = Append(writes, channel)

\* A tool of this process, or the owner RPC in it, writes and bumps before
\* anything else runs.
WriteHere(channel) ==
  /\ request = Idle
  /\ Written(channel) /\ InvalidateMemoryDerived
  /\ heard' = heard \cup {Len(writes')}
  /\ UNCHANGED <<now, relays, lastSeen, request>>

\* A tool of an MCP server that does not own the socket: the write commits,
\* then its bump is posted.
WriteRelayed ==
  /\ Written("relayed") /\ relays' = relays \cup {Len(writes')}
  /\ UNCHANGED <<now, heard, cache, request>>

\* Another process applies inbound events, or a hook captures a memory by
\* itself: nobody bumps.
WriteElsewhere(channel) ==
  /\ Written(channel)
  /\ UNCHANGED <<now, relays, heard, cache, request>>

\* POST /bump-memory-version, however late.
BumpMemoryVersion(w) ==
  /\ request = Idle
  /\ relays' = relays \ {w} /\ heard' = heard \cup {w}
  /\ InvalidateMemoryDerived
  /\ UNCHANGED <<now, writes, lastSeen, request>>

\* The post times out, or the server ends before it.
LoseBump(w) ==
  /\ relays' = relays \ {w}
  /\ UNCHANGED <<now, writes, heard, cache, request>>

-----------------------------------------------------------------------------
(* handlePitfallCheck.  It never yields to this process's other work, but  *)
(* other processes commit between its reads.                               *)

Find(S, k) == {i \in DOMAIN S : S[i].key = k}

Live(x) == x.version = memoryVersion /\ now <= x.expires

Handling(k) == [stage |-> "check", key |-> k, pass |-> 1, basis |-> MaxWrites, readAt |-> now,
                verified |-> TRUE]

\* The gate: a live entry answers the hook, an entry that is not goes.
Lookup(k, outcome) ==
  /\ request = Idle
  /\ \/ /\ Flushes(outcome)
        /\ CheckDurableGeneration(outcome)
        /\ request' = Handling(k)
     \/ /\ ~Flushes(outcome)
        /\ lastSeen' = Checked(outcome) /\ UNCHANGED <<memoryVersion, fts>>
        /\ LET dead == {i \in Find(skipGate, k) : ~Live(skipGate[i])}
           IN  skipGate' = IF dead = {} THEN skipGate
                           ELSE RemoveAt(skipGate, CHOOSE i \in dead : TRUE)
        /\ request' = IF Find(skipGate', k) # {} THEN Idle ELSE Handling(k)
  /\ UNCHANGED <<now, writes, relays, heard>>

\* cachedRecallByFingerprint checks the generation again ...
RecallCheck(outcome) ==
  /\ request.stage = "check"
  /\ CheckDurableGeneration(outcome)
  /\ request' = [request EXCEPT !.stage = "recall"]
  /\ UNCHANGED <<now, writes, relays, heard>>

Earlier(a, b) == IF a < b THEN a ELSE b
FtsKey == <<request.pass, request.key>>
FreshCandidates == {c \in fts[FtsKey] : now - c.cachedAt <= FtsTTL}

NewCandidate == [basis |-> Len(writes), cachedAt |-> now, verified |-> lastSeen # -1]

\* ... and takes the candidates it remembers, or scans.
Recalled == IF FreshCandidates # {} THEN CHOOSE c \in FreshCandidates : TRUE ELSE NewCandidate

\* The answer is as old as the oldest read behind it.
Advanced(c) ==
  [request EXCEPT !.pass = @ + 1,
                  !.stage = IF request.pass = Passes THEN "answer" ELSE "check",
                  !.basis = Earlier(@, c.basis), !.readAt = Earlier(@, c.cachedAt),
                  !.verified = @ /\ c.verified]

Recall ==
  /\ request.stage = "recall"
  /\ fts' = [fts EXCEPT ![FtsKey] = {Recalled}]
  /\ request' = Advanced(Recalled)
  /\ UNCHANGED <<now, writes, relays, heard, memoryVersion, lastSeen, skipGate>>

\* A Map keeps the place of a key it has; beyond the limit its oldest key goes.
Placed(x) ==
  IF Find(skipGate, x.key) # {}
    THEN [i \in DOMAIN skipGate |-> IF skipGate[i].key = x.key THEN x ELSE skipGate[i]]
    ELSE Append(skipGate, x)

Stored(x) == IF Len(Placed(x)) > MaxEntries THEN Tail(Placed(x)) ELSE Placed(x)

NewEntry ==
  [key |-> request.key, version |-> memoryVersion, expires |-> now + SkipTTL,
   basis |-> request.basis, readAt |-> request.readAt, verified |-> request.verified]

\* Only an empty answer is cached; a warning also updates the session.
Answer(empty) ==
  /\ request.stage = "answer"
  /\ skipGate' = IF empty THEN Stored(NewEntry) ELSE skipGate
  /\ request' = Idle
  /\ UNCHANGED <<now, writes, relays, heard, memoryVersion, lastSeen, fts>>

\* A hook takes no time against the TTLs.
Tick ==
  /\ request = Idle /\ now < MaxTime
  /\ now' = now + 1
  /\ UNCHANGED <<writes, relays, heard, cache, request>>

-----------------------------------------------------------------------------

Init ==
  /\ now = 0 /\ writes = <<>> /\ relays = {} /\ heard = {}
  /\ memoryVersion = 0 /\ lastSeen = -1 /\ skipGate = <<>>
  /\ fts = [x \in (1 .. Passes) \X Key |-> {}] /\ request = Idle

Outcomes == IF memoryVersion < MaxVersion THEN {"read", "failed"} ELSE {"read"}

Next ==
  \/ \E channel \in {"local", "owner-applied"} : WriteHere(channel)
  \/ WriteRelayed
  \/ \E channel \in {"applied", "silent"} : WriteElsewhere(channel)
  \/ \E w \in relays : BumpMemoryVersion(w) \/ LoseBump(w)
  \/ \E k \in Key, outcome \in Outcomes : Lookup(k, outcome)
  \/ \E outcome \in Outcomes : RecallCheck(outcome)
  \/ Recall
  \/ \E empty \in BOOLEAN : Answer(empty)
  \/ Tick

Spec == Init /\ [][Next]_vars

-----------------------------------------------------------------------------

Entry == [key : Key, version : Nat, expires : Nat, basis : Nat, readAt : Nat, verified : BOOLEAN]
Candidate == [basis : Nat, cachedAt : Nat, verified : BOOLEAN]
Request == [stage : {"check", "recall", "answer"}, key : Key, pass : 1 .. Passes + 1, basis : Nat,
            readAt : Nat, verified : BOOLEAN]

(* Every variable has its type, and the gate keeps to its limit with one     *)
(* entry for a key.                                                          *)
TypeOK ==
  /\ now \in Nat /\ writes \in Seq(Channel) /\ Len(writes) <= MaxWrites
  /\ relays \subseteq DOMAIN writes /\ heard \subseteq DOMAIN writes
  /\ memoryVersion \in Nat /\ lastSeen \in -1 .. Generation
  /\ skipGate \in Seq(Entry) /\ Len(skipGate) <= MaxEntries
  /\ \A i, j \in DOMAIN skipGate : skipGate[i].key = skipGate[j].key => i = j
  /\ fts \in [(1 .. Passes) \X Key -> SUBSET Candidate]
  /\ request \in {Idle} \cup Request
  /\ request.stage \in {"check", "recall"} => request.pass <= Passes

Entries == {skipGate[i] : i \in DOMAIN skipGate}

\* What a lookup that reads the generation now would answer with.
Served == {x \in Entries : Live(x) /\ lastSeen \in {-1, Generation}}

(* A hook is never skipped on the strength of reads older than a write this  *)
(* process made or was told of: zero staleness across bumps, also through    *)
(* candidates cached by an earlier hook (session-cache.ts, the skip-gate     *)
(* notes).                                                                   *)
HeardIsServed == \A x \in Served : \A w \in heard : w <= x.basis

(* Nor on reads older than inbound events applied by another process, if a   *)
(* check had succeeded before those reads: the durable generation tells      *)
(* (checkDurableGeneration).  It holds of hooks with one recall pass.        *)
GenerationIsServed == \A x \in Served : x.verified => \A w \in Applied : w <= x.basis

(* A write nobody announced, or whose bump was lost, is seen at the latest   *)
(* when both lifetimes are over: the candidates' and the entry's.            *)
StaleForBothTTLs == \A x \in Served : now - x.readAt <= FtsTTL + SkipTTL
=============================================================================
