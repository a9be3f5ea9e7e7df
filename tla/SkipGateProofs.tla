---------------------------- MODULE SkipGateProofs ----------------------------
(***************************************************************************)
(* Proofs about what is acted on after it was read: the cached answers of  *)
(* the process that serves the hooks, for any number of keys, writes and   *)
(* channels, and any lifetimes; the evaluations of a Stop; the commands of *)
(* the memory tool.  The idea of the first: what a read could see only     *)
(* grows, an answer is no better than the oldest read behind it, and       *)
(* whatever raises what an answer must have seen also empties both caches  *)
(* while no hook is in the middle of one.                                  *)
(***************************************************************************)
EXTENDS SkipGate, Governance, MemoryFiles, FiniteSetTheorems, SequenceTheorems, TLAPS

-----------------------------------------------------------------------------
(* The gate as a sequence.                                                 *)

(* Dropping one entry keeps the others, in their order. *)
LEMMA RemovedEntry ==
  ASSUME NEW S, NEW s \in Seq(S), NEW i \in 1 .. Len(s)
  PROVE  /\ RemoveAt(s, i) \in Seq(S)
         /\ Len(RemoveAt(s, i)) = Len(s) - 1
         /\ \A j \in 1 .. Len(s) - 1 : RemoveAt(s, i)[j] = IF j < i THEN s[j] ELSE s[j + 1]
<1> DEFINE front == SubSeq(s, 1, i - 1)
           back == SubSeq(s, i + 1, Len(s))
<1>1. /\ front \in Seq(S) /\ Len(front) = i - 1
      /\ \A j \in 1 .. i - 1 : front[j] = s[j]
  OBVIOUS
<1>2. /\ back \in Seq(S) /\ Len(back) = Len(s) - i
      /\ \A j \in 1 .. Len(s) - i : back[j] = s[i + j]
  OBVIOUS
<1> HIDE DEF front, back
<1>3. RemoveAt(s, i) = front \o back
  BY DEF RemoveAt, front, back
<1>4. /\ front \o back \in Seq(S)
      /\ Len(front \o back) = Len(s) - 1
  BY <1>1, <1>2
<1>5. ASSUME NEW j \in 1 .. Len(s) - 1
      PROVE  (front \o back)[j] = IF j < i THEN s[j] ELSE s[j + 1]
  <2>1. CASE j < i
    BY <1>1, <1>2, <2>1
  <2>2. CASE j >= i
    <3> DEFINE k == j - (i - 1)
    <3>1. k \in 1 .. Len(s) - i /\ i + k = j + 1
      BY <2>2
    <3>2. (front \o back)[j] = back[k]
      BY <1>1, <1>2, <2>2
    <3> HIDE DEF k
    <3>3. back[k] = s[i + k]
      BY <1>2, <3>1
    <3>4. ~(j < i)
      BY <2>2
    <3> QED BY <3>1, <3>2, <3>3, <3>4
  <2>3. j < i \/ j >= i
    OBVIOUS
  <2> QED BY <2>1, <2>2, <2>3, Zenon
<1> QED BY <1>3, <1>4, <1>5

OneEach(s) == \A i, j \in DOMAIN s : s[i].key = s[j].key => i = j

(* ... and leaves one entry of each key. *)
LEMMA RemovedOneEach ==
  ASSUME NEW S, NEW s \in Seq(S), OneEach(s), NEW i \in 1 .. Len(s)
  PROVE  OneEach(RemoveAt(s, i))
<1> DEFINE old(j) == IF j < i THEN j ELSE j + 1
<1>1. PICK t : t = RemoveAt(s, i)
  OBVIOUS
<1>2. DOMAIN t = 1 .. Len(s) - 1 /\ \A j \in 1 .. Len(s) - 1 : t[j] = s[old(j)]
  BY <1>1, RemovedEntry
<1>3. \A j \in 1 .. Len(s) - 1 : old(j) \in DOMAIN s
  OBVIOUS
<1>4. \A a, b \in 1 .. Len(s) - 1 : old(a) = old(b) => a = b
  OBVIOUS
<1> HIDE DEF old
<1>5. OneEach(t)
  BY <1>2, <1>3, <1>4 DEF OneEach
<1> QED  BY <1>1, <1>5

LEMMA PlacedEntry ==
  ASSUME skipGate \in Seq(Entry), OneEach(skipGate), NEW x \in Entry
  PROVE  /\ Placed(x) \in Seq(Entry) /\ OneEach(Placed(x))
         /\ Len(Placed(x)) \in {Len(skipGate), Len(skipGate) + 1}
         /\ \A i \in DOMAIN Placed(x) :
              Placed(x)[i] = x \/ \E j \in DOMAIN skipGate : Placed(x)[i] = skipGate[j]
<1>0. Len(skipGate) \in Nat /\ DOMAIN skipGate = 1 .. Len(skipGate)
  OBVIOUS
<1>1. CASE Find(skipGate, x.key) # {}
  <2>1. Placed(x) = [i \in DOMAIN skipGate |->
                       IF skipGate[i].key = x.key THEN x ELSE skipGate[i]]
    BY <1>1 DEF Placed
  <2>2. /\ Placed(x) \in Seq(Entry) /\ Len(Placed(x)) = Len(skipGate)
        /\ DOMAIN Placed(x) = DOMAIN skipGate
        /\ \A i \in DOMAIN skipGate : Placed(x)[i] \in {x, skipGate[i]}
        /\ \A i \in DOMAIN skipGate : Placed(x)[i].key = skipGate[i].key
    BY <1>0, <2>1
  <2>3. OneEach(Placed(x))
    BY <2>2 DEF OneEach
  <2> QED BY <2>2, <2>3
<1>2. CASE Find(skipGate, x.key) = {}
  <2>1. Placed(x) = Append(skipGate, x)
    BY <1>2 DEF Placed
  <2>2. /\ Placed(x) \in Seq(Entry) /\ Len(Placed(x)) = Len(skipGate) + 1
        /\ DOMAIN Placed(x) = 1 .. Len(skipGate) + 1
        /\ \A i \in 1 .. Len(skipGate) : Placed(x)[i] = skipGate[i]
        /\ Placed(x)[Len(skipGate) + 1] = x
    BY <1>0, <2>1
  <2>3. \A i \in DOMAIN skipGate : skipGate[i].key # x.key
    BY <1>2 DEF Find
  <2>4. OneEach(Placed(x))
    BY <1>0, <2>2, <2>3 DEF OneEach
  <2>5. \A i \in DOMAIN Placed(x) :
          Placed(x)[i] = x \/ \E j \in DOMAIN skipGate : Placed(x)[i] = skipGate[j]
    BY <1>0, <2>2
  <2> QED BY <2>2, <2>4, <2>5
<1> QED BY <1>1, <1>2

(* Storing an entry: the gate keeps to its limit and to one entry a key. *)
LEMMA StoredEntry ==
  ASSUME skipGate \in Seq(Entry), Len(skipGate) <= MaxEntries, OneEach(skipGate),
         NEW x \in Entry
  PROVE  /\ Stored(x) \in Seq(Entry) /\ Len(Stored(x)) <= MaxEntries /\ OneEach(Stored(x))
         /\ \A i \in DOMAIN Stored(x) :
              Stored(x)[i] = x \/ \E j \in DOMAIN skipGate : Stored(x)[i] = skipGate[j]
<1>0. MaxEntries \in Nat /\ MaxEntries > 0
  BY SkipGateAssumption
<1>1. CASE Len(Placed(x)) > MaxEntries
  <2> DEFINE p == Placed(x)
  <2>1. p \in Seq(Entry) /\ OneEach(p) /\ Len(p) = MaxEntries + 1
    BY <1>0, <1>1, PlacedEntry
  <2>2. Stored(x) = Tail(p)
    BY <1>1 DEF Stored
  <2>3. \A i \in DOMAIN p :
          p[i] = x \/ \E j \in DOMAIN skipGate : p[i] = skipGate[j]
    BY PlacedEntry
  <2> HIDE DEF p
  <2>4. /\ Tail(p) \in Seq(Entry) /\ Len(Tail(p)) = MaxEntries
        /\ DOMAIN Tail(p) = 1 .. MaxEntries
        /\ \A i \in 1 .. MaxEntries : Tail(p)[i] = p[i + 1] /\ i + 1 \in DOMAIN p
    BY <1>0, <2>1
  <2>5. OneEach(Tail(p))
    <3> SUFFICES ASSUME NEW i \in 1 .. MaxEntries, NEW j \in 1 .. MaxEntries,
                        p[i + 1].key = p[j + 1].key
                 PROVE  i = j
      BY <2>4 DEF OneEach
    <3>1. i + 1 = j + 1
      BY <2>1, <2>4 DEF OneEach
    <3> QED BY <3>1, <1>0
  <2>6. \A i \in DOMAIN Tail(p) :
          Tail(p)[i] = x \/ \E j \in DOMAIN skipGate : Tail(p)[i] = skipGate[j]
    BY <2>3, <2>4
  <2> QED BY <1>0, <2>2, <2>4, <2>5, <2>6
<1>2. CASE Len(Placed(x)) <= MaxEntries
  <2>1. Stored(x) = Placed(x)
    BY <1>0, <1>2, PlacedEntry DEF Stored
  <2> QED BY <1>2, <2>1, PlacedEntry
<1>3. Len(Placed(x)) \in Nat
  BY PlacedEntry
<1> QED BY <1>0, <1>1, <1>2, <1>3

-----------------------------------------------------------------------------
(* The applied writes a read with basis b could see.                       *)
SeenUpTo(b) == {w \in Applied : w <= b}

LEMMA AppliedIsFinite ==
  ASSUME writes \in Seq(Channel)
  PROVE  /\ Applied \subseteq 1 .. Len(writes)
         /\ IsFiniteSet(Applied) /\ Generation \in Nat
         /\ \A b : IsFiniteSet(SeenUpTo(b)) /\ Cardinality(SeenUpTo(b)) \in Nat
<1>1. Applied \subseteq 1 .. Len(writes) /\ IsFiniteSet(1 .. Len(writes))
  BY FS_Interval DEF Applied
<1>2. IsFiniteSet(Applied) /\ \A b : SeenUpTo(b) \in SUBSET Applied
  BY <1>1, FS_Subset DEF SeenUpTo
<1> QED BY <1>1, <1>2, FS_Subset, FS_CardinalityType DEF Generation

(* Writes are only added, so what a read could see only grows. *)
Grown == writes' = writes \/ \E c \in Channel : writes' = Append(writes, c)

LEMMA GrownWrites ==
  ASSUME writes \in Seq(Channel), Grown
  PROVE  /\ writes' \in Seq(Channel) /\ DOMAIN writes \subseteq DOMAIN writes'
         /\ Len(writes') \in {Len(writes), Len(writes) + 1}
         /\ Generation' \in Nat /\ Generation <= Generation'
         /\ \A b : /\ Cardinality(SeenUpTo(b)') \in Nat
                   /\ Cardinality(SeenUpTo(b)) <= Cardinality(SeenUpTo(b)')
<1>1. /\ writes' \in Seq(Channel) /\ DOMAIN writes \subseteq DOMAIN writes'
      /\ Len(writes') \in {Len(writes), Len(writes) + 1}
      /\ \A w \in DOMAIN writes : writes'[w] = writes[w]
  BY DEF Grown
<1>2. Applied \in SUBSET Applied'
  BY <1>1 DEF Applied
<1>3. IsFiniteSet(Applied') /\ \A b : IsFiniteSet(SeenUpTo(b)')
  <2>1. Len(writes') \in Int /\ DOMAIN writes' = 1 .. Len(writes')
    BY <1>1
  <2>2. IsFiniteSet(1 .. Len(writes'))
    BY <2>1, FS_Interval
  <2>3. Applied' \in SUBSET (1 .. Len(writes'))
    BY <2>1 DEF Applied
  <2>4. IsFiniteSet(Applied') /\ \A b : SeenUpTo(b)' \in SUBSET Applied'
    BY <2>2, <2>3, FS_Subset DEF SeenUpTo
  <2> QED BY <2>4, FS_Subset
<1>4. Generation' \in Nat /\ Generation <= Generation'
  BY <1>2, <1>3, FS_Subset, FS_CardinalityType DEF Generation
<1>5. \A b : SeenUpTo(b) \in SUBSET SeenUpTo(b)'
  BY <1>2 DEF SeenUpTo
<1>6. \A b : /\ Cardinality(SeenUpTo(b)') \in Nat
             /\ Cardinality(SeenUpTo(b)) <= Cardinality(SeenUpTo(b)')
  BY <1>3, <1>5, FS_Subset, FS_CardinalityType
<1> QED BY <1>1, <1>4, <1>6

LEMMA StepGrows == ASSUME [Next]_vars PROVE Grown
BY DEF Next, vars, Grown, Channel, WriteHere, WriteRelayed, WriteElsewhere, Written,
   BumpMemoryVersion, LoseBump, Lookup, RecallCheck, Recall, Answer, Tick

-----------------------------------------------------------------------------
LEMMA TypeInit == Init => TypeOK
<1> SUFFICES ASSUME Init PROVE TypeOK
  OBVIOUS
<1>1. writes \in Seq(Channel) /\ Len(writes) <= MaxWrites
  BY SkipGateAssumption DEF Init
<1>2. Generation \in Nat
  BY <1>1, AppliedIsFinite
<1> QED BY <1>1, <1>2, SkipGateAssumption DEF Init, TypeOK, Idle

(* A check of the generation keeps the types of what it touches. *)
CacheTyped ==
  /\ memoryVersion \in Nat /\ lastSeen \in -1 .. Generation
  /\ skipGate \in Seq(Entry) /\ Len(skipGate) <= MaxEntries /\ OneEach(skipGate)
  /\ fts \in [(1 .. Passes) \X Key -> SUBSET Candidate]
TellersTyped ==
  /\ now \in Nat /\ writes \in Seq(Channel) /\ Len(writes) <= MaxWrites
  /\ relays \subseteq DOMAIN writes /\ heard \subseteq DOMAIN writes
RequestTyped ==
  /\ request \in {Idle} \cup Request
  /\ request.stage \in {"check", "recall"} => request.pass <= Passes

LEMMA TypeParts == TypeOK <=> TellersTyped /\ CacheTyped /\ RequestTyped
BY DEF TypeOK, TellersTyped, CacheTyped, RequestTyped, OneEach

LEMMA Invalidated ==
  ASSUME CacheTyped, InvalidateMemoryDerived
  PROVE  /\ memoryVersion' \in Nat /\ skipGate' = <<>> /\ skipGate' \in Seq(Entry)
         /\ Len(skipGate') = 0 /\ OneEach(skipGate')
         /\ fts' \in [(1 .. Passes) \X Key -> SUBSET Candidate]
         /\ \A y \in (1 .. Passes) \X Key : fts'[y] = {}
BY DEF CacheTyped, InvalidateMemoryDerived, OneEach

LEMMA TellersStep == ASSUME TypeOK, [Next]_vars PROVE TellersTyped'
<1>0. Grown /\ writes \in Seq(Channel)
  BY StepGrows DEF TypeOK
<1> USE <1>0, GrownWrites, SkipGateAssumption DEF TypeOK, TellersTyped
<1>1. ASSUME NEW c \in {"local", "owner-applied"}, WriteHere(c)
      PROVE  TellersTyped'
  BY <1>1 DEF WriteHere, Written
<1>2. CASE WriteRelayed
  BY <1>2 DEF WriteRelayed, Written
<1>3. ASSUME NEW c \in {"applied", "silent"}, WriteElsewhere(c)
      PROVE  TellersTyped'
  BY <1>3 DEF WriteElsewhere, Written
<1>4. ASSUME NEW w \in relays, BumpMemoryVersion(w) \/ LoseBump(w)
      PROVE  TellersTyped'
  BY <1>4 DEF BumpMemoryVersion, LoseBump
<1>5. ASSUME NEW k \in Key, NEW outcome \in Outcomes, Lookup(k, outcome)
      PROVE  TellersTyped'
  BY <1>5 DEF Lookup
<1>6. ASSUME NEW outcome \in Outcomes, RecallCheck(outcome)
      PROVE  TellersTyped'
  BY <1>6 DEF RecallCheck
<1>7. CASE Recall
  BY <1>7 DEF Recall
<1>8. ASSUME NEW empty \in BOOLEAN, Answer(empty)
      PROVE  TellersTyped'
  BY <1>8 DEF Answer
<1>9. CASE Tick
  BY <1>9 DEF Tick
<1>10. CASE UNCHANGED vars
  BY <1>10 DEF vars
<1> QED BY <1>1, <1>2, <1>3, <1>4, <1>5, <1>6, <1>7, <1>8, <1>9, <1>10 DEF Next

LEMMA RecalledIs == Recalled \in FreshCandidates \/ Recalled = NewCandidate
BY DEF Recalled

(* The candidates of a pass are those it found, or new ones. *)
LEMMA FoundCandidate ==
  ASSUME TypeOK, request.stage = "recall", NEW c, c \in FreshCandidates \/ c = NewCandidate
  PROVE  /\ c \in Candidate /\ request \in Request /\ FtsKey \in (1 .. Passes) \X Key
         /\ c \in FreshCandidates => c \in fts[FtsKey] /\ now - c.cachedAt <= FtsTTL
<1>1. request \in Request /\ FtsKey \in (1 .. Passes) \X Key
  BY DEF TypeOK, Request, Idle, FtsKey
<1>2. CASE c \in FreshCandidates
  BY <1>1, <1>2 DEF FreshCandidates, TypeOK
<1>3. CASE c = NewCandidate
  <2>1. Len(writes) \in Nat /\ now \in Nat /\ (lastSeen # -1) \in BOOLEAN
    BY DEF TypeOK
  <2>2. c \in Candidate
    BY <1>3, <2>1 DEF Candidate, NewCandidate
  <2> QED BY <1>1, <1>2, <2>2 DEF FreshCandidates
<1> QED BY <1>2, <1>3

LEMMA CacheStep == ASSUME TypeOK, [Next]_vars PROVE CacheTyped'
<1>a. Grown /\ writes \in Seq(Channel) /\ CacheTyped
  BY StepGrows, TypeParts DEF TypeOK
<1>b. Generation' \in Nat /\ Generation <= Generation'
  BY <1>a, GrownWrites
<1>c. Generation \in Nat
  BY <1>a, AppliedIsFinite
<1>0. /\ CacheTyped /\ Generation \in Nat /\ Generation' \in Nat /\ Generation <= Generation'
  BY <1>a, <1>b, <1>c
<1> USE <1>0, SkipGateAssumption DEF CacheTyped
<1>1. ASSUME NEW c \in {"local", "owner-applied"}, WriteHere(c)
      PROVE  CacheTyped'
  BY <1>1, Invalidated DEF WriteHere
<1>2. CASE WriteRelayed
  BY <1>2 DEF WriteRelayed, cache
<1>3. ASSUME NEW c \in {"applied", "silent"}, WriteElsewhere(c)
      PROVE  CacheTyped'
  BY <1>3 DEF WriteElsewhere, cache
<1>4. ASSUME NEW w \in relays, BumpMemoryVersion(w)
      PROVE  CacheTyped'
  BY <1>4, Invalidated DEF BumpMemoryVersion
<1>5. ASSUME NEW w \in relays, LoseBump(w)
      PROVE  CacheTyped'
  BY <1>5 DEF LoseBump, cache
<1>6. ASSUME NEW k \in Key, NEW outcome \in Outcomes, Lookup(k, outcome)
      PROVE  CacheTyped'
  <2>1. CASE Flushes(outcome)
    <3>1. CheckDurableGeneration(outcome) /\ writes' = writes
      BY <1>6, <2>1 DEF Lookup
    <3> QED BY <3>1, Invalidated DEF CheckDurableGeneration, Checked, Generation, Applied
  <2>2. CASE ~Flushes(outcome)
    <3> DEFINE dead == {i \in Find(skipGate, k) : ~Live(skipGate[i])}
    <3>1. /\ lastSeen' = Checked(outcome) /\ UNCHANGED <<memoryVersion, fts, writes>>
          /\ skipGate' = IF dead = {} THEN skipGate
                         ELSE RemoveAt(skipGate, CHOOSE i \in dead : TRUE)
      BY <1>6, <2>2 DEF Lookup
    <3>2. lastSeen' \in -1 .. Generation'
      BY <3>1 DEF Checked, Generation, Applied
    <3>3. CASE dead = {}
      BY <3>1, <3>2, <3>3
    <3>4. CASE dead # {}
      <4> DEFINE i == CHOOSE i \in dead : TRUE
      <4>1. i \in 1 .. Len(skipGate) /\ skipGate' = RemoveAt(skipGate, i)
        BY <3>1, <3>4 DEF Find
      <4> HIDE DEF i
      <4>2. /\ skipGate' \in Seq(Entry) /\ Len(skipGate') = Len(skipGate) - 1
            /\ \A j \in 1 .. Len(skipGate) - 1 :
                 skipGate'[j] = IF j < i THEN skipGate[j] ELSE skipGate[j + 1]
        BY <4>1, RemovedEntry
      <4>3. DOMAIN skipGate' = 1 .. Len(skipGate) - 1
        BY <4>2
      <4>4. OneEach(skipGate')
        BY <4>1, RemovedOneEach
      <4> QED BY <3>1, <3>2, <4>2, <4>4
    <3> QED BY <3>3, <3>4
  <2> QED BY <2>1, <2>2
<1>7. ASSUME NEW outcome \in Outcomes, RecallCheck(outcome)
      PROVE  CacheTyped'
  <2>1. CheckDurableGeneration(outcome) /\ writes' = writes
    BY <1>7 DEF RecallCheck
  <2> QED BY <2>1, Invalidated DEF CheckDurableGeneration, Checked, Generation, Applied
<1>8. CASE Recall
  <2>1. FtsKey \in (1 .. Passes) \X Key
    BY <1>8, FoundCandidate DEF Recall
  <2>2. Recalled \in Candidate
    BY <1>8, RecalledIs, FoundCandidate DEF Recall
  <2> QED BY <1>8, <2>1, <2>2 DEF Recall, Generation, Applied
<1>9. ASSUME NEW empty \in BOOLEAN, Answer(empty)
      PROVE  CacheTyped'
  <2>1. CASE empty
    <3>1. NewEntry \in Entry
      <4>1. request \in Request /\ now \in Nat /\ now + SkipTTL \in Nat
        BY <1>9 DEF Answer, TypeOK, Idle
      <4> QED BY <4>1 DEF NewEntry, Entry, Request
    <3> QED BY <1>9, <2>1, <3>1, StoredEntry DEF Answer, Generation, Applied
  <2>2. CASE ~empty
    BY <1>9, <2>2 DEF Answer, Generation, Applied
  <2> QED BY <2>1, <2>2
<1>10. CASE Tick
  BY <1>10 DEF Tick, cache
<1>11. CASE UNCHANGED vars
  BY <1>11 DEF vars, cache
<1> QED BY <1>1, <1>2, <1>3, <1>4, <1>5, <1>6, <1>7, <1>8, <1>9, <1>10, <1>11 DEF Next

(* How a hook moves on: what the step of a request may be. *)
Begins == request = Idle /\ now' = now /\ \E k \in Key : request' = Handling(k)
Checks == request.stage = "check" /\ request' = [request EXCEPT !.stage = "recall"]
Recalls ==
  /\ request.stage = "recall"
  /\ UNCHANGED <<now, writes, heard, lastSeen>>
  /\ request' = Advanced(Recalled)

LEMMA RequestMoves ==
  ASSUME [Next]_vars
  PROVE  request' = request \/ request' = Idle \/ Begins \/ Checks \/ Recalls
<1> DEFINE Moves == request' = request \/ request' = Idle \/ Begins \/ Checks \/ Recalls
<1>1. ASSUME NEW c \in {"local", "owner-applied"}, WriteHere(c)
      PROVE  Moves
  BY <1>1 DEF WriteHere
<1>2. CASE WriteRelayed
  BY <1>2 DEF WriteRelayed, cache
<1>3. ASSUME NEW c \in {"applied", "silent"}, WriteElsewhere(c)
      PROVE  Moves
  BY <1>3 DEF WriteElsewhere, cache
<1>4. ASSUME NEW w \in relays, BumpMemoryVersion(w)
      PROVE  Moves
  BY <1>4 DEF BumpMemoryVersion
<1>5. ASSUME NEW w \in relays, LoseBump(w)
      PROVE  Moves
  BY <1>5 DEF LoseBump, cache
<1>6. ASSUME NEW k \in Key, NEW outcome \in Outcomes, Lookup(k, outcome)
      PROVE  Moves
  BY <1>6 DEF Lookup, Begins
<1>7. ASSUME NEW outcome \in Outcomes, RecallCheck(outcome)
      PROVE  Moves
  BY <1>7 DEF RecallCheck, Checks
<1>8. CASE Recall
  BY <1>8 DEF Recall, Recalls
<1>9. ASSUME NEW empty \in BOOLEAN, Answer(empty)
      PROVE  Moves
  BY <1>9 DEF Answer
<1>10. CASE Tick
  BY <1>10 DEF Tick, cache
<1>11. CASE UNCHANGED vars
  BY <1>11 DEF vars, cache
<1> QED BY <1>1, <1>2, <1>3, <1>4, <1>5, <1>6, <1>7, <1>8, <1>9, <1>10, <1>11 DEF Next

LEMMA RequestStep == ASSUME TypeOK, [Next]_vars PROVE RequestTyped'
<1> USE SkipGateAssumption
<1>1. CASE request' = request \/ request' = Idle
  BY <1>1 DEF TypeOK, RequestTyped, Idle
<1>2. CASE Begins
  BY <1>2 DEF TypeOK, RequestTyped, Begins, Handling, Request
<1>3. CASE Checks
  <2>1. request \in Request /\ request.pass <= Passes
    BY <1>3 DEF TypeOK, Checks, Idle
  <2>2. request' \in Request /\ request'.pass = request.pass
    BY <1>3, <2>1 DEF Checks, Request
  <2> QED BY <2>1, <2>2 DEF RequestTyped
<1>4. CASE Recalls
  <2> DEFINE c == Recalled
  <2>1. request' = Advanced(c)
    BY <1>4 DEF Recalls
  <2>2. c \in Candidate /\ request \in Request /\ request.pass <= Passes
    BY <1>4, RecalledIs, FoundCandidate DEF Recalls, TypeOK
  <2> HIDE DEF c
  <2>3. /\ Earlier(request.basis, c.basis) \in Nat /\ Earlier(request.readAt, c.cachedAt) \in Nat
        /\ (request.verified /\ c.verified) \in BOOLEAN
    BY <2>2 DEF Earlier, Request, Candidate
  <2>4. /\ request.pass + 1 \in 1 .. Passes + 1
        /\ request.pass # Passes => request.pass + 1 <= Passes
    BY <2>2 DEF Request
  <2>5. request' \in Request
    BY <2>1, <2>2, <2>3, <2>4 DEF Request, Advanced
  <2>6. request.stage' \in {"check", "recall"} => request.pass' <= Passes
    BY <2>1, <2>2, <2>4 DEF Request, Advanced
  <2> QED BY <2>5, <2>6 DEF RequestTyped
<1> QED BY <1>1, <1>2, <1>3, <1>4, RequestMoves

LEMMA TypeStep == TypeOK /\ [Next]_vars => TypeOK'
<1> SUFFICES ASSUME TypeOK, [Next]_vars PROVE TypeOK'
  OBVIOUS
<1>1. TellersTyped' /\ CacheTyped' /\ RequestTyped'
  BY TellersStep, CacheStep, RequestStep
<1> QED BY <1>1 DEF TypeOK, TellersTyped, CacheTyped, RequestTyped, OneEach

(* The gate never exceeds its limit nor has two entries for a key, and a     *)
(* hook that is being handled has passes left to read (SkipGateCache).       *)
THEOREM SkipGateTypeCorrect == Spec => []TypeOK
BY TypeInit, TypeStep, PTL DEF Spec

-----------------------------------------------------------------------------
(* Where an entry of the gate comes from: it was there, or an answer just    *)
(* put it there.                                                             *)
Flushed == skipGate' = <<>> /\ \A y \in (1 .. Passes) \X Key : fts'[y] = {}
Quiet == UNCHANGED <<now, writes, heard, lastSeen>>

EntryOrigin ==
  \A i \in DOMAIN skipGate' :
    \/ \E j \in DOMAIN skipGate : skipGate'[i] = skipGate[j]
    \/ request.stage = "answer" /\ Quiet /\ skipGate'[i] = NewEntry

LEMMA EntriesStep == ASSUME TypeOK, TypeOK', [Next]_vars PROVE EntryOrigin
<1> USE DEF EntryOrigin
<1>1. ASSUME NEW c \in {"local", "owner-applied"}, WriteHere(c)
      PROVE  EntryOrigin
  BY <1>1 DEF InvalidateMemoryDerived, WriteHere
<1>2. CASE WriteRelayed
  BY <1>2 DEF WriteRelayed, cache
<1>3. ASSUME NEW c \in {"applied", "silent"}, WriteElsewhere(c)
      PROVE  EntryOrigin
  BY <1>3 DEF WriteElsewhere, cache
<1>4. ASSUME NEW w \in relays, BumpMemoryVersion(w)
      PROVE  EntryOrigin
  BY <1>4 DEF InvalidateMemoryDerived, BumpMemoryVersion
<1>5. ASSUME NEW w \in relays, LoseBump(w)
      PROVE  EntryOrigin
  BY <1>5 DEF LoseBump, cache
<1>6. ASSUME NEW k \in Key, NEW outcome \in Outcomes, Lookup(k, outcome)
      PROVE  EntryOrigin
  <2>1. CASE skipGate' = <<>> \/ skipGate' = skipGate
    BY <2>1
  <2>2. CASE ~(skipGate' = <<>> \/ skipGate' = skipGate)
    <3> DEFINE dead == {i \in Find(skipGate, k) : ~Live(skipGate[i])}
    <3>1. dead # {} /\ skipGate' = RemoveAt(skipGate, CHOOSE i \in dead : TRUE)
      BY <1>6, <2>2 DEF Lookup, CheckDurableGeneration, InvalidateMemoryDerived
    <3>2. skipGate \in Seq(Entry) /\ dead \subseteq 1 .. Len(skipGate)
      BY DEF TypeOK, Find
    <3> HIDE DEF dead
    <3>3. PICK i \in 1 .. Len(skipGate) : skipGate' = RemoveAt(skipGate, i)
      BY <3>1, <3>2
    <3>4. /\ Len(skipGate') = Len(skipGate) - 1 /\ skipGate' \in Seq(Entry)
          /\ \A j \in 1 .. Len(skipGate) - 1 :
               skipGate'[j] = IF j < i THEN skipGate[j] ELSE skipGate[j + 1]
      BY <3>2, <3>3, RemovedEntry
    <3> QED BY <3>2, <3>4
  <2> QED BY <2>1, <2>2
<1>7. ASSUME NEW outcome \in Outcomes, RecallCheck(outcome)
      PROVE  EntryOrigin
  BY <1>7 DEF RecallCheck, CheckDurableGeneration, InvalidateMemoryDerived
<1>8. CASE Recall
  BY <1>8 DEF Recall
<1>9. ASSUME NEW empty \in BOOLEAN, Answer(empty)
      PROVE  EntryOrigin
  <2>1. request.stage = "answer" /\ Quiet
    BY <1>9 DEF Answer, Quiet
  <2>2. CASE empty
    <3>1. NewEntry \in Entry
      <4>1. request \in Request /\ now \in Nat /\ now + SkipTTL \in Nat
        BY <2>1, SkipGateAssumption DEF TypeOK, Idle
      <4> QED BY <4>1 DEF NewEntry, Entry, Request, TypeOK
    <3>2. skipGate' = Stored(NewEntry)
      BY <1>9, <2>2 DEF Answer
    <3>3. skipGate \in Seq(Entry) /\ Len(skipGate) <= MaxEntries /\ OneEach(skipGate)
      BY DEF TypeOK, OneEach
    <3> QED BY <2>1, <3>1, <3>2, <3>3, StoredEntry
  <2>3. CASE ~empty
    BY <1>9, <2>3 DEF Answer
  <2> QED BY <2>2, <2>3
<1>10. CASE Tick
  BY <1>10 DEF Tick, cache
<1>11. CASE UNCHANGED vars
  BY <1>11 DEF vars, cache
<1> QED BY <1>1, <1>2, <1>3, <1>4, <1>5, <1>6, <1>7, <1>8, <1>9, <1>10, <1>11 DEF Next

(* Where a candidate comes from: it was there, or a scan just found it.      *)
CandidateOrigin ==
  \A y \in (1 .. Passes) \X Key : \A c \in fts'[y] :
    c \in fts[y] \/ (request.stage = "recall" /\ Quiet /\ c = NewCandidate)

LEMMA CandidatesStep == ASSUME TypeOK, [Next]_vars PROVE CandidateOrigin
<1> USE DEF CandidateOrigin
<1>0. CacheTyped
  BY TypeParts
<1>1. ASSUME NEW c \in {"local", "owner-applied"}, WriteHere(c)
      PROVE  CandidateOrigin
  BY <1>1, <1>0, Invalidated DEF WriteHere
<1>2. CASE WriteRelayed
  BY <1>2 DEF WriteRelayed, cache
<1>3. ASSUME NEW c \in {"applied", "silent"}, WriteElsewhere(c)
      PROVE  CandidateOrigin
  BY <1>3 DEF WriteElsewhere, cache
<1>4. ASSUME NEW w \in relays, BumpMemoryVersion(w)
      PROVE  CandidateOrigin
  BY <1>4, <1>0, Invalidated DEF BumpMemoryVersion
<1>5. ASSUME NEW w \in relays, LoseBump(w)
      PROVE  CandidateOrigin
  BY <1>5 DEF LoseBump, cache
<1>6. ASSUME NEW k \in Key, NEW outcome \in Outcomes, Lookup(k, outcome)
      PROVE  CandidateOrigin
  BY <1>6, <1>0, Invalidated DEF Lookup, CheckDurableGeneration
<1>7. ASSUME NEW outcome \in Outcomes, RecallCheck(outcome)
      PROVE  CandidateOrigin
  BY <1>7, <1>0, Invalidated DEF RecallCheck, CheckDurableGeneration
<1>8. CASE Recall
  <2>1. request.stage = "recall" /\ Quiet
    BY <1>8 DEF Recall, Quiet
  <2>2. /\ FtsKey \in (1 .. Passes) \X Key /\ fts' = [fts EXCEPT ![FtsKey] = {Recalled}]
        /\ Recalled \in fts[FtsKey] \/ Recalled = NewCandidate
    BY <1>8, <2>1, RecalledIs, FoundCandidate DEF Recall
  <2> QED BY <2>1, <2>2 DEF TypeOK
<1>9. ASSUME NEW empty \in BOOLEAN, Answer(empty)
      PROVE  CandidateOrigin
  BY <1>9 DEF Answer
<1>10. CASE Tick
  BY <1>10 DEF Tick, cache
<1>11. CASE UNCHANGED vars
  BY <1>11 DEF vars, cache
<1> QED BY <1>1, <1>2, <1>3, <1>4, <1>5, <1>6, <1>7, <1>8, <1>9, <1>10, <1>11 DEF Next

(* Time passes, and news arrives, only between hooks; news empties both caches. *)
LEMMA NewsStep ==
  ASSUME TypeOK, [Next]_vars
  PROVE  /\ now' = now \/ (request = Idle /\ request' = Idle)
         /\ heard' = heard \/ (Flushed /\ request' = Idle)
<1> DEFINE News == /\ now' = now \/ (request = Idle /\ request' = Idle)
                   /\ heard' = heard \/ (Flushed /\ request' = Idle)
<1>0. CacheTyped
  BY TypeParts
<1> USE DEF Flushed
<1>1. ASSUME NEW c \in {"local", "owner-applied"}, WriteHere(c)
      PROVE  News
  BY <1>1, <1>0, Invalidated DEF WriteHere
<1>2. CASE WriteRelayed
  BY <1>2 DEF WriteRelayed, cache
<1>3. ASSUME NEW c \in {"applied", "silent"}, WriteElsewhere(c)
      PROVE  News
  BY <1>3 DEF WriteElsewhere, cache
<1>4. ASSUME NEW w \in relays, BumpMemoryVersion(w)
      PROVE  News
  BY <1>4, <1>0, Invalidated DEF BumpMemoryVersion
<1>5. ASSUME NEW w \in relays, LoseBump(w)
      PROVE  News
  BY <1>5 DEF LoseBump, cache
<1>6. ASSUME NEW k \in Key, NEW outcome \in Outcomes, Lookup(k, outcome)
      PROVE  News
  BY <1>6 DEF Lookup
<1>7. ASSUME NEW outcome \in Outcomes, RecallCheck(outcome)
      PROVE  News
  BY <1>7 DEF RecallCheck
<1>8. CASE Recall
  BY <1>8 DEF Recall
<1>9. ASSUME NEW empty \in BOOLEAN, Answer(empty)
      PROVE  News
  BY <1>9 DEF Answer
<1>10. CASE Tick
  BY <1>10 DEF Tick, cache
<1>11. CASE UNCHANGED vars
  BY <1>11 DEF vars, cache
<1> QED BY <1>1, <1>2, <1>3, <1>4, <1>5, <1>6, <1>7, <1>8, <1>9, <1>10, <1>11 DEF Next

-----------------------------------------------------------------------------
(* Nothing the caches hold, or a hook is about to answer, is older than a    *)
(* write this process has heard of.                                          *)
HeardInv ==
  /\ \A i \in DOMAIN skipGate : \A w \in heard : w <= skipGate[i].basis
  /\ \A y \in (1 .. Passes) \X Key : \A c \in fts[y] : \A w \in heard : w <= c.basis
  /\ request # Idle => \A w \in heard : w <= request.basis

LEMMA HeardStep == ASSUME TypeOK, TypeOK', HeardInv, [Next]_vars PROVE HeardInv'
<1>0. /\ heard \subseteq 1 .. Len(writes) /\ Len(writes) \in Nat /\ Len(writes) <= MaxWrites
      /\ MaxWrites \in Nat
  BY SkipGateAssumption DEF TypeOK
<1>1. CASE heard' # heard
  <2>1. Flushed /\ request' = Idle
    BY <1>1, NewsStep
  <2> QED BY <2>1 DEF HeardInv, Flushed, Idle
<1>2. CASE heard' = heard
  <2>1. \A i \in DOMAIN skipGate' : \A w \in heard' : w <= skipGate'[i].basis
    <3> SUFFICES ASSUME NEW i \in DOMAIN skipGate', NEW w \in heard
                 PROVE  w <= skipGate'[i].basis
      BY <1>2
    <3>1. CASE \E j \in DOMAIN skipGate : skipGate'[i] = skipGate[j]
      BY <3>1 DEF HeardInv
    <3>2. CASE request.stage = "answer" /\ skipGate'[i] = NewEntry
      BY <3>2 DEF HeardInv, NewEntry, Idle
    <3> QED BY <3>1, <3>2, EntriesStep DEF EntryOrigin
  <2>2. \A y \in (1 .. Passes) \X Key : \A c \in fts'[y] : \A w \in heard' : w <= c.basis
    BY <1>0, <1>2, CandidatesStep DEF CandidateOrigin, HeardInv, NewCandidate
  <2>3. ASSUME request' # Idle, NEW w \in heard
        PROVE  w <= request'.basis
    <3>1. CASE request' = request
      BY <2>3, <3>1 DEF HeardInv
    <3>2. CASE Begins
      BY <1>0, <3>2 DEF Begins, Handling
    <3>3. CASE Checks
      <4>1. request \in Request /\ request # Idle
        BY <3>3 DEF Checks, TypeOK, Idle
      <4> QED BY <3>3, <4>1 DEF Checks, HeardInv, Request
    <3>4. CASE Recalls
      <4>1. /\ request.stage = "recall" /\ request \in Request /\ request # Idle
            /\ request' = Advanced(Recalled)
        BY <3>4 DEF Recalls, TypeOK, Idle
      <4>2. request'.basis = Earlier(request.basis, Recalled.basis)
        BY <4>1 DEF Advanced, Request
      <4>3. w <= request.basis
        BY <4>1 DEF HeardInv
      <4>4. w <= Recalled.basis
        BY <1>0, <4>1, RecalledIs, FoundCandidate DEF HeardInv, NewCandidate
      <4> QED BY <4>2, <4>3, <4>4 DEF Earlier
    <3> QED BY <2>3, <3>1, <3>2, <3>3, <3>4, RequestMoves
  <2> QED BY <1>2, <2>1, <2>2, <2>3 DEF HeardInv
<1> QED BY <1>1, <1>2

(* Zero staleness across bumps: whatever a bump or a write of this process   *)
(* announced, no hook is skipped on the strength of an older read            *)
(* (session-cache.ts, the skip-gate notes).                                  *)
THEOREM HeardWritesAreServed == Spec => []HeardIsServed
<1>1. Init => HeardInv
  BY DEF Init, HeardInv, Idle
<1>2. TypeOK /\ HeardInv /\ [Next]_vars => HeardInv'
  BY TypeStep, HeardStep
<1>3. HeardInv => HeardIsServed
  BY DEF HeardInv, HeardIsServed, Served, Entries
<1> QED BY <1>1, <1>2, <1>3, SkipGateTypeCorrect, PTL DEF Spec

-----------------------------------------------------------------------------
(* No candidate of a running hook is past its lifetime, and an entry expires *)
(* before its oldest read is older than both lifetimes.                      *)
FreshInv ==
  /\ \A i \in DOMAIN skipGate : skipGate[i].expires <= skipGate[i].readAt + FtsTTL + SkipTTL
  /\ request # Idle => now <= request.readAt + FtsTTL

LEMMA FreshStep == ASSUME TypeOK, TypeOK', FreshInv, [Next]_vars PROVE FreshInv'
<1>0. now \in Nat /\ FtsTTL \in Nat /\ SkipTTL \in Nat
  BY SkipGateAssumption DEF TypeOK
<1>1. ASSUME NEW i \in DOMAIN skipGate'
      PROVE  skipGate'[i].expires <= skipGate'[i].readAt + FtsTTL + SkipTTL
  <2>1. CASE \E j \in DOMAIN skipGate : skipGate'[i] = skipGate[j]
    BY <2>1 DEF FreshInv
  <2>2. CASE request.stage = "answer" /\ skipGate'[i] = NewEntry
    <3>1. request \in Request /\ now <= request.readAt + FtsTTL
      BY <2>2 DEF FreshInv, TypeOK, Idle
    <3>2. skipGate'[i].expires = now + SkipTTL /\ skipGate'[i].readAt = request.readAt
      BY <2>2 DEF NewEntry
    <3>3. request.readAt \in Nat
      BY <3>1 DEF Request
    <3> QED BY <1>0, <3>1, <3>2, <3>3
  <2> QED BY <2>1, <2>2, EntriesStep DEF EntryOrigin
<1>2. ASSUME request' # Idle
      PROVE  now' <= request'.readAt + FtsTTL
  <2>0. now' = now
    BY <1>2, NewsStep
  <2>1. CASE request' = request
    BY <1>2, <2>0, <2>1 DEF FreshInv
  <2>2. CASE Begins
    BY <1>0, <2>2 DEF Begins, Handling
  <2>3. CASE Checks
    <3>1. request \in Request /\ request # Idle
      BY <2>3 DEF Checks, TypeOK, Idle
    <3> QED BY <2>0, <2>3, <3>1 DEF Checks, FreshInv, Request
  <2>4. CASE Recalls
    <3>1. /\ request.stage = "recall" /\ request \in Request /\ request # Idle
          /\ request' = Advanced(Recalled)
      BY <2>4 DEF Recalls, TypeOK, Idle
    <3>2. request'.readAt = Earlier(request.readAt, Recalled.cachedAt)
      BY <3>1 DEF Advanced, Request
    <3>3. now <= request.readAt + FtsTTL /\ request.readAt \in Nat
      BY <3>1 DEF FreshInv, Request
    <3>4. Recalled.cachedAt \in Nat
      BY <3>1, RecalledIs, FoundCandidate DEF Candidate
    <3>5. now <= Recalled.cachedAt + FtsTTL
      <4>1. CASE Recalled \in FreshCandidates
        BY <1>0, <3>1, <3>4, <4>1, FoundCandidate
      <4>2. CASE Recalled = NewCandidate
        BY <1>0, <4>2 DEF NewCandidate
      <4> QED BY <4>1, <4>2, RecalledIs
    <3> QED BY <2>0, <3>2, <3>3, <3>5 DEF Earlier
  <2> QED BY <1>2, <2>1, <2>2, <2>3, <2>4, RequestMoves
<1> QED BY <1>1, <1>2 DEF FreshInv

(* A write nobody announced is seen when both lifetimes are over, whatever   *)
(* hooks come in between (SKIP_GATE_TTL_MS, FTS_TTL_MS).                     *)
THEOREM StaleForBothLifetimes == Spec => []StaleForBothTTLs
<1>1. Init => FreshInv
  BY DEF Init, FreshInv, Idle
<1>2. TypeOK /\ FreshInv /\ [Next]_vars => FreshInv'
  BY TypeStep, FreshStep
<1>3. TypeOK /\ FreshInv => StaleForBothTTLs
  <2> SUFFICES ASSUME TypeOK, FreshInv, NEW i \in DOMAIN skipGate, Live(skipGate[i])
               PROVE  now - skipGate[i].readAt <= FtsTTL + SkipTTL
    BY DEF StaleForBothTTLs, Served, Entries
  <2>1. skipGate[i].readAt \in Nat /\ skipGate[i].expires \in Nat
    <3>1. skipGate \in Seq(Entry)
      BY DEF TypeOK
    <3>2. skipGate[i] \in Entry
      BY <3>1
    <3> QED BY <3>2 DEF Entry
  <2>2. now \in Nat /\ FtsTTL \in Nat /\ SkipTTL \in Nat
    BY SkipGateAssumption DEF TypeOK
  <2> QED BY <2>1, <2>2 DEF FreshInv, Live
<1> QED BY <1>1, <1>2, <1>3, SkipGateTypeCorrect, PTL DEF Spec

-----------------------------------------------------------------------------
(* A check of the generation that finds a new one, after the first, empties  *)
(* both caches, and no hook has read anything yet that it will answer with.  *)
Checking == request = Idle \/ request.stage = "check"
SeenMoves ==
  \/ lastSeen' = lastSeen
  \/ writes' = writes /\ lastSeen' = Generation /\ Checking /\ (lastSeen = -1 \/ Flushed)

LEMMA SeenStep == ASSUME TypeOK, [Next]_vars PROVE SeenMoves
<1> USE DEF SeenMoves
<1>0. CacheTyped
  BY TypeParts
<1>1. ASSUME NEW c \in {"local", "owner-applied"}, WriteHere(c)
      PROVE  SeenMoves
  BY <1>1 DEF WriteHere
<1>2. CASE WriteRelayed
  BY <1>2 DEF WriteRelayed, cache
<1>3. ASSUME NEW c \in {"applied", "silent"}, WriteElsewhere(c)
      PROVE  SeenMoves
  BY <1>3 DEF WriteElsewhere, cache
<1>4. ASSUME NEW w \in relays, BumpMemoryVersion(w)
      PROVE  SeenMoves
  BY <1>4 DEF BumpMemoryVersion
<1>5. ASSUME NEW w \in relays, LoseBump(w)
      PROVE  SeenMoves
  BY <1>5 DEF LoseBump, cache
<1>6. ASSUME NEW k \in Key, NEW outcome \in Outcomes, Lookup(k, outcome)
      PROVE  SeenMoves
  <2>1. lastSeen' = Checked(outcome) /\ writes' = writes /\ request = Idle
    BY <1>6 DEF Lookup, CheckDurableGeneration
  <2>2. CASE Flushes(outcome)
    <3>1. Flushed
      BY <1>6, <1>0, <2>2, Invalidated DEF Lookup, CheckDurableGeneration, Flushed
    <3> QED BY <2>1, <3>1 DEF Checked, Checking
  <2>3. CASE ~Flushes(outcome)
    BY <2>1, <2>3 DEF Checked, Flushes, Checking
  <2> QED BY <2>2, <2>3
<1>7. ASSUME NEW outcome \in Outcomes, RecallCheck(outcome)
      PROVE  SeenMoves
  <2>1. lastSeen' = Checked(outcome) /\ writes' = writes /\ request.stage = "check"
    BY <1>7 DEF RecallCheck, CheckDurableGeneration
  <2>2. CASE Flushes(outcome)
    <3>1. Flushed
      BY <1>7, <1>0, <2>2, Invalidated DEF RecallCheck, CheckDurableGeneration, Flushed
    <3> QED BY <2>1, <3>1 DEF Checked, Checking
  <2>3. CASE ~Flushes(outcome)
    BY <2>1, <2>3 DEF Checked, Flushes, Checking
  <2> QED BY <2>2, <2>3
<1>8. CASE Recall
  BY <1>8 DEF Recall
<1>9. ASSUME NEW empty \in BOOLEAN, Answer(empty)
      PROVE  SeenMoves
  BY <1>9 DEF Answer
<1>10. CASE Tick
  BY <1>10 DEF Tick, cache
<1>11. CASE UNCHANGED vars
  BY <1>11 DEF vars, cache
<1> QED BY <1>1, <1>2, <1>3, <1>4, <1>5, <1>6, <1>7, <1>8, <1>9, <1>10, <1>11 DEF Next

(* A verified read could see every applied write the last check counted.     *)
Covers(basis, verified) == verified => lastSeen # -1 /\ lastSeen <= Cardinality(SeenUpTo(basis))

GenerationInv ==
  /\ \A i \in DOMAIN skipGate : Covers(skipGate[i].basis, skipGate[i].verified)
  /\ \A y \in (1 .. Passes) \X Key : \A c \in fts[y] :
       Covers(c.basis, c.verified) /\ c.basis <= Len(writes)
  /\ request.stage = "answer" => Covers(request.basis, request.verified)
  /\ request.stage \in {"check", "recall"} => request.basis = MaxWrites /\ request.verified

LEMMA CoversStep ==
  ASSUME TypeOK, [Next]_vars, lastSeen' = lastSeen \/ lastSeen = -1,
         NEW basis, NEW verified, Covers(basis, verified)
  PROVE  Covers(basis, verified)'
<1>1. writes \in Seq(Channel) /\ Grown /\ lastSeen \in Int
  BY StepGrows, AppliedIsFinite DEF TypeOK
<1>2. Cardinality(SeenUpTo(basis)) <= Cardinality(SeenUpTo(basis)')
  BY <1>1, GrownWrites
<1>3. Cardinality(SeenUpTo(basis)) \in Int /\ Cardinality(SeenUpTo(basis)') \in Int
  BY <1>1, AppliedIsFinite, GrownWrites
<1>4. verified => lastSeen' = lastSeen /\ lastSeen # -1 /\ lastSeen <= Cardinality(SeenUpTo(basis))
  BY DEF Covers
<1>5. verified => lastSeen' # -1 /\ lastSeen' <= Cardinality(SeenUpTo(basis)')
  BY <1>1, <1>2, <1>3, <1>4
<1> QED BY <1>5 DEF Covers

LEMMA NewRead == ASSUME TypeOK PROVE Covers(NewCandidate.basis, NewCandidate.verified)
<1>1. writes \in Seq(Channel) /\ lastSeen \in -1 .. Generation
  BY DEF TypeOK
<1>2. SeenUpTo(Len(writes)) = Applied
  BY <1>1, AppliedIsFinite DEF SeenUpTo
<1>3. Generation \in Nat
  BY <1>1, AppliedIsFinite
<1>4. NewCandidate.basis = Len(writes) /\ NewCandidate.verified = (lastSeen # -1)
  BY DEF NewCandidate
<1>5. lastSeen <= Cardinality(SeenUpTo(Len(writes)))
  BY <1>1, <1>2, <1>3 DEF Generation
<1> QED BY <1>4, <1>5 DEF Covers

LEMMA GenerationStep ==
  ASSUME Passes = 1, TypeOK, TypeOK', GenerationInv, [Next]_vars
  PROVE  GenerationInv'
<1>0. /\ Len(writes) \in Nat /\ Len(writes) <= Len(writes)' /\ Len(writes) <= MaxWrites
      /\ MaxWrites \in Nat
  <2>1. Len(writes)' \in {Len(writes), Len(writes) + 1} /\ Len(writes) \in Nat
    BY StepGrows, GrownWrites DEF TypeOK
  <2> QED BY <2>1, SkipGateAssumption DEF TypeOK
<1>1. ASSUME ~Flushed PROVE lastSeen' = lastSeen \/ lastSeen = -1
  BY <1>1, SeenStep DEF SeenMoves
<1>2. ASSUME ~Checking PROVE lastSeen' = lastSeen
  BY <1>2, SeenStep DEF SeenMoves
<1>3. ASSUME NEW i \in DOMAIN skipGate'
      PROVE  Covers(skipGate[i].basis, skipGate[i].verified)'
  <2>1. ~Flushed
    BY <1>3 DEF Flushed
  <2>2. CASE \E j \in DOMAIN skipGate : skipGate'[i] = skipGate[j]
    <3>1. PICK j \in DOMAIN skipGate : skipGate'[i] = skipGate[j]
      BY <2>2
    <3> DEFINE b == skipGate[j].basis
               v == skipGate[j].verified
    <3>2. Covers(b, v)
      BY DEF GenerationInv
    <3>3. \A b0, v0 : Covers(b0, v0) => Covers(b0, v0)'
      BY <1>1, <2>1, CoversStep
    <3> QED BY <3>1, <3>2, <3>3 DEF Covers, SeenUpTo, Applied
  <2>3. CASE request.stage = "answer" /\ skipGate'[i] = NewEntry
    <3>1. Covers(request.basis, request.verified)
      BY <2>3 DEF GenerationInv
    <3>2. \A b0, v0 : Covers(b0, v0) => Covers(b0, v0)'
      BY <1>1, <2>1, CoversStep
    <3> QED BY <2>3, <3>1, <3>2 DEF Covers, SeenUpTo, Applied, NewEntry
  <2> QED BY <2>2, <2>3, EntriesStep DEF EntryOrigin
<1>4. ASSUME NEW y \in (1 .. Passes) \X Key, NEW c \in fts'[y]
      PROVE  Covers(c.basis, c.verified)' /\ c.basis <= Len(writes)'
  <2>1. ~Flushed
    BY <1>4 DEF Flushed
  <2>2. Covers(c.basis, c.verified) /\ c.basis <= Len(writes) /\ c.basis \in Nat
    <3>1. CASE c \in fts[y]
      BY <3>1 DEF GenerationInv, TypeOK, Candidate
    <3>2. CASE c = NewCandidate
      BY <1>0, <3>2, NewRead DEF NewCandidate
    <3> QED BY <1>4, <3>1, <3>2, CandidatesStep DEF CandidateOrigin
  <2>3. Covers(c.basis, c.verified)'
    BY <1>1, <2>1, <2>2, CoversStep
  <2> QED BY <1>0, <2>2, <2>3
<1>5. ASSUME request'.stage = "answer"
      PROVE  Covers(request.basis, request.verified)'
  <2>1. CASE request' = request
    <3>1. ~Checking
      BY <1>5, <2>1 DEF Checking, Idle
    <3>2. Covers(request.basis, request.verified)
      BY <1>5, <2>1 DEF GenerationInv
    <3>3. \A b0, v0 : Covers(b0, v0) => Covers(b0, v0)'
      BY <1>2, <3>1, CoversStep
    <3> QED BY <2>1, <3>2, <3>3 DEF Covers, SeenUpTo, Applied
  <2>2. CASE Begins \/ request' = Idle
    BY <1>5, <2>2 DEF Begins, Handling, Idle
  <2>3. CASE Checks
    <3>1. request \in Request
      BY <2>3 DEF Checks, TypeOK, Idle
    <3> QED BY <1>5, <2>3, <3>1 DEF Checks, Request
  <2>4. CASE Recalls
    <3>1. /\ request.stage = "recall" /\ request \in Request
          /\ request' = Advanced(Recalled) /\ UNCHANGED <<writes, lastSeen>>
      BY <2>4 DEF Recalls, TypeOK, Idle
    <3>2. request.basis = MaxWrites /\ request.verified
      BY <3>1 DEF GenerationInv
    <3>3. /\ request'.basis = Earlier(MaxWrites, Recalled.basis)
          /\ request'.verified = (request.verified /\ Recalled.verified)
      BY <3>1, <3>2 DEF Advanced, Request
    <3>4. /\ Covers(Recalled.basis, Recalled.verified) /\ Recalled.basis <= Len(writes)
          /\ Recalled.basis \in Nat
      <4>1. CASE Recalled \in FreshCandidates
        BY <3>1, <4>1, FoundCandidate DEF GenerationInv, Candidate
      <4>2. CASE Recalled = NewCandidate
        BY <1>0, <4>2, NewRead DEF NewCandidate
      <4> QED BY <4>1, <4>2, RecalledIs
    <3>5. request'.basis = Recalled.basis
      BY <1>0, <3>3, <3>4 DEF Earlier
    <3>6. request'.verified => Recalled.verified
      BY <3>3
    <3> QED BY <3>1, <3>4, <3>5, <3>6 DEF Covers, SeenUpTo, Applied
  <2> QED BY <2>1, <2>2, <2>3, <2>4, RequestMoves
<1>6. ASSUME request'.stage \in {"check", "recall"}
      PROVE  request'.basis = MaxWrites /\ request'.verified
  <2>1. CASE request' = request
    BY <1>6, <2>1 DEF GenerationInv
  <2>2. CASE Begins \/ request' = Idle
    BY <1>6, <2>2 DEF Begins, Handling, Idle
  <2>3. CASE Checks
    <3>1. request \in Request /\ request.basis = MaxWrites /\ request.verified
      BY <2>3 DEF Checks, TypeOK, Idle, GenerationInv
    <3> QED BY <2>3, <3>1 DEF Checks, Request
  <2>4. CASE Recalls
    <3>1. request \in Request /\ request.pass = Passes /\ request' = Advanced(Recalled)
      BY <2>4 DEF Recalls, TypeOK, Idle, Request
    <3>2. request'.stage = "answer"
      BY <3>1 DEF Advanced, Request
    <3> QED BY <1>6, <3>2
  <2> QED BY <2>1, <2>2, <2>3, <2>4, RequestMoves
<1> QED BY <1>3, <1>4, <1>5, <1>6 DEF GenerationInv

(* A hook with one recall pass is never skipped on the strength of reads     *)
(* older than events another process applied, once a check had succeeded     *)
(* before those reads (checkDurableGeneration, cachedRecallByFingerprint).   *)
THEOREM GenerationIsServedByOnePass ==
  ASSUME Passes = 1
  PROVE  Spec => []GenerationIsServed
<1>1. Init => GenerationInv
  BY DEF Init, GenerationInv, Idle
<1>2. TypeOK /\ GenerationInv /\ [Next]_vars => GenerationInv'
  BY TypeStep, GenerationStep
<1>3. TypeOK /\ GenerationInv => GenerationIsServed
  <2> SUFFICES ASSUME TypeOK, GenerationInv, NEW i \in DOMAIN skipGate,
                      lastSeen \in {-1, Generation}, skipGate[i].verified, NEW w \in Applied
               PROVE  w <= skipGate[i].basis
    BY DEF GenerationIsServed, Served, Entries
  <2> DEFINE S == SeenUpTo(skipGate[i].basis)
  <2>1. IsFiniteSet(Applied) /\ S \in SUBSET Applied
    BY AppliedIsFinite DEF SeenUpTo, TypeOK
  <2>2. lastSeen = Cardinality(Applied) /\ Cardinality(Applied) <= Cardinality(S)
    BY DEF GenerationInv, Covers, Generation
  <2>3. /\ Cardinality(S) \in Nat /\ Cardinality(Applied) \in Nat
        /\ Cardinality(S) <= Cardinality(Applied)
    BY <2>1, FS_Subset, FS_CardinalityType
  <2>4. S = Applied
    BY <2>1, <2>2, <2>3, FS_Subset
  <2> QED BY <2>4 DEF SeenUpTo
<1> QED BY <1>1, <1>2, <1>3, SkipGateTypeCorrect, PTL DEF Spec

-----------------------------------------------------------------------------
(* Governance: what the evidence of a Stop consists of.                      *)

CallType ==
  [session : Session, tool : {"edit", "bash"}, paths : SUBSET Path, gate : Gate \cup {Nil}, ok : BOOLEAN]

EventType ==
  [session : Session, call : Nat, hook : {"tool", "changed"}, class : {"none", "scoped", "unknown"},
   paths : SUBSET Path, runs : {{}} \cup {{run} : run \in GateRun}]

Recorded ==
  /\ tree \in [Path -> 0 .. MaxTree] /\ config \in Config
  /\ calls \in Seq(CallType) /\ recording \subseteq [call : 1 .. Len(calls), run : GateRun]
  /\ events \in Seq(EventType) /\ mutations \in Nat

\* The changes that were reported, and the calls that may have changed anything.
Changes == {<<events[i].call, events[i].paths>> : i \in Of("scoped", DOMAIN events)}
Unknowns == Of("unknown", DOMAIN events)

Tallied ==
  /\ IsFiniteSet(Changes) /\ IsFiniteSet(Unknowns)
  /\ mutations = Cardinality(Changes) + Cardinality(Unknowns)

(* A report is counted unless the other hook of its call has reported the    *)
(* same paths; its own hook has not, or it would have been refused.          *)
LEMMA ReportTallied ==
  ASSUME Recorded, Tallied,
         NEW i \in 1 .. Len(calls), NEW h \in Hook, h.hook = "changed" => h.path \in Path,
         ~Deduped(i, h), NEW runs \in {{}} \cup {{run} : run \in GateRun},
         RecordToolEvent(i, h, runs)
  PROVE  /\ events' \in Seq(EventType) /\ mutations' \in Nat
         /\ Tallied'
<1> DEFINE m == ClassifyMutation(i, h)
           ev == [session |-> calls[i].session, call |-> i, hook |-> h.hook,
                  class |-> m.class, paths |-> m.paths, runs |-> runs]
           n == Len(events) + 1
<1>1. calls[i] \in CallType
  BY DEF Recorded
<1>2. m.class \in {"none", "scoped", "unknown"} /\ m.paths \in SUBSET Path
  <2>1. h.hook \in {"tool", "changed"}
    BY DEF Hook
  <2>2. CASE h.hook = "changed"
    BY <2>2 DEF ClassifyMutation, Scoped
  <2>3. CASE h.hook = "tool" /\ ~calls[i].ok
    BY <2>3 DEF ClassifyMutation, Unknown
  <2>4. CASE h.hook = "tool" /\ calls[i].ok
    BY <1>1, <2>4 DEF ClassifyMutation, Unknown, Scoped, None, CallType
  <2> QED  BY <1>1, <2>1, <2>2, <2>3, <2>4 DEF CallType
<1>3. ev \in EventType
  BY <1>1, <1>2 DEF EventType, CallType, Hook
<1>4. events' = Append(events, ev)
      /\ mutations' = mutations + IF m.class # "none" /\ ~IsCorrelated(i, h, m) THEN 1 ELSE 0
  BY DEF RecordToolEvent
<1> HIDE DEF m, ev
<1>5. /\ events' \in Seq(EventType) /\ Len(events') = n /\ DOMAIN events' = DOMAIN events \cup {n}
      /\ events'[n] = ev /\ \A k \in DOMAIN events : events'[k] = events[k] /\ k # n
  BY <1>3, <1>4 DEF Recorded
<1>6. ev.call = i /\ ev.hook = h.hook /\ ev.class = m.class /\ ev.paths = m.paths
  BY DEF ev
<1>7. mutations' \in Nat
  BY <1>4 DEF Recorded
<1>8. Changes' = IF m.class = "scoped" THEN Changes \cup {<<i, m.paths>>} ELSE Changes
  BY <1>5, <1>6 DEF Changes, Of
<1>9. Unknowns' = IF m.class = "unknown" THEN Unknowns \cup {n} ELSE Unknowns
  BY <1>5, <1>6 DEF Unknowns, Of
<1>10. Cardinality(Changes) \in Nat /\ Cardinality(Unknowns) \in Nat
  BY FS_CardinalityType DEF Tallied
<1>11. CASE m.class = "none"
  BY <1>4, <1>7, <1>8, <1>9, <1>5, <1>11, <1>10 DEF Tallied, Recorded
<1>12. CASE m.class = "unknown"
  <2>1. n \notin Unknowns
    BY <1>5 DEF Unknowns, Of, Recorded
  <2>2. IsFiniteSet(Unknowns') /\ Cardinality(Unknowns') = Cardinality(Unknowns) + 1
    BY <1>9, <1>12, <2>1, FS_AddElement DEF Tallied
  <2>3. Changes' = Changes /\ mutations' = mutations + 1
    BY <1>4, <1>8, <1>12 DEF IsCorrelated
  <2> QED  BY <1>5, <1>7, <1>10, <2>2, <2>3 DEF Tallied
<1>13. CASE m.class = "scoped"
  <2>1. IsCorrelated(i, h, m) <=> <<i, m.paths>> \in Changes
    <3>1. ASSUME IsCorrelated(i, h, m) PROVE <<i, m.paths>> \in Changes
      BY <3>1 DEF IsCorrelated, Changes, Of
    <3>2. ASSUME <<i, m.paths>> \in Changes PROVE IsCorrelated(i, h, m)
      <4>1. PICK k \in DOMAIN events : events[k].class = "scoped" /\ <<i, m.paths>> = <<events[k].call, events[k].paths>>
        BY <3>2 DEF Changes, Of
      <4>2. events[k].call = i /\ events[k].paths = m.paths
        BY <4>1
      <4>3. events[k].hook # h.hook
        BY <4>2 DEF Deduped
      <4> QED  BY <1>13, <4>1, <4>2, <4>3 DEF IsCorrelated
    <3> QED  BY <3>1, <3>2
  <2>2. IsFiniteSet(Changes') /\ Cardinality(Changes') =
          IF <<i, m.paths>> \in Changes THEN Cardinality(Changes) ELSE Cardinality(Changes) + 1
    BY <1>8, <1>13, FS_AddElement DEF Tallied
  <2>3. Unknowns' = Unknowns
    BY <1>9, <1>13
  <2> QED  BY <1>4, <1>5, <1>7, <1>10, <1>13, <2>1, <2>2, <2>3 DEF Tallied, Recorded
<1> QED  BY <1>2, <1>5, <1>7, <1>11, <1>12, <1>13

(* The latest of some numbers that are bounded.                              *)
LEMMA LatestIsGreatest ==
  ASSUME NEW S \in SUBSET Nat, S # {}, NEW n \in Nat, \A x \in S : x <= n
  PROVE  Latest(S) \in S /\ \A x \in S : x <= Latest(S)
<1> DEFINE T == {x .. n : x \in S}
           R == StrictSubsetOrdering(Nat)
<1>1. IsWellFoundedOn(R, FiniteSubsetsOf(Nat))
  BY FS_StrictSubsetOrderingWellFounded
<1>2. \A x \in S : x .. n \in FiniteSubsetsOf(Nat)
  BY FS_Interval DEF FiniteSubsetsOf
<1>3. T \subseteq FiniteSubsetsOf(Nat) /\ T # {}
  BY <1>2
<1> HIDE DEF R
<1>4. PICK t \in T : \A u \in T : <<u, t>> \notin R
  BY <1>1, <1>3, WFMin
<1>5. PICK x \in S : t = x .. n
  OBVIOUS
<1>6. ASSUME NEW y \in S, x < y
      PROVE  <<y .. n, x .. n>> \in R
  <2>1. y .. n \subseteq x .. n /\ x \in x .. n /\ x \notin y .. n
    BY <1>6
  <2>2. y .. n \in SUBSET Nat /\ x .. n \in SUBSET Nat
    OBVIOUS
  <2> QED  BY <2>1, <2>2 DEF R, StrictSubsetOrdering
<1>7. \A y \in S : ~(x < y)
  BY <1>4, <1>5, <1>6
<1>8. \A y \in S : y <= x
  BY <1>7
<1> QED  BY <1>8 DEF Latest

-----------------------------------------------------------------------------
(* An evaluation in progress.                                                *)

ObservedType == [rule : Rule, revision : 1 .. MaxRevision, mark : Nat \cup {Nil}]

EvalType(digests) ==
  [stage : {"snapshot", "mark", "refresh", "digest", "warn"}, session : Session, warns : BOOLEAN,
   config : Config, attempt : {0, 1}, seq : 0 .. Len(events), mutations : Nat, rules : SUBSET ObservedType,
   digests : {digests}]

Ruled ==
  /\ rule \in [Rule -> [revision : 1 .. MaxRevision, status : {"active", "disabled", "retired"}]]
  /\ mark \in [Rule -> [1 .. MaxRevision -> 0 .. Len(events) \cup {Nil}]]

\* The rules of a snapshot that is complete have the watermarks of the store.
Watched(e) ==
  \A r \in eval[e].rules : r.mark # Nil /\ r.mark <= eval[e].seq /\ mark[r.rule][r.revision] = r.mark

Withheld == {"missing", "non_pass", "stale"}

Sound(e) == eval[e] # Resting =>
  /\ eval[e] \in EvalType(eval[e].digests)
  /\ eval[e].stage \in {"digest", "warn"} => Watched(e)
  /\ eval[e].stage = "warn" => ResultOf(e, FALSE) \in Withheld

Evaluated ==
  /\ eval = [e \in Evaluator |-> eval[e]] /\ verdict = [e \in Evaluator |-> verdict[e]]
  /\ \A e \in Evaluator : Sound(e)

GovInv == Recorded /\ Tallied /\ Ruled /\ Evaluated

\* Events and watermarks stay as they are once they are there.
Kept ==
  /\ Len(events) <= Len(events') /\ \A i \in 1 .. Len(events) : events'[i] = events[i]
  /\ \A r \in Rule, n \in 1 .. MaxRevision : mark[r][n] # Nil => mark'[r][n] = mark[r][n]

(* Events are only appended, so what is made of some of them does not change. *)
LEMMA EvidenceStays ==
  ASSUME Kept, events \in Seq(EventType), NEW E \in SUBSET (1 .. Len(events)), NEW c, NEW R, NEW g, NEW digest
  PROVE  /\ Applicable(R, E)' = Applicable(R, E)
         /\ RequiredGates(c, R, E)' = RequiredGates(c, R, E)
         /\ GateEvidence(c, R, E, g, digest)' = GateEvidence(c, R, E, g, digest)
<1>1. ASSUME NEW i \in E, NEW run \in events[i].runs
      PROVE  run.result \in {"complete", "failed", "incomplete"}
  <2>1. events[i] \in EventType
    OBVIOUS
  <2>2. run \in GateRun
    BY <2>1 DEF EventType
  <2> QED  BY <2>2 DEF GateRun
<1>2. \A i \in E : events'[i] = events[i]
  BY DEF Kept
<1>3. \A i \in E : \A run \in events[i].runs : run.result \in {"complete", "failed", "incomplete"}
  BY <1>1
<1>4. Len(events) \in Nat
  OBVIOUS
<1>5. \A class : Of(class, E)' = Of(class, E) /\ Of(class, E) \subseteq E
  BY <1>2 DEF Of
<1>6. ChangedPaths(E)' = ChangedPaths(E) /\ UnknownMutation(E)' = UnknownMutation(E)
  BY <1>2, <1>5 DEF ChangedPaths, UnknownMutation
<1>7. \A patterns : SomeChanged(E, patterns)' = SomeChanged(E, patterns)
  BY <1>6 DEF SomeChanged, Matches
<1>8. Applicable(R, E)' = Applicable(R, E)
  BY <1>6, <1>7 DEF Applicable
<1>9. RequiredGates(c, R, E)' = RequiredGates(c, R, E)
  BY <1>6, <1>7, <1>8 DEF RequiredGates, SelectedPathRules
<1>10. PICK patterns, w : /\ RelevantPaths(c, R, E, g) = patterns /\ RelevantPaths(c, R, E, g)' = patterns
                         /\ Watermark(R, E) = w /\ Watermark(R, E)' = w
  BY <1>8 DEF RelevantPaths, Watermark, Requiring, OrEverything, Latest
<1>11. PICK eligible : /\ EligibleRuns(c, g, Watermark(R, E), E) = eligible
                      /\ EligibleRuns(c, g, Watermark(R, E), E)' = eligible
                      /\ eligible \subseteq E
  BY <1>2, <1>10 DEF EligibleRuns
<1>12. PICK last : last = Latest(eligible)
  OBVIOUS
<1>13. CASE eligible = {}
  BY <1>8, <1>9, <1>11, <1>13 DEF GateEvidence
<1>14. CASE eligible # {}
  <2>1. eligible \in SUBSET Nat /\ \A x \in eligible : x <= Len(events)
    BY <1>4, <1>11
  <2>2. last \in E
    BY <1>4, <1>11, <1>12, <1>14, <2>1, LatestIsGreatest
  <2>3. events'[last] = events[last]
    BY <1>2, <2>2
  <2>4. \E x \in events[last].runs : x.gate = g
    BY <1>4, <1>11, <1>12, <1>14, <2>1, LatestIsGreatest DEF EligibleRuns
  <2>5. PICK run : run = CHOOSE x \in events[last].runs : x.gate = g
    OBVIOUS
  <2>6. run.result \in {"complete", "failed", "incomplete"}
    BY <1>3, <2>2, <2>4, <2>5
  <2>7. (CHOOSE x \in events'[last].runs : x.gate = g) = run
    BY <2>3, <2>5
  <2>8. LaterMutation(last, E, patterns)' = LaterMutation(last, E, patterns)
    BY <1>2 DEF LaterMutation, Intersects, Matches
  <2>9. PICK later : later = LaterMutation(last, E, patterns)
    OBVIOUS
  <2> DEFINE worth == CASE run.result = "failed" -> "non_pass"
                        [] run.result = "incomplete" -> "missing"
                        [] run.result = "complete" ->
                             IF run.patterns # patterns THEN "missing"
                             ELSE IF later THEN "stale_mutation"
                             ELSE IF run.digest # digest THEN "stale_digest"
                             ELSE "fresh_pass"
  <2>10. GateEvidence(c, R, E, g, digest) = worth
    BY <1>10, <1>11, <1>12, <1>14, <2>5, <2>6, <2>9 DEF GateEvidence, LaterMutation
  <2>11. GateEvidence(c, R, E, g, digest)' = worth
    BY <1>10, <1>11, <1>12, <1>14, <2>6, <2>7, <2>8, <2>9 DEF GateEvidence, LaterMutation
  <2> QED  BY <1>8, <1>9, <2>10, <2>11
<1> QED  BY <1>8, <1>9, <1>13, <1>14

\* What an evaluation has read, it keeps.
SameReading(e) ==
  /\ eval'[e].session = eval[e].session /\ eval'[e].config = eval[e].config /\ eval'[e].seq = eval[e].seq
  /\ eval'[e].rules = eval[e].rules /\ eval'[e].digests = eval[e].digests

LEMMA ResultStays ==
  ASSUME Kept, events \in Seq(EventType), NEW e, eval[e] \in EvalType(eval[e].digests), SameReading(e)
  PROVE  ResultOf(e, FALSE)' = ResultOf(e, FALSE)
<1>1. PICK E, c, R, digests : /\ E = Seen(e) /\ c = eval[e].config /\ R = eval[e].rules /\ digests = eval[e].digests
                              /\ c = eval'[e].config /\ R = eval'[e].rules /\ digests = eval'[e].digests
  BY DEF SameReading
<1>2. eval[e].seq \in 0 .. Len(events) /\ Len(events) \in Nat
  BY DEF EvalType
<1>3. E \in SUBSET (1 .. Len(events))
  BY <1>1, <1>2 DEF Seen, SessionEvents
<1>4. Seen(e)' = E
  BY <1>1, <1>2 DEF Seen, SessionEvents, Kept, SameReading
<1>6. ASSUME NEW g, NEW digest
      PROVE  /\ Applicable(R, E)' = Applicable(R, E)
             /\ RequiredGates(c, R, E)' = RequiredGates(c, R, E)
             /\ GateEvidence(c, R, E, g, digest)' = GateEvidence(c, R, E, g, digest)
  BY <1>3, EvidenceStays
<1>5. Applicable(R, E)' = Applicable(R, E) /\ RequiredGates(c, R, E)' = RequiredGates(c, R, E)
  BY <1>6
<1>7. PICK owed, applicable : /\ owed = Owed(e) /\ owed = Owed(e)'
                              /\ applicable = Applicable(R, E) /\ applicable = Applicable(R, E)'
  BY <1>1, <1>4, <1>5 DEF Owed
<1>8. \A g : StateOf(e, g)' = StateOf(e, g)
  BY <1>1, <1>4, <1>6 DEF StateOf
<1>9. {StateOf(e, g) : g \in Owed(e)}' = {StateOf(e, g) : g \in Owed(e)}
  BY <1>7, <1>8
<1> QED  BY <1>1, <1>4, <1>7, <1>9 DEF ResultOf, Precedence

(* An evaluation that does nothing keeps what it has found.                  *)
LEMMA SoundStays ==
  ASSUME Kept, events \in Seq(EventType), Ruled, Len(events') \in Nat,
         NEW e, Sound(e), eval'[e] = eval[e]
  PROVE  Sound(e)'
<1> SUFFICES ASSUME eval[e] # Resting PROVE Sound(e)'
  BY DEF Sound
<1>1. eval[e] \in EvalType(eval[e].digests)
  BY DEF Sound
<1>2. (eval[e] \in EvalType(eval[e].digests))'
  BY <1>1 DEF EvalType, Kept
<1>3. ASSUME Watched(e) PROVE Watched(e)'
  <2>1. \A r \in eval[e].rules : r.rule \in Rule /\ r.revision \in 1 .. MaxRevision
    BY <1>1 DEF EvalType, ObservedType
  <2> QED  BY <1>3, <2>1 DEF Watched, Kept
<1>4. ResultOf(e, FALSE)' = ResultOf(e, FALSE)
  BY <1>1, ResultStays DEF SameReading
<1> QED  BY <1>2, <1>3, <1>4 DEF Sound, Withheld

LEMMA OneEvaluates ==
  ASSUME GovInv, Kept, events' \in Seq(EventType), NEW e \in Evaluator, Sound(e)',
         \A f \in Evaluator \ {e} : eval'[f] = eval[f],
         eval' = [f \in Evaluator |-> eval'[f]], verdict' = [f \in Evaluator |-> verdict'[f]]
  PROVE  Evaluated'
<1>1. Len(events') \in Nat /\ events \in Seq(EventType) /\ Ruled
  BY DEF GovInv, Recorded
<1>2. ASSUME NEW f \in Evaluator, f # e PROVE Sound(f)'
  <2>1. Sound(f) /\ eval'[f] = eval[f]
    BY <1>2 DEF GovInv, Evaluated
  <2> QED  BY <1>1, <2>1, SoundStays
<1>3. \A f \in Evaluator : Sound(f)'
  BY <1>2
<1> QED  BY <1>3 DEF Evaluated

LEMMA NoneEvaluates ==
  ASSUME GovInv, Kept, events' \in Seq(EventType), UNCHANGED <<eval, verdict>>
  PROVE  Evaluated'
<1>1. Len(events') \in Nat /\ events \in Seq(EventType) /\ Ruled
  BY DEF GovInv, Recorded
<1>2. ASSUME NEW f \in Evaluator PROVE Sound(f)'
  <2>1. Sound(f) /\ eval'[f] = eval[f]
    BY DEF GovInv, Evaluated
  <2> QED  BY <1>1, <2>1, SoundStays
<1> QED  BY <1>2 DEF GovInv, Evaluated

(* What leaves the events, the policy and the evaluations alone.             *)
LEMMA NothingRecorded ==
  ASSUME GovInv, UNCHANGED <<recorded, policy, evaluations>>
  PROVE  Kept /\ Tallied' /\ Ruled' /\ Evaluated'
<1>1. Kept /\ events' \in Seq(EventType) /\ Ruled' /\ Tallied'
  BY DEF GovInv, Recorded, Kept, Ruled, Tallied, recorded, policy, Changes, Unknowns, Of
<1> QED  BY <1>1, NoneEvaluates DEF evaluations

LEMMA CallStep ==
  ASSUME GovInv, NEW s \in Session, NEW t \in Tool, Call(s, t)
  PROVE  GovInv' /\ Kept
<1>1. t \in [tool: {"edit", "bash"}, paths: SUBSET Path, gate: Gate \cup {Nil}, ok: BOOLEAN]
  BY GovernanceAssumption
<1>2. tree' \in [Path -> 0 .. MaxTree]
  BY <1>1, GovernanceAssumption DEF Call, Change, GovInv, Recorded
<1>3. [session |-> s, tool |-> t.tool, paths |-> t.paths, gate |-> t.gate, ok |-> t.ok] \in CallType
  BY <1>1 DEF CallType
<1>4. calls' \in Seq(CallType) /\ Len(calls') = Len(calls) + 1
  BY <1>3 DEF Call, GovInv, Recorded
<1>5. recording' \subseteq [call : 1 .. Len(calls'), run : GateRun]
  BY <1>4 DEF Call, GovInv, Recorded
<1>6. Recorded'
  BY <1>2, <1>4, <1>5 DEF Call, GovInv, Recorded, recorded
<1> QED  BY <1>6, NothingRecorded DEF Call, GovInv

LEMMA OutsideStep ==
  ASSUME GovInv, NEW P \in SUBSET Path, NEW c \in Config, Outside(P, c)
  PROVE  GovInv' /\ Kept
<1>1. tree' \in [Path -> 0 .. MaxTree]
  BY GovernanceAssumption DEF Outside, Change, GovInv, Recorded
<1>2. Recorded'
  BY <1>1 DEF Outside, GovInv, Recorded, recorded
<1> QED  BY <1>2, NothingRecorded DEF Outside, GovInv

LEMMA CaptureStep ==
  ASSUME GovInv, NEW i \in DOMAIN calls, CaptureGateRun(i)
  PROVE  GovInv' /\ Kept
<1> DEFINE patterns == RecorderPaths(config, calls[i].gate)
<1>1. calls[i] \in CallType /\ i \in 1 .. Len(calls)
  BY DEF GovInv, Recorded
<1>2. patterns \in SUBSET Patterns
  <2>1. UNION {r.paths : r \in Requiring(config, calls[i].gate)} \subseteq Patterns
    BY GovernanceAssumption DEF Requiring, GovInv, Recorded
  <2> QED  BY <2>1 DEF RecorderPaths, OrEverything, Patterns
<1>3. Digest(patterns) \in UNION {[P -> 0 .. MaxTree] : P \in SUBSET Path}
  <2>1. UNION patterns \in SUBSET Path
    BY <1>2 DEF Patterns
  <2> HIDE DEF patterns
  <2>2. Digest(patterns) \in [UNION patterns -> 0 .. MaxTree]
    BY <2>1 DEF Digest, GovInv, Recorded
  <2> QED  BY <2>1, <2>2
<1>4. PICK result \in {IF calls[i].ok THEN "complete" ELSE "failed", "incomplete"} :
        recording' = recording \cup {[call |-> i, run |->
          [gate |-> calls[i].gate, config |-> config, result |-> result,
           patterns |-> patterns, digest |-> Digest(patterns)]]}
  BY DEF CaptureGateRun
<1>5. [gate |-> calls[i].gate, config |-> config, result |-> result,
       patterns |-> patterns, digest |-> Digest(patterns)] \in GateRun
  <2>1. calls[i].gate \in Gate /\ config \in Config
    BY <1>1 DEF CaptureGateRun, CallType, GovInv, Recorded
  <2> HIDE DEF patterns
  <2> QED  BY <1>2, <1>3, <1>4, <2>1 DEF GateRun
<1> HIDE DEF patterns
<1>6. Recorded'
  BY <1>1, <1>4, <1>5 DEF CaptureGateRun, GovInv, Recorded, recorded
<1> QED  BY <1>6, NothingRecorded DEF CaptureGateRun, GovInv

(* Recording adds one event, and the tally stays right.                      *)
LEMMA ReportStep ==
  ASSUME GovInv, NEW i \in 1 .. Len(calls), NEW h \in Hook,
         h.hook = "changed" => h.path \in Path, ~Deduped(i, h),
         NEW runs \in {{}} \cup {{run} : run \in GateRun}, RecordToolEvent(i, h, runs),
         UNCHANGED <<tree, config, calls, policy, evaluations>>, recording' \subseteq recording
  PROVE  GovInv' /\ Kept
<1>1. events' \in Seq(EventType) /\ mutations' \in Nat /\ Tallied'
  BY ReportTallied DEF GovInv
<1>2. Kept
  BY DEF RecordToolEvent, GovInv, Recorded, Kept, policy
<1>3. Len(events) <= Len(events') /\ Len(events) \in Nat /\ Len(events') \in Nat
  BY <1>1, <1>2 DEF Kept, GovInv, Recorded
<1>4. Ruled'
  BY <1>3 DEF GovInv, Ruled, policy
<1>5. Evaluated'
  BY <1>1, <1>2, NoneEvaluates DEF evaluations
<1>6. Recorded'
  BY <1>1 DEF GovInv, Recorded
<1> QED  BY <1>1, <1>2, <1>4, <1>5, <1>6 DEF GovInv

LEMMA RecordStep ==
  ASSUME GovInv, NEW i \in DOMAIN calls, NEW h \in Hooks(i), Record(i, h)
  PROVE  GovInv' /\ Kept
<1>1. i \in 1 .. Len(calls) /\ calls[i] \in CallType
  BY DEF GovInv, Recorded
<1>2. h \in Hook /\ (h.hook = "changed" => h.path \in Path)
  BY <1>1 DEF Hooks, CallType
<1> QED  BY <1>1, <1>2, ReportStep DEF Record

LEMMA RecordGateRunStep ==
  ASSUME GovInv, NEW r \in recording, RecordGateRun(r)
  PROVE  GovInv' /\ Kept
<1> DEFINE h == [hook |-> "tool", path |-> Nil]
<1>1. r.call \in 1 .. Len(calls) /\ r.run \in GateRun
  BY DEF GovInv, Recorded
<1>2. h \in Hook /\ h.hook # "changed"
  BY DEF Hook
<1>3. recording' \subseteq recording
  BY DEF RecordGateRun
<1>4. CASE Deduped(r.call, h)
  <2>1. UNCHANGED <<tree, config, calls, recorded, policy, evaluations>>
    BY <1>4 DEF RecordGateRun
  <2>2. Recorded'
    BY <1>3, <2>1 DEF GovInv, Recorded, recorded
  <2> QED  BY <2>1, <2>2, NothingRecorded DEF GovInv
<1>5. CASE ~Deduped(r.call, h)
  <2>1. RecordToolEvent(r.call, h, {r.run}) /\ UNCHANGED <<tree, config, calls, policy, evaluations>>
    BY <1>5 DEF RecordGateRun
  <2>2. {r.run} \in {{}} \cup {{run} : run \in GateRun}
    BY <1>1
  <2> HIDE DEF h
  <2> QED  BY <1>1, <1>2, <1>3, <1>5, <2>1, <2>2, ReportStep
<1> QED  BY <1>4, <1>5

LEMMA ReviseStep ==
  ASSUME GovInv, NEW r \in Rule, NEW status \in {"active", "disabled", "retired"}, Revise(r, status),
         MaxRevision \in Nat
  PROVE  GovInv' /\ Kept
<1>1. Kept /\ events' \in Seq(EventType) /\ Tallied' /\ Recorded'
  BY DEF Revise, GovInv, Recorded, Kept, Tallied, recorded, Changes, Unknowns, Of
<1>2. Ruled'
  BY DEF Revise, GovInv, Ruled, recorded
<1> QED  BY <1>1, <1>2, NoneEvaluates DEF Revise, evaluations, GovInv

-----------------------------------------------------------------------------
(* The steps of an evaluation.                                               *)

Alone(e) ==
  /\ \A f \in Evaluator \ {e} : eval'[f] = eval[f]
  /\ eval' = [f \in Evaluator |-> eval'[f]] /\ verdict' = [f \in Evaluator |-> verdict'[f]]

LEMMA OnlyEvaluates ==
  ASSUME GovInv, NEW e \in Evaluator, Alone(e), Sound(e)', UNCHANGED <<tree, config, calls, recording, recorded>>,
         Kept, Ruled'
  PROVE  GovInv' /\ Kept
<1>1. Recorded' /\ Tallied' /\ events' \in Seq(EventType)
  BY DEF GovInv, Recorded, Tallied, recorded, Changes, Unknowns, Of
<1>2. Evaluated'
  BY <1>1, OneEvaluates DEF Alone
<1> QED  BY <1>1, <1>2 DEF GovInv

LEMMA SamePolicy ==
  ASSUME GovInv, UNCHANGED <<recorded, policy>>
  PROVE  Kept /\ Ruled'
BY DEF GovInv, Recorded, Kept, Ruled, recorded, policy

LEMMA FinishSound ==
  ASSUME GovInv, NEW e \in Evaluator, NEW result, Finish(e, result)
  PROVE  Alone(e) /\ eval'[e] = Resting /\ Sound(e)' /\ verdict'[e] \in {"pass", "withheld"}
         /\ (verdict'[e] = "pass" => result = "pass")
<1>1. eval = [f \in Evaluator |-> eval[f]] /\ verdict = [f \in Evaluator |-> verdict[f]]
  BY DEF GovInv, Evaluated
<1> QED  BY <1>1 DEF Finish, Alone, Sound

LEMMA AgainSound ==
  ASSUME GovInv, NEW e \in Evaluator, eval[e] # Resting, Again(e), UNCHANGED events
  PROVE  Alone(e) /\ Sound(e)'
<1>1. eval = [f \in Evaluator |-> eval[f]] /\ verdict = [f \in Evaluator |-> verdict[f]] /\ Sound(e)
  BY DEF GovInv, Evaluated
<1>2. Alone(e) /\ eval'[e] = [eval[e] EXCEPT !.stage = "snapshot", !.attempt = 1]
  BY <1>1 DEF Again, Alone
<1>3. eval[e] \in EvalType(eval[e].digests)
  BY <1>1 DEF Sound
<1>4. eval'[e].stage = "snapshot" /\ (eval[e] \in EvalType(eval[e].digests))'
  BY <1>2, <1>3 DEF EvalType
<1> QED  BY <1>2, <1>4 DEF Sound

LEMMA BeginStep ==
  ASSUME GovInv, NEW e \in Evaluator, NEW s \in Session, NEW warns \in BOOLEAN, Begin(e, s, warns)
  PROVE  GovInv' /\ Kept
<1>1. eval = [f \in Evaluator |-> eval[f]] /\ verdict = [f \in Evaluator |-> verdict[f]]
  BY DEF GovInv, Evaluated
<1>2. Alone(e) /\ eval'[e] =
        [stage |-> "snapshot", session |-> s, warns |-> warns, config |-> config,
         attempt |-> 0, seq |-> 0, mutations |-> 0, rules |-> {}, digests |-> <<>>]
  BY <1>1 DEF Begin, Alone
<1>3. Kept /\ Ruled' /\ Len(events') \in Nat
  BY SamePolicy DEF Begin, GovInv, Recorded, recorded
<1>4. Sound(e)'
  BY <1>2, <1>3 DEF Sound, EvalType, GovInv, Recorded
<1> QED  BY <1>2, <1>3, <1>4, OnlyEvaluates DEF Begin

LEMMA ReadSnapshotStep ==
  ASSUME GovInv, NEW e \in Evaluator, ReadSnapshot(e)
  PROVE  GovInv' /\ Kept
<1>1. eval = [f \in Evaluator |-> eval[f]] /\ verdict = [f \in Evaluator |-> verdict[f]] /\ Sound(e)
  BY DEF GovInv, Evaluated
<1>. eval[e].stage \in {"snapshot", "refresh"}
     /\ UNCHANGED <<tree, config, calls, recording, recorded, policy>>
  BY DEF ReadSnapshot
<1>2. eval[e] # Resting
  BY DEF Resting
<1>3. Kept /\ Ruled'
  BY SamePolicy
<1>4. CASE Unmarked(ObservedRules) # {} /\ eval[e].stage = "refresh"
  <2>1. Finish(e, "self_error")
    BY <1>4 DEF ReadSnapshot
  <2> QED  BY <1>3, <2>1, FinishSound, OnlyEvaluates
<1>5. CASE ~(Unmarked(ObservedRules) # {} /\ eval[e].stage = "refresh")
  <2>1. PICK next \in {"mark", "digest"} :
          /\ eval' = [eval EXCEPT ![e].stage = next, ![e].seq = Len(events),
               ![e].mutations = mutations, ![e].rules = ObservedRules, ![e].digests = <<>>]
          /\ verdict' = verdict /\ (next = "digest" => Unmarked(ObservedRules) = {})
    BY <1>5 DEF ReadSnapshot
  <2>2. Alone(e) /\ eval'[e] = [eval[e] EXCEPT !.stage = next, !.seq = Len(events),
               !.mutations = mutations, !.rules = ObservedRules, !.digests = <<>>]
    BY <1>1, <2>1 DEF Alone
  <2>3. ObservedRules \subseteq ObservedType
        /\ \A r \in ObservedRules : /\ r.mark = mark[r.rule][r.revision]
                                    /\ r.mark # Nil => r.mark <= Len(events)
    <3>1. ASSUME NEW r \in ObservedRules
          PROVE  /\ r \in ObservedType /\ r.mark = mark[r.rule][r.revision]
                 /\ r.mark \in 0 .. Len(events) \cup {Nil}
      <4>1. PICK x \in Rule : r = [rule |-> x, revision |-> rule[x].revision, mark |-> mark[x][rule[x].revision]]
        BY DEF ObservedRules, ActiveRules
      <4>2. rule[x].revision \in 1 .. MaxRevision
        BY DEF GovInv, Ruled
      <4>3. mark[x][rule[x].revision] \in 0 .. Len(events) \cup {Nil}
        BY <4>2 DEF GovInv, Ruled
      <4> QED  BY <4>1, <4>2, <4>3 DEF ObservedType
    <3> QED  BY <3>1
  <2>4. Len(events) \in 0 .. Len(events) /\ mutations \in Nat /\ events' = events /\ mark' = mark
    BY DEF GovInv, Recorded, recorded, policy
  <2> HIDE DEF ObservedRules
  <2>5. eval[e] \in EvalType(eval[e].digests)
    BY <1>1, <1>2 DEF Sound
  <2>6. (eval[e] \in EvalType(eval[e].digests))' /\ eval'[e].stage = next
        /\ eval'[e].rules = ObservedRules /\ eval'[e].seq = Len(events)
    BY <2>2, <2>3, <2>4, <2>5 DEF EvalType
  <2>7. ASSUME next = "digest" PROVE Watched(e)'
    BY <2>1, <2>3, <2>4, <2>6, <2>7 DEF Watched, Unmarked
  <2>8. Sound(e)'
    BY <2>6, <2>7 DEF Sound
  <2> QED  BY <1>3, <2>2, <2>8, OnlyEvaluates
<1> QED  BY <1>4, <1>5

LEMMA EnsureWatermarksStep ==
  ASSUME GovInv, NEW e \in Evaluator, EnsureWatermarks(e)
  PROVE  GovInv' /\ Kept
<1>1. eval = [f \in Evaluator |-> eval[f]] /\ verdict = [f \in Evaluator |-> verdict[f]] /\ Sound(e)
  BY DEF GovInv, Evaluated
<1>2. eval[e] # Resting /\ eval[e].stage = "mark"
  BY DEF EnsureWatermarks, Resting
<1>3. eval[e] \in EvalType(eval[e].digests)
  BY <1>1, <1>2 DEF Sound
<1>4. PICK first \in SUBSET Rule :
        /\ mark' = [r \in Rule |-> IF r \in first
                      THEN [mark[r] EXCEPT ![rule[r].revision] = Len(events)] ELSE mark[r]]
        /\ \A r \in first : mark[r][rule[r].revision] = Nil
  <2> DEFINE absent == {r \in eval[e].rules : mark[r.rule][r.revision] = Nil}
             first == {r.rule : r \in {x \in absent : IsCurrent(x)}}
  <2>1. first \in SUBSET Rule /\ \A r \in first : mark[r][rule[r].revision] = Nil
    BY <1>3 DEF EvalType, ObservedType, IsCurrent
  <2>2. mark' = [r \in Rule |-> IF r \in first
                      THEN [mark[r] EXCEPT ![rule[r].revision] = Len(events)] ELSE mark[r]]
    BY DEF EnsureWatermarks, ShadowSequence
  <2> QED  BY <2>1, <2>2
<1>5. events' = events /\ rule' = rule /\ Len(events) \in Nat
      /\ UNCHANGED <<tree, config, calls, recording, recorded>>
  BY DEF EnsureWatermarks, recorded, GovInv, Recorded
<1>6. Kept
  BY <1>4, <1>5 DEF Kept, GovInv, Ruled
<1>7. Ruled'
  <2>1. \A r \in Rule : mark'[r] \in [1 .. MaxRevision -> 0 .. Len(events) \cup {Nil}]
    BY <1>4, <1>5 DEF GovInv, Ruled
  <2>2. mark' \in [Rule -> [1 .. MaxRevision -> 0 .. Len(events) \cup {Nil}]]
    BY <1>4, <2>1
  <2> QED  BY <1>5, <2>2 DEF GovInv, Ruled
<1>8. CASE Finish(e, "self_error")
  BY <1>5, <1>6, <1>7, <1>8, FinishSound, OnlyEvaluates
<1>9. CASE eval' = [eval EXCEPT ![e].stage = "refresh"] /\ verdict' = verdict
  <2>1. Alone(e) /\ eval'[e] = [eval[e] EXCEPT !.stage = "refresh"]
    BY <1>1, <1>9 DEF Alone
  <2>2. (eval[e] \in EvalType(eval[e].digests))' /\ eval'[e].stage = "refresh"
    BY <1>3, <1>5, <2>1 DEF EvalType
  <2>3. Sound(e)'
    BY <2>2 DEF Sound
  <2> QED  BY <1>5, <1>6, <1>7, <2>1, <2>3, OnlyEvaluates
<1> QED  BY <1>8, <1>9 DEF EnsureWatermarks

LEMMA CaptureDigestStep ==
  ASSUME GovInv, NEW e \in Evaluator, NEW g \in Gate, CaptureDigest(e, g)
  PROVE  GovInv' /\ Kept
<1>1. eval = [f \in Evaluator |-> eval[f]] /\ verdict = [f \in Evaluator |-> verdict[f]] /\ Sound(e)
  BY DEF GovInv, Evaluated
<1>2. eval[e] # Resting /\ eval[e].stage = "digest"
  BY DEF CaptureDigest, Resting
<1>3. eval[e] \in EvalType(eval[e].digests) /\ Watched(e)
  BY <1>1, <1>2 DEF Sound
<1>4. PICK digests : eval' = [eval EXCEPT ![e].digests = digests]
  BY DEF CaptureDigest
<1>5. Kept /\ Ruled' /\ UNCHANGED <<tree, config, calls, recording, recorded>> /\ verdict' = verdict
  BY SamePolicy DEF CaptureDigest
<1>6. events' = events /\ mark' = mark
  BY DEF CaptureDigest, recorded, policy
<1>7. Alone(e) /\ eval'[e] = [eval[e] EXCEPT !.digests = digests]
  BY <1>1, <1>4, <1>5 DEF Alone
<1>8. (eval[e] \in EvalType(eval[e].digests))' /\ eval'[e].stage = "digest"
      /\ eval'[e].rules = eval[e].rules /\ eval'[e].seq = eval[e].seq
  BY <1>2, <1>3, <1>6, <1>7 DEF EvalType
<1>9. Watched(e)'
  BY <1>3, <1>6, <1>8 DEF Watched
<1>10. Sound(e)'
  BY <1>8, <1>9 DEF Sound
<1> QED  BY <1>5, <1>7, <1>10, OnlyEvaluates

LEMMA ResolveStep ==
  ASSUME GovInv, NEW e \in Evaluator, Resolve(e)
  PROVE  GovInv' /\ Kept
<1>1. eval = [f \in Evaluator |-> eval[f]] /\ verdict = [f \in Evaluator |-> verdict[f]] /\ Sound(e)
  BY DEF GovInv, Evaluated
<1>2. eval[e].stage = "digest" /\ UNCHANGED <<tree, config, calls, recording, recorded, policy>>
  BY DEF Resolve
<1>3. Kept /\ Ruled' /\ events' = events /\ mark' = mark
  BY <1>2, SamePolicy DEF recorded, policy
<1>4. eval[e] # Resting
  BY <1>2 DEF Resting
<1>5. eval[e] \in EvalType(eval[e].digests) /\ Watched(e)
  BY <1>1, <1>2, <1>4 DEF Sound
<1>6. ASSUME NEW degraded \in BOOLEAN, Finish(e, ResultOf(e, degraded)) PROVE GovInv' /\ Kept
  BY <1>2, <1>3, <1>6, FinishSound, OnlyEvaluates
<1>7. ASSUME NEW degraded \in BOOLEAN, ResultOf(e, degraded) \in Withheld,
             eval' = [eval EXCEPT ![e].stage = "warn"], verdict' = verdict
      PROVE  GovInv' /\ Kept
  <2>1. Alone(e) /\ eval'[e] = [eval[e] EXCEPT !.stage = "warn"]
    BY <1>1, <1>7 DEF Alone
  <2>2. (eval[e] \in EvalType(eval[e].digests))' /\ SameReading(e)
    BY <1>3, <1>5, <2>1 DEF EvalType, SameReading
  <2>3. ResultOf(e, FALSE) \in Withheld
    BY <1>7 DEF ResultOf, Precedence, Withheld
  <2>4. ResultOf(e, FALSE)' \in Withheld
    BY <1>3, <1>5, <2>2, <2>3, ResultStays DEF GovInv, Recorded
  <2>5. Watched(e)'
    BY <1>3, <1>5, <2>2 DEF Watched, SameReading
  <2>6. Sound(e)'
    BY <2>2, <2>4, <2>5 DEF Sound, Withheld
  <2> QED  BY <1>2, <1>3, <2>1, <2>6, OnlyEvaluates
<1>8. CASE Again(e)
  BY <1>2, <1>3, <1>4, <1>8, AgainSound, OnlyEvaluates
<1>9. CASE Finish(e, "self_error")
  BY <1>2, <1>3, <1>9, FinishSound, OnlyEvaluates
<1> QED  BY <1>6, <1>7, <1>8, <1>9 DEF Resolve, Withheld

LEMMA FailStep ==
  ASSUME GovInv, NEW e \in Evaluator, Fail(e)
  PROVE  GovInv' /\ Kept
<1>1. eval[e] # Resting /\ UNCHANGED <<tree, config, calls, recording, recorded, policy>>
  BY DEF Fail, Resting
<1>2. Kept /\ Ruled' /\ events' = events
  BY <1>1, SamePolicy DEF recorded
<1>3. CASE Again(e)
  BY <1>1, <1>2, <1>3, AgainSound, OnlyEvaluates
<1>4. CASE Finish(e, "self_error")
  BY <1>1, <1>2, <1>4, FinishSound, OnlyEvaluates
<1> QED  BY <1>3, <1>4 DEF Fail

LEMMA CommitWarningStep ==
  ASSUME GovInv, NEW e \in Evaluator, CommitWarning(e)
  PROVE  GovInv' /\ Kept
<1>1. Finish(e, ResultOf(e, FALSE)) /\ UNCHANGED <<tree, config, calls, recording, recorded, policy>>
  BY DEF CommitWarning
<1>2. Kept /\ Ruled'
  BY <1>1, SamePolicy
<1> QED  BY <1>1, <1>2, FinishSound, OnlyEvaluates

LEMMA GovernanceStarts == GovernanceInit => GovInv
<1> SUFFICES ASSUME GovernanceInit PROVE GovInv
  OBVIOUS
<1>1. Recorded
  BY GovernanceAssumption DEF GovernanceInit, Recorded
<1>2. Tallied
  <2>1. Changes = {} /\ Unknowns = {}
    BY DEF GovernanceInit, Changes, Unknowns, Of
  <2> QED  BY <2>1, FS_EmptySet DEF GovernanceInit, Tallied
<1>3. Ruled
  BY GovernanceAssumption DEF GovernanceInit, Ruled
<1>4. Evaluated
  BY DEF GovernanceInit, Evaluated, Sound
<1> QED  BY <1>1, <1>2, <1>3, <1>4 DEF GovInv

LEMMA GovernanceStep ==
  ASSUME GovInv, [GovernanceNext]_governance
  PROVE  GovInv'
<1>1. ASSUME NEW s \in Session, NEW t \in Tool, Call(s, t) PROVE GovInv'
  BY <1>1, CallStep
<1>2. ASSUME NEW P \in SUBSET Path, NEW c \in Config, Outside(P, c) PROVE GovInv'
  BY <1>2, OutsideStep
<1>3. CASE Deliver
  BY <1>3, CaptureStep, RecordStep DEF Deliver
<1>4. ASSUME NEW r \in recording, RecordGateRun(r) PROVE GovInv'
  BY <1>4, RecordGateRunStep
<1>5. ASSUME NEW r \in Rule, NEW status \in {"active", "disabled", "retired"}, Revise(r, status) PROVE GovInv'
  BY <1>5, ReviseStep, GovernanceAssumption
<1>6. ASSUME NEW e \in Evaluator, Evaluate(e) PROVE GovInv'
  BY <1>6, BeginStep, ReadSnapshotStep, EnsureWatermarksStep, ResolveStep, FailStep, CommitWarningStep,
     CaptureDigestStep DEF Evaluate
<1>7. CASE UNCHANGED governance
  <2>1. UNCHANGED <<recorded, policy, evaluations>>
    BY <1>7 DEF governance
  <2>2. Recorded'
    BY <1>7 DEF governance, recorded, GovInv, Recorded
  <2> QED  BY <2>1, <2>2, NothingRecorded DEF GovInv
<1> QED  BY <1>1, <1>2, <1>3, <1>4, <1>5, <1>6, <1>7 DEF GovernanceNext

LEMMA GovernanceInvariant == GovernanceSpec => []GovInv
<1>1. GovInv /\ [GovernanceNext]_governance => GovInv'
  BY GovernanceStep
<1> QED  BY <1>1, GovernanceStarts, PTL DEF GovernanceSpec

(* However its hooks report an edit, together, apart, in any order or again, *)
(* it counts once (recorder-store.ts, recordToolEvent).                      *)
THEOREM EditsCountOnce == GovernanceSpec => []ChangesCountedOnce
<1>1. GovInv => ChangesCountedOnce
  BY DEF GovInv, Tallied, Changes, Unknowns, ChangesCountedOnce
<1> QED  BY <1>1, GovernanceInvariant, PTL

(* Only the comparison with the store gives a verdict that passes.           *)
LEMMA OnlyResolvePasses ==
  ASSUME GovInv, [GovernanceNext]_governance, NEW e \in Evaluator, Decides(e)
  PROVE  /\ Resolve(e) /\ Unchanged(e)
         /\ \E degraded \in BOOLEAN : ResultOf(e, degraded) = "pass"
<1>1. eval[e] # Resting /\ verdict'[e] # verdict[e] /\ verdict'[e] = "pass"
      /\ verdict = [f \in Evaluator |-> verdict[f]] /\ Sound(e)
  BY DEF Decides, GovInv, Evaluated
<1>2. ASSUME UNCHANGED verdict PROVE FALSE
  BY <1>1, <1>2
<1>3. ~(UNCHANGED evaluations)
  BY <1>2 DEF evaluations
<1>4. PICK f \in Evaluator : Evaluate(f)
  BY <1>3 DEF GovernanceNext, Deliver, Call, Outside, CaptureGateRun, Record, RecordGateRun, Revise, governance
<1>5. ASSUME NEW result, Finish(f, result) PROVE f = e /\ result = "pass"
  BY <1>1, <1>5 DEF Finish
<1>6. CASE Resolve(f)
  <2>1. PICK degraded \in BOOLEAN : Unchanged(f) /\ Finish(f, ResultOf(f, degraded))
    BY <1>2, <1>5, <1>6 DEF Resolve, Again
  <2> QED  BY <1>5, <1>6, <2>1
<1>7. ASSUME NEW s \in Session, NEW warns \in BOOLEAN, Begin(f, s, warns) PROVE FALSE
  BY <1>1, <1>7 DEF Begin
<1>8. CASE ReadSnapshot(f)
  <2>1. Finish(f, "self_error") \/ UNCHANGED verdict
    BY <1>8 DEF ReadSnapshot
  <2> QED  BY <1>2, <1>5, <2>1
<1>9. CASE EnsureWatermarks(f)
  BY <1>2, <1>5, <1>9 DEF EnsureWatermarks
<1>10. CASE Fail(f)
  BY <1>2, <1>5, <1>10 DEF Fail, Again
<1>11. CASE CommitWarning(f)
  <2>1. f = e /\ ResultOf(e, FALSE) = "pass" /\ eval[e].stage = "warn"
    BY <1>5, <1>11 DEF CommitWarning
  <2> QED  BY <1>1, <2>1 DEF Sound, Withheld
<1>12. ASSUME NEW g \in Gate, CaptureDigest(f, g) PROVE FALSE
  BY <1>2, <1>12 DEF CaptureDigest
<1>13. \/ \E s \in Session, warns \in BOOLEAN : Begin(f, s, warns)
       \/ ReadSnapshot(f) \/ EnsureWatermarks(f) \/ Resolve(f) \/ Fail(f) \/ CommitWarning(f)
       \/ \E g \in Gate : CaptureDigest(f, g)
  BY <1>4 DEF Evaluate
<1> QED  BY <1>6, <1>7, <1>8, <1>9, <1>10, <1>11, <1>12, <1>13

(* The run that a gate is judged by: an event has at most one.               *)
JudgedBy(i, c, g, run) ==
  run \in GateRun /\ events[i].runs = {run} /\ run.gate = g /\ run.config = c

LEMMA RunFound ==
  ASSUME events \in Seq(EventType), NEW E \in SUBSET (1 .. Len(events)), NEW c, NEW g, NEW w,
         NEW eligible, eligible = EligibleRuns(c, g, w, E), eligible # {}, NEW i, i = Latest(eligible)
  PROVE  i \in E /\ i > w /\ \E run : JudgedBy(i, c, g, run)
<1>2. Len(events) \in Nat /\ eligible \subseteq E
  BY DEF EligibleRuns
<1>3. ASSUME NEW x \in eligible PROVE x \in Nat /\ x <= Len(events)
  <2>1. x \in E
    BY <1>2
  <2>2. x \in 1 .. Len(events)
    BY <2>1
  <2> QED  BY <1>2, <2>2
<1>4. i \in eligible
  BY <1>2, <1>3, LatestIsGreatest
<1>5. i \in E /\ i > w /\ \E run \in events[i].runs : run.gate = g /\ run.config = c
  BY <1>4 DEF EligibleRuns
<1>6. events[i] \in EventType
  BY <1>5
<1>7. PICK run \in events[i].runs : run.gate = g /\ run.config = c
  BY <1>5
<1>8. events[i].runs = {run} /\ run \in GateRun
  BY <1>6, <1>7 DEF EventType
<1> QED  BY <1>5, <1>7, <1>8 DEF JudgedBy

LEMMA EvidenceKinds ==
  ASSUME events \in Seq(EventType), NEW E \in SUBSET (1 .. Len(events)), NEW c, NEW R, NEW g, NEW digest
  PROVE  GateEvidence(c, R, E, g, digest) \in
           {"missing", "non_pass", "stale_mutation", "stale_digest", "fresh_pass"}
<1>1. PICK w, eligible, i : w = Watermark(R, E) /\ eligible = EligibleRuns(c, g, w, E) /\ i = Latest(eligible)
  OBVIOUS
<1>2. CASE eligible = {}
  BY <1>1, <1>2 DEF GateEvidence
<1>3. CASE eligible # {}
  <2>3. eligible = EligibleRuns(c, g, w, E) /\ i = Latest(eligible)
    BY <1>1
  <2>1. PICK run : JudgedBy(i, c, g, run)
    BY <1>3, <2>3, RunFound
  <2>2. (CHOOSE x \in events[i].runs : x.gate = g) = run /\ run.result \in {"complete", "failed", "incomplete"}
    BY <2>1 DEF JudgedBy, GateRun
  <2> QED  BY <1>1, <1>3, <2>2 DEF GateEvidence
<1> QED  BY <1>2, <1>3

(* What "fresh_pass" is worth.                                               *)
CurrentRun(c, R, E, g, digest) ==
  \E i \in E : \E run \in events[i].runs :
    /\ run.gate = g /\ run.config = c /\ run.result = "complete" /\ run.digest = digest
    /\ \A r \in Applicable(R, E) : r.mark < i
    /\ \A j \in E : j > i => ~Intersects(j, RelevantPaths(c, R, E, g))

LEMMA FreshIsCurrent ==
  ASSUME events \in Seq(EventType), NEW E \in SUBSET (1 .. Len(events)), NEW c, NEW g, NEW digest,
         NEW R \in SUBSET ObservedType, NEW n \in Nat, \A r \in R : r.mark \in 0 .. n,
         GateEvidence(c, R, E, g, digest) = "fresh_pass"
  PROVE  CurrentRun(c, R, E, g, digest)
<1>1. PICK w, eligible, i : w = Watermark(R, E) /\ eligible = EligibleRuns(c, g, w, E) /\ i = Latest(eligible)
  OBVIOUS
<1>2. eligible # {}
  BY <1>1 DEF GateEvidence
<1>5. i \in E /\ i > w /\ \E run : JudgedBy(i, c, g, run)
  BY <1>1, <1>2, RunFound
<1>6. PICK run : JudgedBy(i, c, g, run)
  BY <1>5
<1>7. run \in GateRun /\ events[i].runs = {run} /\ run.gate = g /\ run.config = c
  BY <1>6 DEF JudgedBy
<1>9. (CHOOSE x \in events[i].runs : x.gate = g) = run
  BY <1>7
<1>10. run.result \in {"complete", "failed", "incomplete"}
  BY <1>7 DEF GateRun
<1>11. /\ run.result = "complete" /\ run.patterns = RelevantPaths(c, R, E, g)
       /\ ~LaterMutation(i, E, RelevantPaths(c, R, E, g)) /\ run.digest = digest
  BY <1>1, <1>2, <1>9, <1>10 DEF GateEvidence
<1>12. \A r \in Applicable(R, E) : r.mark <= w
  <2> DEFINE S == {0} \cup {r.mark : r \in Applicable(R, E)}
  <2>1. S \in SUBSET Nat /\ S # {} /\ \A x \in S : x <= n
    BY DEF Applicable
  <2> HIDE DEF S
  <2>2. \A x \in S : x <= Latest(S)
    BY <2>1, LatestIsGreatest
  <2>3. \A x \in S : x <= w
    BY <1>1, <2>2 DEF Watermark, S
  <2> QED  BY <2>3 DEF S
<1>13. w \in Nat
  <2> DEFINE S == {0} \cup {r.mark : r \in Applicable(R, E)}
  <2>1. S \in SUBSET Nat /\ S # {} /\ \A x \in S : x <= n
    BY DEF Applicable
  <2> HIDE DEF S
  <2>2. Latest(S) \in Nat
    BY <2>1, LatestIsGreatest
  <2> QED  BY <1>1, <2>2 DEF Watermark, S
<1>14. \A r \in Applicable(R, E) : r.mark < i
  <2>1. \A r \in Applicable(R, E) : r.mark \in Nat
    BY DEF Applicable
  <2>2. i \in Nat
    BY <1>5
  <2> QED  BY <1>5, <1>12, <1>13, <2>1, <2>2
<1>15. \A j \in E : j > i => ~Intersects(j, RelevantPaths(c, R, E, g))
  BY <1>11 DEF LaterMutation
<1> QED  BY <1>5, <1>7, <1>11, <1>14, <1>15 DEF CurrentRun

LEMMA PassStep ==
  ASSUME GovInv, [GovernanceNext]_governance, NEW e \in Evaluator, Decides(e)
  PROVE  EvidenceIsCurrent(e)
<1>1. Resolve(e) /\ Unchanged(e) /\ \E degraded \in BOOLEAN : ResultOf(e, degraded) = "pass"
  BY OnlyResolvePasses
<1>2. eval[e].stage = "digest" /\ eval[e].seq = Len(events) /\ Sound(e)
  BY <1>1 DEF Resolve, Unchanged, GovInv, Evaluated
<1>3. eval[e] \in EvalType(eval[e].digests) /\ Watched(e)
  BY <1>2 DEF Sound, Decides
<1>4. PICK E, R, c : E = Seen(e) /\ E = SessionEvents(eval[e].session, Len(events))
                     /\ R = eval[e].rules /\ c = eval[e].config
  BY <1>2 DEF Seen
<1>5. events \in Seq(EventType) /\ Len(events) \in Nat /\ E \in SUBSET (1 .. Len(events))
  BY <1>4 DEF GovInv, Recorded, SessionEvents
<1>6. R \in SUBSET ObservedType /\ \A r \in R : r.mark \in 0 .. Len(events) /\ mark[r.rule][r.revision] = r.mark
  BY <1>2, <1>3, <1>4, <1>5 DEF EvalType, Watched, ObservedType
<1>7. /\ Applicable(R, E) # {} /\ {StateOf(e, g) : g \in Owed(e)} # {}
      /\ "missing" \notin {StateOf(e, g) : g \in Owed(e)} /\ "non_pass" \notin {StateOf(e, g) : g \in Owed(e)}
      /\ {StateOf(e, g) : g \in Owed(e)} \cap {"stale_mutation", "stale_digest"} = {}
  BY <1>1, <1>4 DEF ResultOf, Precedence
<1>8. Owed(e) = RequiredGates(c, R, E)
  BY <1>4, <1>7 DEF Owed
<1>9. ASSUME NEW g \in Owed(e)
      PROVE  \E i \in E : \E run \in events[i].runs :
               /\ run.gate = g /\ run.config = c /\ run.result = "complete"
               /\ \A r \in Applicable(R, E) : mark[r.rule][r.revision] < i
               /\ run.digest = eval[e].digests[g]
               /\ \A j \in E : j > i => ~Intersects(j, RelevantPaths(c, R, E, g))
  <2>1. StateOf(e, g) = GateEvidence(c, R, E, g, eval[e].digests[g])
    BY <1>4 DEF StateOf
  <2>2. StateOf(e, g) \in {"missing", "non_pass", "stale_mutation", "stale_digest", "fresh_pass"}
    BY <1>5, <2>1, EvidenceKinds
  <2>3. StateOf(e, g) = "fresh_pass"
    BY <1>7, <2>2
  <2>4. \A r \in Applicable(R, E) : mark[r.rule][r.revision] = r.mark
    BY <1>6 DEF Applicable
  <2>5. PICK digest : digest = eval[e].digests[g]
    OBVIOUS
  <2>7. PICK n \in Nat : n = Len(events)
    BY <1>5
  <2>8. \A r \in R : r.mark \in 0 .. n
    BY <1>6, <2>7
  <2>6. CurrentRun(c, R, E, g, digest)
    BY <1>5, <1>6, <2>1, <2>3, <2>5, <2>8, FreshIsCurrent
  <2> QED  BY <2>4, <2>5, <2>6 DEF CurrentRun
<1> QED  BY <1>4, <1>7, <1>8, <1>9 DEF EvidenceIsCurrent

(* Whatever else is recorded, revised or evaluated at the same time, a       *)
(* session passes only on evidence that still holds when it is told so       *)
(* (shadow-verdict-store.ts).                                                *)
THEOREM PassesAreCurrent == GovernanceSpec => PassIsCurrent
<1>1. GovInv /\ [GovernanceNext]_governance =>
        [\A e \in Evaluator : Decides(e) => EvidenceIsCurrent(e)]_governance
  BY PassStep
<1> QED  BY <1>1, GovernanceInvariant, PTL DEF GovernanceSpec, PassIsCurrent

-----------------------------------------------------------------------------
(* The memory tool.                                                          *)

RowsTyped ==
  /\ rec \in [Id -> Row \cup {Missing}]
  /\ \A i \in Id : rec[i] # Missing => rec[i].written <= rec[i].revision

AgentsTyped == DOMAIN seen = Agent /\ DOMAIN frozen = Agent /\ DOMAIN behind = Agent

MemoryInv == RowsTyped /\ AgentsTyped /\ EditsMeetWhatWasSeen /\ JournalTellsPlace

LEMMA MemoryStarts == FilesInit => MemoryInv
BY DEF FilesInit, MemoryInv, RowsTyped, AgentsTyped, EditsMeetWhatWasSeen, NoLostUpdate, OwnEditsAreSeen,
       JournalTellsPlace, LiveRow, Journalled

-----------------------------------------------------------------------------
(* What a statement makes of a row.                                          *)

StaysPut(r, s) == s.place = r.place /\ s.active = r.active

LEMMA RowOf ==
  ASSUME RowsTyped, NEW i \in Id, rec[i] # Missing
  PROVE  /\ rec[i] \in Row /\ rec[i].place \in Place /\ rec[i].active \in BOOLEAN
         /\ rec[i].revision \in Nat /\ rec[i].written \in Nat /\ rec[i].written <= rec[i].revision
BY DEF RowsTyped, Row

LEMMA BumpedRow ==
  ASSUME NEW r \in Row, NEW n \in Nat, r.revision + n <= MaxRowRevision
  PROVE  Bump(r, n) \in Row /\ StaysPut(r, Bump(r, n)) /\ Bump(r, n).revision = r.revision + n /\ Bump(r, n).written = r.written
BY MemoryFilesAssumption DEF Row, Bump, StaysPut

LEMMA RewrittenRow ==
  ASSUME NEW r \in Row
  PROVE  /\ Rewritten(r) \in Row /\ StaysPut(r, Rewritten(r))
         /\ Rewritten(r).written = r.revision /\ Rewritten(r).revision = r.revision
BY DEF Row, Rewritten, StaysPut

LEMMA RetiredRow ==
  ASSUME NEW r \in Row, r.revision + 1 <= MaxRowRevision
  PROVE  Retired(r) \in Row /\ ~Retired(r).active /\ Retired(r).place = r.place /\ Retired(r).written = Retired(r).revision
<1>1. PICK s : s = [r EXCEPT !.active = FALSE]
  OBVIOUS
<1>2. s \in Row /\ ~s.active /\ s.place = r.place /\ s.revision = r.revision
  BY <1>1 DEF Row
<1>3. PICK u : u = Bump(s, 1) /\ u \in Row /\ ~u.active /\ u.place = r.place
  BY <1>2, BumpedRow DEF StaysPut
<1> QED  BY <1>1, <1>3, RewrittenRow DEF Retired, StaysPut

LEMMA MovedRow ==
  ASSUME NEW r \in Row, NEW scope \in Scope, r.revision + 1 <= MaxRowRevision
  PROVE  /\ Moved(r, scope) \in Row /\ Moved(r, scope).active = r.active
         /\ Moved(r, scope).place = <<scope, r.place[2]>> /\ Moved(r, scope).written = Moved(r, scope).revision
<1>1. PICK s : s = [r EXCEPT !.place = <<scope, @[2]>>]
  OBVIOUS
<1>2. r.place \in Place /\ <<scope, r.place[2]>> \in Place
  BY DEF Row, Place
<1>3. s \in Row /\ s.active = r.active /\ s.place = <<scope, r.place[2]>> /\ s.revision = r.revision
  BY <1>1, <1>2 DEF Row
<1>4. PICK u : u = Bump(s, 1) /\ u \in Row /\ u.active = r.active /\ u.place = <<scope, r.place[2]>>
  BY <1>3, BumpedRow DEF StaysPut
<1> QED  BY <1>1, <1>4, RewrittenRow DEF Moved, StaysPut

LEMMA EditedRow ==
  ASSUME NEW r \in Row, NEW e \in [text : Text, meta : Meta \cup {Unset}], r.revision + 2 <= MaxRowRevision
  PROVE  \/ Edited(r, e) = r
         \/ Edited(r, e) \in Row /\ StaysPut(r, Edited(r, e)) /\ Edited(r, e).written = Edited(r, e).revision
<1>1. PICK s : s = [r EXCEPT !.text = e.text, !.meta = IF e.meta = Unset THEN @ ELSE e.meta]
  OBVIOUS
<1>2. s \in Row /\ StaysPut(r, s) /\ s.revision = r.revision
  BY <1>1 DEF Row, StaysPut
<1>3. PICK n \in 0 .. 2 : n = Statements(r, e)
  BY DEF Statements
<1>4. s.revision + n <= MaxRowRevision /\ n \in Nat
  BY <1>2, <1>3, MemoryFilesAssumption DEF Row
<1>5. n = 0 \/ Edited(r, e) = Rewritten(Bump(s, n))
  BY <1>1, <1>3 DEF Edited
<1>6. n = 0 => Edited(r, e) = r
  BY <1>3 DEF Edited
<1> QED  BY <1>2, <1>4, <1>5, <1>6, BumpedRow, RewrittenRow DEF StaysPut

LEMMA NewRowTyped ==
  ASSUME NEW place \in Place, NEW b \in [text : Text, meta : Meta \cup {Garbled}]
  PROVE  LET r == NewRow(place, b) IN r \in Row /\ r.active /\ r.place = place /\ r.written = r.revision
BY MemoryFilesAssumption DEF NewRow, Row

-----------------------------------------------------------------------------
(* A statement journals the rows it writes, and where they were.             *)
LEMMA JournalStep ==
  ASSUME RowsTyped, JournalTellsPlace, NEW after, NEW upserts \in SUBSET Id, NEW tombstones \in SUBSET Id,
         rec' = after, after \in [Id -> Row \cup {Missing}], JournalChange(after, upserts, tombstones),
         \A i \in upserts : after[i] # Missing /\ after[i].active /\ after[i].written <= after[i].revision,
         \A i \in upserts \ tombstones : rec[i] = Missing \/ rec[i].place = after[i].place,
         \A i \in tombstones \ upserts : after[i] = Missing \/ ~after[i].active \/ after[i].place[1] \notin Project,
         \A i \in Id \ (upserts \cup tombstones) :
           after[i] = rec[i] \/ (rec[i] # Missing /\ after[i] # Missing /\ StaysPut(rec[i], after[i]) /\ after[i].written = rec[i].written)
  PROVE  JournalTellsPlace'
<1> SUFFICES ASSUME NEW p \in Project, NEW i \in Id
             PROVE  IF LiveRow(i)' /\ Journalled(after[i], p)
                    THEN journal'[<<p, i>>] # Missing /\ journal'[<<p, i>>].op = "upsert" /\ journal'[<<p, i>>].revision >= after[i].written
                    ELSE journal'[<<p, i>>] # Missing => journal'[<<p, i>>].op = "tombstone"
  BY DEF JournalTellsPlace
<1>1. journal'[<<p, i>>] =
        IF i \in upserts /\ Journalled(after[i], p) THEN [op |-> "upsert", revision |-> after[i].revision]
        ELSE IF i \in tombstones /\ Journalled(rec[i], p) THEN [op |-> "tombstone", revision |-> rec[i].revision]
        ELSE journal[<<p, i>>]
  BY DEF JournalChange, UpsertRevision
<1>2. IF LiveRow(i) /\ Journalled(rec[i], p)
      THEN journal[<<p, i>>] # Missing /\ journal[<<p, i>>].op = "upsert" /\ journal[<<p, i>>].revision >= rec[i].written
      ELSE journal[<<p, i>>] # Missing => journal[<<p, i>>].op = "tombstone"
  BY DEF JournalTellsPlace
<1>3. LiveRow(i)' <=> after[i] # Missing /\ after[i].active
  BY DEF LiveRow
<1>4. CASE i \in upserts /\ Journalled(after[i], p)
  <2>1. PICK e : e = journal'[<<p, i>>] /\ e = [op |-> "upsert", revision |-> after[i].revision]
    BY <1>1, <1>4
  <2>2. e \in JournalEntry
    BY <1>4, <2>1 DEF JournalEntry, Row
  <2>3. e # Missing /\ e.op = "upsert" /\ e.revision >= after[i].written
    BY <1>4, <2>1, <2>2, MemoryFilesAssumption DEF Row
  <2> QED  BY <1>3, <1>4, <2>1, <2>3
<1>5. CASE ~(i \in upserts /\ Journalled(after[i], p)) /\ i \in tombstones /\ Journalled(rec[i], p)
  BY <1>1, <1>3, <1>5 DEF Journalled
<1>6. CASE i \in upserts \cup tombstones /\ ~(i \in upserts /\ Journalled(after[i], p)) /\ ~(i \in tombstones /\ Journalled(rec[i], p))
  <2>1. ~Journalled(rec[i], p) \/ ~LiveRow(i)
    BY <1>6 DEF Journalled, LiveRow
  <2>2. ~(LiveRow(i)' /\ Journalled(after[i], p))
    BY <1>3, <1>6 DEF Journalled
  <2> QED  BY <1>1, <1>2, <1>6, <2>1, <2>2
<1>7. CASE i \in Id \ (upserts \cup tombstones)
  <2>1. journal'[<<p, i>>] = journal[<<p, i>>]
    BY <1>1, <1>7
  <2>2. (LiveRow(i)' <=> LiveRow(i)) /\ (LiveRow(i) => (Journalled(after[i], p) <=> Journalled(rec[i], p)) /\ after[i].written = rec[i].written)
    BY <1>3, <1>7 DEF StaysPut, LiveRow, Journalled
  <2> QED  BY <1>2, <2>1, <2>2
<1> QED  BY <1>4, <1>5, <1>6, <1>7

-----------------------------------------------------------------------------
(* What a command freezes and drops.                                         *)

LEMMA TouchedWithin ==
  ASSUME NEW after, NEW S, \A i \in Id : after[i] = rec[i] \/ ((rec[i] = Missing \/ rec[i].place \in S) /\ (after[i] = Missing \/ after[i].place \in S))
  PROVE  Touched(after) \subseteq S
<1>1. ASSUME NEW f \in Touched(after) PROVE f \in S
  <2>1. PICK i \in Id : after[i] # rec[i] /\ \E store \in {rec, after} : store[i] # Missing /\ store[i].place = f
    BY <1>1 DEF Touched, Changed
  <2> QED  BY <2>1
<1> QED  BY <1>1

LEMMA CommitStep ==
  ASSUME AgentsTyped, OwnEditsAreSeen, NEW a \in Agent, NEW after, NEW stale, NEW fresh, Commit(a, after, stale, fresh),
         Touched(after) \subseteq stale \cup fresh
  PROVE  OwnEditsAreSeen' /\ DOMAIN frozen' = Agent /\ DOMAIN behind' = Agent /\ rec' = after
<1>1. behind' = [behind EXCEPT ![a] = {f \in (@ \cup Touched(after)) \ fresh : frozen'[a][f] # Missing}]
  BY DEF Commit
<1>2. DOMAIN frozen' = Agent /\ DOMAIN behind' = Agent /\ rec' = after
  BY DEF Commit, AgentsTyped
<1>3. frozen'[a] = [f \in File |-> IF f \in fresh THEN Rendering(after, f) ELSE IF f \in stale THEN Missing ELSE frozen[a][f]]
  BY DEF Commit, AgentsTyped
<1>4. Touched(after) \subseteq File
  BY DEF Touched
<1>5. behind'[a] = {}
  BY <1>1, <1>3, <1>4 DEF AgentsTyped, OwnEditsAreSeen
<1> QED  BY <1>1, <1>2, <1>5 DEF AgentsTyped, OwnEditsAreSeen

(* The steps that write no row.                                              *)
LEMMA NoWrite ==
  ASSUME MemoryInv, UNCHANGED <<rec, journal, lost>>, OwnEditsAreSeen', DOMAIN frozen' = Agent, DOMAIN behind' = Agent,
         DOMAIN seen' = Agent
  PROVE  MemoryInv'
BY DEF MemoryInv, RowsTyped, AgentsTyped, EditsMeetWhatWasSeen, NoLostUpdate, JournalTellsPlace, LiveRow, Journalled

LEMMA ViewStep ==
  ASSUME MemoryInv, NEW a \in Agent, NEW f \in File, NEW ranged \in BOOLEAN, View(a, f, ranged)
  PROVE  MemoryInv'
<1>1. DOMAIN frozen' = Agent /\ DOMAIN behind' = Agent /\ DOMAIN seen' = Agent
  BY DEF View, MemoryInv, AgentsTyped
<1>2. OwnEditsAreSeen'
  BY DEF View, MemoryInv, AgentsTyped, EditsMeetWhatWasSeen, OwnEditsAreSeen
<1>3. UNCHANGED <<rec, journal, lost>>
  BY DEF View
<1> QED  BY <1>1, <1>2, <1>3, NoWrite

LEMMA EvictStep ==
  ASSUME MemoryInv, NEW a \in Agent, NEW f \in File, Evict(a, f)
  PROVE  MemoryInv'
<1>1. DOMAIN frozen' = Agent /\ DOMAIN behind' = Agent /\ DOMAIN seen' = Agent
  BY DEF Evict, MemoryInv, AgentsTyped
<1>2. OwnEditsAreSeen'
  BY DEF Evict, MemoryInv, AgentsTyped, EditsMeetWhatWasSeen, OwnEditsAreSeen
<1>3. UNCHANGED <<rec, journal, lost>>
  BY DEF Evict
<1> QED  BY <1>1, <1>2, <1>3, NoWrite

LEMMA NothingTouched == Touched(rec) = {}
BY DEF Touched, Changed

LEMMA ListStep ==
  ASSUME MemoryInv, NEW a \in Agent, NEW scopes, List(a, scopes)
  PROVE  MemoryInv'
<1>1. PICK listed : Commit(a, rec, {}, listed)
  BY DEF List
<1>2. UNCHANGED <<journal, seen, lost>>
  BY DEF List
<1> QED  BY <1>1, <1>2, CommitStep, NothingTouched, NoWrite DEF MemoryInv, AgentsTyped, EditsMeetWhatWasSeen

-----------------------------------------------------------------------------
(* The steps that write rows.                                                *)

Sequel(after) ==
  /\ after \in [Id -> Row \cup {Missing}]
  /\ \A i \in Id : after[i] # rec[i] => after[i] # Missing /\ after[i].written <= after[i].revision

LEMMA RowsStep ==
  ASSUME RowsTyped, NEW after, Sequel(after), rec' = after
  PROVE  RowsTyped'
BY DEF RowsTyped, Sequel

LEMMA InsertedRows ==
  ASSUME MemoryInv, NEW f \in File, NEW blocks \in NewBlocks, NEW after, after = Inserted(blocks, f), rec' = after,
         JournalChange(after, DOMAIN blocks, {})
  PROVE  Sequel(after) /\ JournalTellsPlace' /\ Touched(after) \subseteq {f}
<1>1. PICK ids \in SUBSET Unused : blocks \in [ids -> Fresh]
  BY DEF NewBlocks
<1>2. f \in Place
  BY DEF File, Place
<1>3. ids \subseteq Id /\ DOMAIN blocks = ids /\ \A i \in ids : rec[i] = Missing
  BY <1>1 DEF Unused
<1>4. \A i \in ids : /\ after[i] = NewRow(f, blocks[i]) /\ after[i] \in Row /\ after[i] # Missing
                     /\ after[i].active /\ after[i].place = f /\ after[i].written = after[i].revision /\ after[i].written \in Nat
  <2> SUFFICES ASSUME NEW i \in ids PROVE /\ after[i] = NewRow(f, blocks[i]) /\ after[i] \in Row /\ after[i] # Missing
                     /\ after[i].active /\ after[i].place = f /\ after[i].written = after[i].revision /\ after[i].written \in Nat
    OBVIOUS
  <2>1. after[i] = NewRow(f, blocks[i]) /\ blocks[i] \in [text : Text, meta : Meta \cup {Garbled}]
    BY <1>1, <1>3 DEF Inserted, Fresh
  <2> QED  BY <1>2, <2>1, NewRowTyped, MemoryFilesAssumption DEF Row
<1>5. \A i \in Id \ ids : after[i] = rec[i]
  BY <1>3 DEF Inserted
<1>6. after \in [Id -> Row \cup {Missing}]
  <2>1. after = [i \in Id |-> after[i]]
    BY DEF Inserted
  <2> QED  BY <1>4, <1>5, <2>1 DEF MemoryInv, RowsTyped
<1>7. Sequel(after)
  BY <1>4, <1>5, <1>6 DEF Sequel
<1>8. JournalTellsPlace'
  BY <1>3, <1>4, <1>5, <1>6, JournalStep DEF MemoryInv
<1>9. Touched(after) \subseteq {f}
  <2>1. \A i \in Id : after[i] = rec[i] \/ ((rec[i] = Missing \/ rec[i].place \in {f}) /\ (after[i] = Missing \/ after[i].place \in {f}))
    BY <1>3, <1>4, <1>5
  <2> QED  BY <2>1, TouchedWithin
<1> QED  BY <1>7, <1>8, <1>9

LEMMA CreateStep ==
  ASSUME MemoryInv, NEW a \in Agent, NEW f \in File, Create(a, f)
  PROVE  MemoryInv'
<1>1. PICK blocks \in NewBlocks : Commit(a, Inserted(blocks, f), {f}, {}) /\ JournalChange(rec', DOMAIN blocks, {})
  BY DEF Create
<1>2. PICK after : after = Inserted(blocks, f) /\ rec' = after
  BY <1>1 DEF Commit
<1>3. UNCHANGED <<seen, lost>>
  BY DEF Create
<1>4. Sequel(after) /\ JournalTellsPlace' /\ Touched(after) \subseteq {f}
  BY <1>1, <1>2, InsertedRows
<1>5. OwnEditsAreSeen' /\ DOMAIN frozen' = Agent /\ DOMAIN behind' = Agent
  BY <1>1, <1>2, <1>4, CommitStep DEF MemoryInv, EditsMeetWhatWasSeen
<1> QED  BY <1>2, <1>3, <1>4, <1>5, RowsStep DEF MemoryInv, AgentsTyped, EditsMeetWhatWasSeen, NoLostUpdate

LEMMA InsertStep ==
  ASSUME MemoryInv, NEW a \in Agent, NEW f \in File, Insert(a, f)
  PROVE  MemoryInv'
<1>1. PICK blocks \in NewBlocks :
        \/ Commit(a, Inserted(blocks, f), {f}, {}) /\ JournalChange(rec', DOMAIN blocks, {})
        \/ Commit(a, rec, {}, {f}) /\ UNCHANGED journal
  BY DEF Insert
<1>2. UNCHANGED <<seen, lost>>
  BY DEF Insert
<1>3. CASE Commit(a, rec, {}, {f}) /\ UNCHANGED journal
  BY <1>2, <1>3, CommitStep, NothingTouched, NoWrite DEF MemoryInv, AgentsTyped, EditsMeetWhatWasSeen
<1>4. CASE Commit(a, Inserted(blocks, f), {f}, {}) /\ JournalChange(rec', DOMAIN blocks, {})
  <2>1. PICK after : after = Inserted(blocks, f) /\ rec' = after
    BY <1>4 DEF Commit
  <2>2. Sequel(after) /\ JournalTellsPlace' /\ Touched(after) \subseteq {f}
    BY <1>4, <2>1, InsertedRows
  <2>3. OwnEditsAreSeen' /\ DOMAIN frozen' = Agent /\ DOMAIN behind' = Agent
    BY <1>4, <2>1, <2>2, CommitStep DEF MemoryInv, EditsMeetWhatWasSeen
  <2> QED  BY <1>2, <2>1, <2>2, <2>3, RowsStep DEF MemoryInv, AgentsTyped, EditsMeetWhatWasSeen, NoLostUpdate
<1> QED  BY <1>1, <1>3, <1>4

LEMMA ActiveRow ==
  ASSUME RowsTyped, NEW f, NEW i \in Active(rec, f)
  PROVE  i \in Id /\ rec[i] # Missing /\ rec[i] \in Row /\ rec[i].active /\ rec[i].place = f
BY DEF Active, RowsTyped

LEMMA RetireStep ==
  ASSUME MemoryInv, NEW a \in Agent, NEW rows, NEW stale, NEW S \in SUBSET File,
         rows = UNION {Active(rec, f) : f \in S}, S \subseteq stale, Retire(a, rows, stale)
  PROVE  MemoryInv'
<1> DEFINE after == [i \in Id |-> IF i \in rows THEN Retired(rec[i]) ELSE rec[i]]
<1>1. /\ HasRoom(rows, 1) /\ Commit(a, after, stale, {}) /\ rec' = after /\ UNCHANGED <<seen, lost>>
      /\ JournalChange(after, {}, rows)
  BY DEF Retire, Commit
<1>2. \A i \in rows : i \in Id /\ rec[i] # Missing /\ rec[i] \in Row /\ rec[i].active /\ rec[i].place \in S
  BY ActiveRow DEF MemoryInv
<1>3. \A i \in rows : /\ after[i] \in Row /\ after[i] # Missing /\ ~after[i].active /\ after[i].place = rec[i].place
                      /\ after[i].written = after[i].revision /\ after[i].written \in Nat
  <2> SUFFICES ASSUME NEW i \in rows
               PROVE  /\ after[i] \in Row /\ after[i] # Missing /\ ~after[i].active /\ after[i].place = rec[i].place
                      /\ after[i].written = after[i].revision /\ after[i].written \in Nat
    OBVIOUS
  <2>1. rec[i] \in Row /\ rec[i].revision + 1 <= MaxRowRevision /\ after[i] = Retired(rec[i])
    BY <1>1, <1>2 DEF HasRoom
  <2> HIDE DEF after
  <2> QED  BY <2>1, RetiredRow, MemoryFilesAssumption DEF Row
<1>4. (\A i \in Id \ rows : after[i] = rec[i]) /\ after = [i \in Id |-> after[i]]
  OBVIOUS
<1> HIDE DEF after
<1>5. Sequel(after)
  <2>1. rows \subseteq Id /\ \A i \in Id \ rows : after[i] \in Row \cup {Missing}
    BY <1>2, <1>4 DEF MemoryInv, RowsTyped
  <2>2. \A i \in Id : after[i] \in Row \cup {Missing}
    BY <1>3, <2>1
  <2>3. after \in [Id -> Row \cup {Missing}]
    BY <1>4, <2>2
  <2>4. \A i \in Id : after[i] # rec[i] => after[i] # Missing /\ after[i].written <= after[i].revision
    BY <1>3, <1>4
  <2> QED  BY <2>3, <2>4 DEF Sequel
<1>6. JournalTellsPlace'
  <2>1. rows \in SUBSET Id /\ after \in [Id -> Row \cup {Missing}]
    BY <1>2, <1>5 DEF Sequel
  <2>2. \A i \in rows \ {} : after[i] = Missing \/ ~after[i].active \/ after[i].place[1] \notin Project
    BY <1>3
  <2>3. \A i \in Id \ ({} \cup rows) : after[i] = rec[i]
    BY <1>4
  <2> QED  BY <1>1, <2>1, <2>2, <2>3, JournalStep DEF MemoryInv
<1>7. Touched(after) \subseteq S
  <2>1. \A i \in Id : after[i] = rec[i] \/ ((rec[i] = Missing \/ rec[i].place \in S) /\ (after[i] = Missing \/ after[i].place \in S))
    BY <1>2, <1>3, <1>4
  <2> QED  BY <2>1, TouchedWithin
<1>8. OwnEditsAreSeen' /\ DOMAIN frozen' = Agent /\ DOMAIN behind' = Agent
  BY <1>1, <1>7, CommitStep DEF MemoryInv, EditsMeetWhatWasSeen
<1> QED  BY <1>1, <1>5, <1>6, <1>8, RowsStep DEF MemoryInv, AgentsTyped, EditsMeetWhatWasSeen, NoLostUpdate

LEMMA DeleteStep ==
  ASSUME MemoryInv, NEW a \in Agent, NEW f \in File, Delete(a, f)
  PROVE  MemoryInv'
<1>1. Active(rec, f) = UNION {Active(rec, h) : h \in {f}}
  OBVIOUS
<1> QED  BY <1>1, RetireStep DEF Delete

LEMMA DeleteDirectoryStep ==
  ASSUME MemoryInv, NEW a \in Agent, NEW scope \in Scope, DeleteDirectory(a, scope)
  PROVE  MemoryInv'
<1>1. PICK rows : rows = UNION {Active(rec, <<scope, c>>) : c \in Category} /\ Retire(a, rows, File)
  BY DEF DeleteDirectory
<1>2. PICK S : S = {<<scope, c>> : c \in Category}
  OBVIOUS
<1>3. S \in SUBSET File
  BY <1>2 DEF File
<1>4. rows = UNION {Active(rec, f) : f \in S}
  <2>1. \A i : i \in rows <=> \E c \in Category : i \in Active(rec, <<scope, c>>)
    BY <1>1
  <2>2. \A i : (\E f \in S : i \in Active(rec, f)) <=> \E c \in Category : i \in Active(rec, <<scope, c>>)
    BY <1>2
  <2> QED  BY <2>1, <2>2
<1> QED  BY <1>1, <1>3, <1>4, RetireStep

LEMMA RenameStep ==
  ASSUME MemoryInv, NEW a \in Agent, NEW f \in File, NEW g \in File, Rename(a, f, g)
  PROVE  MemoryInv'
<1> DEFINE rows == Active(rec, f)
           after == [i \in Id |-> IF i \in rows THEN Moved(rec[i], g[1]) ELSE rec[i]]
<1>1. /\ HasRoom(rows, 1) /\ Commit(a, after, {f, g}, {}) /\ rec' = after /\ UNCHANGED <<seen, lost>>
      /\ JournalChange(after, rows, rows) /\ f[2] = g[2]
  BY DEF Rename, Commit
<1>2. \A i \in rows : i \in Id /\ rec[i] # Missing /\ rec[i] \in Row /\ rec[i].active /\ rec[i].place = f
  BY ActiveRow DEF MemoryInv
<1>3. g[1] \in Scope /\ <<g[1], f[2]>> = g
  BY <1>1 DEF File
<1>4. \A i \in rows : /\ after[i] \in Row /\ after[i] # Missing /\ after[i].active /\ after[i].place = g
                      /\ after[i].written = after[i].revision /\ after[i].written \in Nat
  <2> SUFFICES ASSUME NEW i \in rows
               PROVE  /\ after[i] \in Row /\ after[i] # Missing /\ after[i].active /\ after[i].place = g
                      /\ after[i].written = after[i].revision /\ after[i].written \in Nat
    OBVIOUS
  <2>1. rec[i] \in Row /\ rec[i].revision + 1 <= MaxRowRevision /\ after[i] = Moved(rec[i], g[1]) /\ rec[i].active /\ rec[i].place = f
    BY <1>1, <1>2 DEF HasRoom
  <2> HIDE DEF after, rows
  <2> QED  BY <1>3, <2>1, MovedRow, MemoryFilesAssumption DEF Row
<1>5. (\A i \in Id \ rows : after[i] = rec[i]) /\ after = [i \in Id |-> after[i]]
  OBVIOUS
<1> HIDE DEF after, rows
<1>6. Sequel(after)
  BY <1>2, <1>4, <1>5 DEF Sequel, MemoryInv, RowsTyped
<1>7. JournalTellsPlace'
  BY <1>1, <1>2, <1>4, <1>5, <1>6, JournalStep DEF MemoryInv, Sequel
<1>8. Touched(after) \subseteq {f, g}
  <2>1. \A i \in Id : after[i] = rec[i] \/ ((rec[i] = Missing \/ rec[i].place \in {f, g}) /\ (after[i] = Missing \/ after[i].place \in {f, g}))
    BY <1>2, <1>4, <1>5
  <2> QED  BY <2>1, TouchedWithin
<1>9. OwnEditsAreSeen' /\ DOMAIN frozen' = Agent /\ DOMAIN behind' = Agent
  BY <1>1, <1>8, CommitStep DEF MemoryInv, EditsMeetWhatWasSeen
<1> QED  BY <1>1, <1>6, <1>7, <1>9, RowsStep DEF MemoryInv, AgentsTyped, EditsMeetWhatWasSeen, NoLostUpdate

-----------------------------------------------------------------------------
(* Everyone else writes one row.                                             *)
LEMMA OthersStep ==
  ASSUME MemoryInv, NEW i \in Id, NEW r \in Row, NEW upserts \in SUBSET {i}, NEW tombstones \in SUBSET {i},
         Others([rec EXCEPT ![i] = r], upserts, tombstones), r.written <= r.revision,
         i \in upserts => r.active /\ (rec[i] = Missing \/ rec[i].place = r.place),
         i \in tombstones => i \notin upserts /\ (~r.active \/ r.place[1] \notin Project),
         i \notin upserts \cup tombstones => rec[i] # Missing /\ StaysPut(rec[i], r) /\ r.written = rec[i].written
  PROVE  MemoryInv'
<1>1. PICK after : after = [rec EXCEPT ![i] = r]
  OBVIOUS
<1>2. after[i] = r /\ r # Missing /\ after \in [Id -> Row \cup {Missing}] /\ \A j \in Id \ {i} : after[j] = rec[j]
  BY <1>1, MemoryFilesAssumption DEF MemoryInv, RowsTyped
<1>3. rec' = after /\ JournalChange(after, upserts, tombstones) /\ UNCHANGED <<files, frozen, seen, behind, lost>>
  BY <1>1 DEF Others
<1>4. Sequel(after)
  BY <1>2 DEF Sequel
<1>5. JournalTellsPlace'
  <2>1. /\ \A j \in upserts : after[j] # Missing /\ after[j].active /\ after[j].written <= after[j].revision
        /\ \A j \in upserts \ tombstones : rec[j] = Missing \/ rec[j].place = after[j].place
        /\ \A j \in tombstones \ upserts : after[j] = Missing \/ ~after[j].active \/ after[j].place[1] \notin Project
    BY <1>2
  <2>2. \A j \in Id \ (upserts \cup tombstones) :
           after[j] = rec[j] \/ (rec[j] # Missing /\ after[j] # Missing /\ StaysPut(rec[j], after[j]) /\ after[j].written = rec[j].written)
    BY <1>2
  <2>3. upserts \in SUBSET Id /\ tombstones \in SUBSET Id
    OBVIOUS
  <2> QED  BY <1>2, <1>3, <2>1, <2>2, <2>3, JournalStep DEF MemoryInv
<1> QED  BY <1>3, <1>4, <1>5, RowsStep DEF MemoryInv, AgentsTyped, EditsMeetWhatWasSeen, NoLostUpdate, OwnEditsAreSeen

LEMMA OtherWriters ==
  ASSUME MemoryInv, NEW i \in Id,
         (\E place \in Place : Learn(i, place)) \/ Correct(i) \/ Forget(i) \/ Promote(i) \/ Reinforce(i)
  PROVE  MemoryInv'
<1>1. ASSUME NEW place \in Place, Learn(i, place) PROVE MemoryInv'
  <2>1. PICK b \in [text : Text, meta : Meta \cup {Garbled}] : rec[i] = Missing /\ Others([rec EXCEPT ![i] = NewRow(place, b)], {i}, {})
    BY <1>1 DEF Learn
  <2>2. PICK r : r = NewRow(place, b) /\ r \in Row /\ r.active /\ r.written <= r.revision
    BY NewRowTyped DEF Row
  <2> QED  BY <2>1, <2>2, OthersStep
<1>2. ASSUME LiveRow(i), HasRoom({i}, 1)
      PROVE  rec[i] \in Row /\ rec[i] # Missing /\ rec[i].active /\ rec[i].revision + 1 <= MaxRowRevision /\ rec[i].written <= rec[i].revision
             /\ rec[i].revision \in Nat /\ rec[i].written \in Nat
  BY <1>2, RowOf DEF LiveRow, HasRoom, MemoryInv
<1>3. ASSUME Correct(i) PROVE MemoryInv'
  <2>1. PICK t \in Text : LiveRow(i) /\ HasRoom({i}, 1) /\ Others([rec EXCEPT ![i] = Rewritten(Bump([@ EXCEPT !.text = t], 1))], {i}, {})
    BY <1>3 DEF Correct
  <2>2. PICK s : s = [rec[i] EXCEPT !.text = t]
    OBVIOUS
  <2>3. s \in Row /\ StaysPut(rec[i], s) /\ s.revision = rec[i].revision
    BY <1>2, <2>1, <2>2 DEF Row, StaysPut
  <2>4. PICK u : u = Bump(s, 1) /\ u \in Row /\ StaysPut(rec[i], u)
    BY <1>2, <2>1, <2>3, BumpedRow DEF StaysPut
  <2>5. PICK r : r = Rewritten(u) /\ r \in Row /\ StaysPut(rec[i], r) /\ r.written <= r.revision
    BY <2>4, RewrittenRow DEF StaysPut, Row
  <2>6. [rec EXCEPT ![i] = Rewritten(Bump([@ EXCEPT !.text = t], 1))] = [rec EXCEPT ![i] = r]
    BY <2>2, <2>4, <2>5
  <2> QED  BY <1>2, <2>1, <2>5, <2>6, OthersStep DEF StaysPut
<1>4. ASSUME Forget(i) PROVE MemoryInv'
  <2>1. LiveRow(i) /\ HasRoom({i}, 1) /\ Others([rec EXCEPT ![i] = Retired(rec[i])], {}, {i})
    BY <1>4 DEF Forget
  <2>2. PICK r : r = Retired(rec[i]) /\ r \in Row /\ ~r.active /\ r.written <= r.revision
    BY <1>2, <2>1, RetiredRow DEF Row
  <2>3. {} \in SUBSET {i} /\ {i} \in SUBSET {i} /\ i \notin {}
    OBVIOUS
  <2>4. Others([rec EXCEPT ![i] = r], {}, {i})
    BY <2>1, <2>2
  <2> QED  BY <2>2, <2>3, <2>4, OthersStep
<1>5. ASSUME Promote(i) PROVE MemoryInv'
  <2>1. LiveRow(i) /\ HasRoom({i}, 1) /\ Others([rec EXCEPT ![i] = Moved(rec[i], Global)], {}, {i})
    BY <1>5 DEF Promote
  <2>2. PICK r : r = Moved(rec[i], Global) /\ r \in Row /\ r.place[1] = Global /\ r.written <= r.revision
    BY <1>2, <2>1, MovedRow DEF Row, Scope
  <2>3. {} \in SUBSET {i} /\ {i} \in SUBSET {i} /\ r.place[1] \notin Project /\ i \in {i} /\ i \notin {}
    BY <2>2, MemoryFilesAssumption
  <2>4. Others([rec EXCEPT ![i] = r], {}, {i})
    BY <2>1, <2>2
  <2> QED  BY <2>2, <2>3, <2>4, OthersStep
<1>6. ASSUME Reinforce(i) PROVE MemoryInv'
  <2>1. LiveRow(i) /\ HasRoom({i}, 1) /\ Others([rec EXCEPT ![i] = Bump(rec[i], 1)], {}, {})
    BY <1>6 DEF Reinforce
  <2>2. PICK r : r = Bump(rec[i], 1) /\ r \in Row /\ StaysPut(rec[i], r) /\ r.written = rec[i].written /\ r.written <= r.revision
    BY <1>2, <2>1, BumpedRow
  <2>3. {} \in SUBSET {i} /\ i \notin {} /\ rec[i] # Missing
    BY <1>2, <2>1
  <2>4. Others([rec EXCEPT ![i] = r], {}, {})
    BY <2>1, <2>2
  <2> QED  BY <2>2, <2>3, <2>4, OthersStep
<1> QED  BY <1>1, <1>3, <1>4, <1>5, <1>6

-----------------------------------------------------------------------------
(* A str_replace writes the rows of the blocks it quotes, as they are shown. *)
LEMMA QuotedRow ==
  ASSUME RowsTyped, NEW f, NEW b, NEW i \in VerifyBlock(f, b)
  PROVE  /\ i \in Id /\ rec[i] # Missing /\ rec[i] \in Row /\ rec[i].active /\ rec[i].place = f
         /\ i \in b.prefix /\ b.revision = rec[i].revision /\ rec[i].written <= b.revision
<1>1. i \in Active(rec, f) /\ Block(rec, i) = b
  BY DEF VerifyBlock, Renderable
<1>2. i \in Id /\ rec[i] # Missing /\ rec[i] \in Row /\ rec[i].active /\ rec[i].place = f
  BY <1>1, ActiveRow
<1>3. i \in Prefix(rec, i)
  BY <1>2 DEF Prefix
<1>4. b.prefix = Prefix(rec, i) /\ b.revision = rec[i].revision
  BY <1>1 DEF Block
<1> QED  BY <1>2, <1>3, <1>4, RowOf

LEMMA ReplaceStep ==
  ASSUME MemoryInv, NEW a \in Agent, NEW f \in File, NEW old \in SUBSET seen[a], NEW blocks \in NewBlocks, NEW early \in BOOLEAN,
         NEW kept \in SUBSET old, NEW edit \in [kept -> [text : Text, meta : Meta \cup {Unset}]],
         ReplaceBlocks(a, f, old, kept, edit, blocks, early)
  PROVE  MemoryInv'
<1> DEFINE row(b) == CHOOSE i \in VerifyBlock(f, b) : TRUE
           edits == [i \in {row(b) : b \in kept} |-> edit[CHOOSE b \in kept : row(b) = i]]
           dropped == {row(b) : b \in old \ kept}
           edited == [i \in Id |-> IF i \in DOMAIN edits THEN Edited(rec[i], edits[i]) ELSE rec[i]]
           after == [i \in Id |-> IF i \in dropped THEN Retired(rec[i])
                                  ELSE IF i \in DOMAIN blocks THEN NewRow(f, blocks[i]) ELSE edited[i]]
<1>2. /\ \A b \in old : VerifyBlock(f, b) # {}
      /\ HasRoom(DOMAIN edits, 2) /\ HasRoom(dropped, 1)
      /\ Commit(a, after, {f}, {f}) /\ rec' = after
      /\ JournalChange(after, (Changed(after) \ dropped), dropped)
      /\ seen' = IF Rendering(after, f) = {} THEN seen ELSE [seen EXCEPT ![a] = Rendering(after, f)]
      /\ lost' = {i \in Changed(after) \ DOMAIN blocks :
                    \A b \in seen[a] : i \notin b.prefix \/ b.revision < rec[i].written}
  <2> HIDE DEF after, dropped, edits, edited, row
  <2> QED  BY DEF ReplaceBlocks, Commit, after, dropped, edits, edited, row
<1>3. PICK ids \in SUBSET Unused : blocks \in [ids -> Fresh]
  BY DEF NewBlocks
<1>4. ids \subseteq Id /\ DOMAIN blocks = ids /\ \A i \in ids : rec[i] = Missing
  BY <1>3 DEF Unused
<1>5. \A b \in old : row(b) \in VerifyBlock(f, b)
  BY <1>2
<1>6. DOMAIN edits = {row(b) : b \in kept} /\ \A i \in DOMAIN edits : edits[i] \in [text : Text, meta : Meta \cup {Unset}]
  OBVIOUS
<1>7. \A i \in dropped \cup DOMAIN edits :
        /\ i \in Id /\ rec[i] # Missing /\ rec[i] \in Row /\ rec[i].active /\ rec[i].place = f
        /\ \E b \in seen[a] : i \in b.prefix /\ rec[i].written <= b.revision /\ b.revision = rec[i].revision
  <2> SUFFICES ASSUME NEW i \in dropped \cup DOMAIN edits
               PROVE /\ i \in Id /\ rec[i] # Missing /\ rec[i] \in Row /\ rec[i].active /\ rec[i].place = f
                     /\ \E b \in seen[a] : i \in b.prefix /\ rec[i].written <= b.revision /\ b.revision = rec[i].revision
    OBVIOUS
  <2>1. PICK b \in old : i = row(b)
    BY <1>6
  <2>2. i \in VerifyBlock(f, b) /\ b \in seen[a]
    BY <1>5, <2>1
  <2> HIDE DEF row, edits, dropped
  <2> QED  BY <2>2, QuotedRow DEF MemoryInv
<1>8. \A i \in dropped : after[i] = Retired(rec[i])
  BY <1>7
<1>9. \A i \in ids : after[i] = NewRow(f, blocks[i]) /\ i \notin dropped /\ i \notin DOMAIN edits
  BY <1>4, <1>7
<1>10. \A i \in DOMAIN edits \ dropped : after[i] = Edited(rec[i], edits[i])
  BY <1>4, <1>7
<1>11. (\A i \in Id \ (dropped \cup ids \cup DOMAIN edits) : after[i] = rec[i]) /\ after = [i \in Id |-> after[i]]
  BY <1>4
<1> HIDE DEF after, dropped, edits, row
<1>12. \A i \in dropped : /\ after[i] \in Row /\ after[i] # Missing /\ ~after[i].active /\ after[i].place = f
                          /\ after[i].written = after[i].revision /\ after[i].written \in Nat
  <2> SUFFICES ASSUME NEW i \in dropped
               PROVE  /\ after[i] \in Row /\ after[i] # Missing /\ ~after[i].active /\ after[i].place = f
                      /\ after[i].written = after[i].revision /\ after[i].written \in Nat
    OBVIOUS
  <2>1. rec[i] \in Row /\ rec[i].revision + 1 <= MaxRowRevision /\ after[i] = Retired(rec[i]) /\ rec[i].place = f
    BY <1>2, <1>7, <1>8 DEF HasRoom
  <2> QED  BY <2>1, RetiredRow, MemoryFilesAssumption DEF Row
<1>13. \A i \in ids : /\ after[i] \in Row /\ after[i] # Missing /\ after[i].active /\ after[i].place = f
                      /\ after[i].written = after[i].revision /\ after[i].written \in Nat
  <2> SUFFICES ASSUME NEW i \in ids
               PROVE  /\ after[i] \in Row /\ after[i] # Missing /\ after[i].active /\ after[i].place = f
                      /\ after[i].written = after[i].revision /\ after[i].written \in Nat
    OBVIOUS
  <2>1. after[i] = NewRow(f, blocks[i]) /\ blocks[i] \in [text : Text, meta : Meta \cup {Garbled}] /\ f \in Place
    BY <1>3, <1>9 DEF Fresh, File, Place
  <2> QED  BY <2>1, NewRowTyped, MemoryFilesAssumption DEF Row
<1>14. \A i \in DOMAIN edits \ dropped :
         \/ after[i] = rec[i]
         \/ /\ after[i] \in Row /\ after[i] # Missing /\ after[i].active /\ after[i].place = f
            /\ after[i].written = after[i].revision /\ after[i].written \in Nat
  <2> SUFFICES ASSUME NEW i \in DOMAIN edits \ dropped, after[i] # rec[i]
               PROVE  /\ after[i] \in Row /\ after[i] # Missing /\ after[i].active /\ after[i].place = f
                      /\ after[i].written = after[i].revision /\ after[i].written \in Nat
    OBVIOUS
  <2>1. /\ rec[i] \in Row /\ rec[i].revision + 2 <= MaxRowRevision /\ after[i] = Edited(rec[i], edits[i])
        /\ rec[i].active /\ rec[i].place = f /\ edits[i] \in [text : Text, meta : Meta \cup {Unset}]
    BY <1>2, <1>6, <1>7, <1>10 DEF HasRoom
  <2> QED  BY <2>1, EditedRow, MemoryFilesAssumption DEF Row, StaysPut
<1>15. Sequel(after)
  <2>1. \A i \in Id : after[i] \in Row \cup {Missing}
    BY <1>11, <1>12, <1>13, <1>14 DEF MemoryInv, RowsTyped
  <2>2. after \in [Id -> Row \cup {Missing}]
    BY <1>11, <2>1
  <2>3. ASSUME NEW i \in Id, after[i] # rec[i] PROVE after[i] # Missing /\ after[i].written <= after[i].revision
    <3>1. i \in dropped \/ i \in ids \/ i \in DOMAIN edits \ dropped
      BY <1>11, <2>3
    <3>2. CASE i \in dropped
      BY <1>12, <3>2
    <3>3. CASE i \in ids
      BY <1>13, <3>3
    <3>4. CASE i \in DOMAIN edits \ dropped
      BY <1>14, <2>3, <3>4
    <3> QED  BY <3>1, <3>2, <3>3, <3>4
  <2> QED  BY <2>2, <2>3 DEF Sequel
<1>16. JournalTellsPlace'
  <2> DEFINE upserts == Changed(after) \ dropped
  <2>1. upserts \in SUBSET Id /\ dropped \in SUBSET Id
    BY <1>7 DEF Changed
  <2>2. \A i \in upserts : after[i] # Missing /\ after[i].active /\ after[i].written <= after[i].revision /\ (rec[i] = Missing \/ rec[i].place = after[i].place)
    <3> SUFFICES ASSUME NEW i \in upserts
                 PROVE  after[i] # Missing /\ after[i].active /\ after[i].written <= after[i].revision /\ (rec[i] = Missing \/ rec[i].place = after[i].place)
      OBVIOUS
    <3>1. i \in Id /\ after[i] # rec[i] /\ (i \in ids \/ i \in DOMAIN edits \ dropped)
      BY <1>11 DEF Changed
    <3>2. CASE i \in ids
      BY <1>4, <1>13, <3>2
    <3>3. CASE i \in DOMAIN edits \ dropped
      BY <1>7, <1>14, <3>1, <3>3
    <3> QED  BY <3>1, <3>2, <3>3
  <2>3. \A i \in dropped : after[i] = Missing \/ ~after[i].active \/ after[i].place[1] \notin Project
    BY <1>12
  <2>4. \A i \in Id \ (upserts \cup dropped) : after[i] = rec[i]
    BY DEF Changed
  <2>5. JournalChange(after, upserts, dropped) /\ rec' = after /\ after \in [Id -> Row \cup {Missing}]
    BY <1>2, <1>15 DEF Sequel
  <2> HIDE DEF upserts
  <2> QED  BY <2>1, <2>2, <2>3, <2>4, <2>5, JournalStep DEF MemoryInv
<1>17. OwnEditsAreSeen' /\ DOMAIN frozen' = Agent /\ DOMAIN behind' = Agent
  <2>1. \A i \in Id : after[i] = rec[i] \/ ((rec[i] = Missing \/ rec[i].place \in {f}) /\ (after[i] = Missing \/ after[i].place \in {f}))
    BY <1>4, <1>7, <1>11, <1>12, <1>13, <1>14
  <2>2. Touched(after) \subseteq {f}
    BY <2>1, TouchedWithin
  <2> QED  BY <1>2, <2>2, CommitStep DEF MemoryInv, EditsMeetWhatWasSeen
<1>18. NoLostUpdate'
  <2>1. ASSUME NEW i \in Changed(after) \ DOMAIN blocks
        PROVE  \E b \in seen[a] : i \in b.prefix /\ ~(b.revision < rec[i].written)
    <3>1. i \in dropped \cup DOMAIN edits
      BY <1>4, <1>11, <2>1 DEF Changed
    <3>2. PICK b \in seen[a] : i \in b.prefix /\ rec[i].written <= b.revision /\ b.revision = rec[i].revision /\ rec[i] \in Row
      BY <1>7, <3>1
    <3> QED  BY <3>2 DEF Row
  <2>2. lost' = {}
    BY <1>2, <2>1
  <2> QED  BY <2>2 DEF NoLostUpdate
<1>19. DOMAIN seen' = Agent
  BY <1>2 DEF MemoryInv, AgentsTyped
<1> QED  BY <1>2, <1>15, <1>16, <1>17, <1>18, <1>19, RowsStep DEF MemoryInv, AgentsTyped, EditsMeetWhatWasSeen

LEMMA StrReplaceStep ==
  ASSUME MemoryInv, NEW a \in Agent, NEW f \in File, StrReplace(a, f)
  PROVE  MemoryInv'
BY ReplaceStep DEF StrReplace

-----------------------------------------------------------------------------
LEMMA MemoryStep == MemoryInv /\ [FilesNext]_memoryFiles => MemoryInv'
<1> SUFFICES ASSUME MemoryInv, [FilesNext]_memoryFiles PROVE MemoryInv'
  OBVIOUS
<1>1. ASSUME NEW a \in Agent, NEW f \in File,
             \/ \E ranged \in BOOLEAN : View(a, f, ranged)
             \/ Create(a, f) \/ Insert(a, f) \/ StrReplace(a, f) \/ Delete(a, f) \/ Evict(a, f)
             \/ \E g \in File : Rename(a, f, g)
      PROVE  MemoryInv'
  BY <1>1, ViewStep, CreateStep, InsertStep, StrReplaceStep, DeleteStep, EvictStep, RenameStep
<1>2. ASSUME NEW a \in Agent,
             List(a, Scope) \/ \E scope \in Scope : List(a, {scope}) \/ DeleteDirectory(a, scope)
      PROVE  MemoryInv'
  BY <1>2, ListStep, DeleteDirectoryStep
<1>3. ASSUME UNCHANGED <<rec, journal, frozen, seen, behind, lost>> PROVE MemoryInv'
  BY <1>3, NoWrite DEF MemoryInv, AgentsTyped, EditsMeetWhatWasSeen, OwnEditsAreSeen
<1>4. ASSUME NEW p \in FreeFile, WriteFile(p) \/ DeleteFile(p) \/ \E q \in FreeFile : RenameFile(p, q) PROVE MemoryInv'
  BY <1>3, <1>4 DEF WriteFile, DeleteFile, RenameFile
<1>5. ASSUME NEW i \in Id,
             (\E place \in Place : Learn(i, place)) \/ Correct(i) \/ Forget(i) \/ Promote(i) \/ Reinforce(i)
      PROVE  MemoryInv'
  BY <1>5, OtherWriters
<1>6. CASE UNCHANGED memoryFiles
  BY <1>3, <1>6 DEF memoryFiles
<1> QED  BY <1>1, <1>2, <1>4, <1>5, <1>6 DEF FilesNext

(* For any agents, files, projects, ids that share a stem, and other writers: *)
(* a str_replace rewrites or drops only rows whose agent has seen their last  *)
(* change, and no frozen page outlives its agent's edits (cas.ts,             *)
(* verifyOldBlocks; render-cache.ts).                                         *)
THEOREM EditsMeetTheRows == FilesSpec => []EditsMeetWhatWasSeen
<1>1. MemoryInv => EditsMeetWhatWasSeen
  BY DEF MemoryInv
<1> QED  BY <1>1, MemoryStarts, MemoryStep, PTL DEF FilesSpec

(* In every project the newest journal entry of a row tells whether the row   *)
(* is there and at which revision or a later one it was last rewritten,       *)
(* through every command, move between scopes and retirement (journal.ts,     *)
(* journalUpsertsForIds and journalTombstonesForIds).                         *)
THEOREM JournalFollowsRows == FilesSpec => []JournalTellsPlace
<1>1. MemoryInv => JournalTellsPlace
  BY DEF MemoryInv
<1> QED  BY <1>1, MemoryStarts, MemoryStep, PTL DEF FilesSpec
=============================================================================
