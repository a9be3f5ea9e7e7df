---------------------------- MODULE OwnerRpcProofs ----------------------------
(***************************************************************************)
(* Proofs about the owner RPC.  The invariant that carries them: what a    *)
(* project's committed batches ran is its stream up to the cursor; an      *)
(* acknowledged or recorded request lies behind the cursor; and a delivery *)
(* in flight was sent when all that precedes it lay behind it.             *)
(***************************************************************************)
EXTENDS OwnerRpc, TLAPS

LEMMA RequestTyped ==
  ASSUME NEW q \in Request
  PROVE  /\ q.batch \in Batch /\ q.project \in RpcProject /\ q.events \in SUBSET Nat
         /\ q.events \subseteq Stream[q.project]
         /\ q.events \subseteq Nat \ {0}
BY RpcAssumption, EventsAssumption

(* The last event of a non-empty part of a request. *)
LEMMA LastOf ==
  ASSUME NEW q \in Request, NEW c \in Nat, NEW S, S = {e \in q.events : e > c}, S # {}
  PROVE  /\ Last(S) \in S
         /\ \A e \in S : e <= Last(S)
<1>1. PICK m \in q.events : \A f \in q.events : f <= m
  BY EventsAssumption
<1>2. m \in S
  <2>1. PICK e \in S : TRUE
    OBVIOUS
  <2>2. e \in Nat /\ m \in Nat /\ e > c /\ e <= m
    BY <1>1, <2>1, RequestTyped
  <2> QED BY <1>1, <2>2
<1>3. \A f \in S : f <= m
  BY <1>1
<1> QED BY <1>2, <1>3 DEF Last

-----------------------------------------------------------------------------
(* Deliveries.                                                               *)

LEMMA Kinds ==
  ASSUME RpcTypeOK, NEW d \in Delivery
  PROVE  /\ UnderWay(d) => delivery[d] \in InFlight
         /\ Answered(d) => delivery[d] \in Replies
<1>1. delivery[d] \in InFlight \cup Replies \cup {Nil}
  BY DEF RpcTypeOK
<1>2. delivery[d] \in InFlight => delivery[d].state = "trying"
  BY DEF InFlight
<1>3. delivery[d] \in Replies => delivery[d].state = "answered"
  BY DEF Replies
<1> QED BY <1>1, <1>2, <1>3 DEF UnderWay, Answered

LEMMA Constructed ==
  ASSUME NEW q \in Request, NEW n \in 1 .. BusyAttempts
  PROVE  /\ Trying(q, n) \in InFlight
         /\ \A a \in Answer : Replied(q, n, a) \in Replies
BY DEF Trying, Replied, InFlight, Replies

LEMMA Answers ==
  /\ \A r \in Result : Ok(r) \in Answer
  /\ \A c \in ErrorCode : Failed(c) \in Answer
BY DEF Ok, Failed, Answer

(* A reply keeps the table of deliveries well typed. *)
LEMMA ReplyTyped ==
  ASSUME RpcTypeOK, NEW d \in Delivery, UnderWay(d), NEW a \in Answer, Reply(d, a)
  PROVE  delivery' \in [Delivery -> InFlight \cup Replies \cup {Nil}]
<1>1. delivery[d] \in InFlight
  BY Kinds
<1>2. delivery[d].request \in Request /\ delivery[d].attempt \in 1 .. BusyAttempts
  BY <1>1 DEF InFlight
<1>3. Replied(delivery[d].request, delivery[d].attempt, a) \in Replies
  BY <1>2, Constructed
<1> QED BY <1>3 DEF RpcTypeOK, Reply

(* What one commit of delivery d writes, spelled out. *)
LEMMA Committed ==
  ASSUME RpcTypeOK, NEW d \in Delivery, CommitBatch(d),
         NEW q, q = delivery[d].request
  PROVE  LET p == q.project
             ran == NewEvents(q)
             result == [cursor |-> cursor'[p], generation |-> generation', ran |-> ran]
         IN  /\ q \in Request
             /\ p \in RpcProject /\ q.batch \in Batch
             /\ record[q.batch] = Nil
             /\ ran = {e \in q.events : e > cursor[p]}
             /\ cursor' = [cursor EXCEPT ![p] = IF ran = {} THEN cursor[p] ELSE Last(ran)]
             /\ cursor'[p] \in Nat /\ generation' \in Nat
             /\ result \in Result
             /\ record' = [record EXCEPT ![q.batch] = [request |-> q, result |-> result]]
             /\ log' = [log EXCEPT ![p] = Append(log[p], ran)]
             /\ Reply(d, Ok(result))
<1> DEFINE p == q.project
           ran == NewEvents(q)
           result == [cursor |-> cursor'[p], generation |-> generation', ran |-> ran]
<1>1. q \in Request
  BY Kinds DEF CommitBatch, InFlight
<1>2. p \in RpcProject /\ q.batch \in Batch /\ q.events \in SUBSET Nat
  BY <1>1, RequestTyped
<1>3. ran = {e \in q.events : e > cursor[p]}
  BY DEF NewEvents
<1>4. cursor' = [cursor EXCEPT ![p] = IF ran = {} THEN cursor[p] ELSE Last(ran)]
  BY DEF CommitBatch
<1>5. cursor[p] \in Nat /\ generation \in Nat
  BY <1>2 DEF RpcTypeOK
<1>6. ran # {} => Last(ran) \in Nat
  BY <1>1, <1>2, <1>3, <1>5, LastOf
<1>7. cursor'[p] \in Nat
  BY <1>2, <1>4, <1>5, <1>6 DEF RpcTypeOK
<1>8. generation' \in Nat
  BY <1>5 DEF CommitBatch
<1>9. ran \in SUBSET Nat
  BY <1>2, <1>3
<1>10. result \in Result
  BY <1>7, <1>8, <1>9 DEF Result
<1>11. record' = [record EXCEPT ![q.batch] = [request |-> q, result |-> result]]
  BY DEF CommitBatch
<1>12. Reply(d, Ok(result))
  <2>1. record'[q.batch].result = result
    BY <1>2, <1>11 DEF RpcTypeOK
  <2> QED BY <2>1 DEF CommitBatch
<1>13. record[q.batch] = Nil /\ log' = [log EXCEPT ![p] = Append(log[p], ran)]
  BY DEF CommitBatch
<1> QED BY <1>1, <1>2, <1>3, <1>4, <1>7, <1>8, <1>10, <1>11, <1>12, <1>13

-----------------------------------------------------------------------------
LEMMA TypeInit == RpcInit => RpcTypeOK
BY DEF RpcInit, RpcTypeOK

LEMMA TypeStep == RpcTypeOK /\ [RpcNext]_rpcvars => RpcTypeOK'
<1> SUFFICES ASSUME RpcTypeOK, [RpcNext]_rpcvars
             PROVE  RpcTypeOK'
  OBVIOUS
<1>1. ASSUME NEW d \in Delivery, NEW q \in Request, Deliver(d, q)
      PROVE  RpcTypeOK'
  <2>1. Trying(q, 1) \in InFlight
    BY RpcAssumption, Constructed
  <2> QED BY <1>1, <2>1 DEF Deliver, RpcTypeOK
<1>2. ASSUME NEW d \in Delivery, CommitBatch(d)
      PROVE  RpcTypeOK'
  <2> DEFINE q == delivery[d].request
             ran == NewEvents(q)
             result == [cursor |-> cursor'[q.project], generation |-> generation', ran |-> ran]
  <2>1. /\ q \in Request /\ q.project \in RpcProject /\ q.batch \in Batch
        /\ cursor' = [cursor EXCEPT ![q.project] = IF ran = {} THEN cursor[q.project] ELSE Last(ran)]
        /\ cursor'[q.project] \in Nat /\ generation' \in Nat
        /\ result \in Result
        /\ record' = [record EXCEPT ![q.batch] = [request |-> q, result |-> result]]
        /\ log' = [log EXCEPT ![q.project] = Append(log[q.project], ran)]
        /\ Reply(d, Ok(result))
    BY <1>2, Committed
  <2>2. cursor' \in [RpcProject -> Nat]
    BY <2>1 DEF RpcTypeOK
  <2>3. record' \in [Batch -> BatchRecord \cup {Nil}]
    <3>1. [request |-> q, result |-> result] \in BatchRecord
      BY <2>1 DEF BatchRecord
    <3> QED BY <2>1, <3>1 DEF RpcTypeOK
  <2>4. log' \in [RpcProject -> Seq(SUBSET Nat)]
    <3>1. ran \in SUBSET Nat
      BY <2>1 DEF Result
    <3>2. log[q.project] \in Seq(SUBSET Nat)
      BY <2>1 DEF RpcTypeOK
    <3>3. Append(log[q.project], ran) \in Seq(SUBSET Nat)
      BY <3>1, <3>2
    <3> QED BY <2>1, <3>3 DEF RpcTypeOK
  <2>5. delivery' \in [Delivery -> InFlight \cup Replies \cup {Nil}]
    BY <1>2, <2>1, Answers, ReplyTyped DEF CommitBatch
  <2> QED BY <2>1, <2>2, <2>3, <2>4, <2>5 DEF RpcTypeOK
<1>3. ASSUME NEW d \in Delivery, RefuseBatch(d)
      PROVE  RpcTypeOK'
  <2>1. PICK code \in ErrorCode : Reply(d, Failed(code))
    BY <1>3 DEF RefuseBatch, ErrorCode
  <2>2. delivery' \in [Delivery -> InFlight \cup Replies \cup {Nil}]
    BY <1>3, <2>1, Answers, ReplyTyped DEF RefuseBatch
  <2> QED BY <1>3, <2>2 DEF RefuseBatch, RpcTypeOK
<1>4. ASSUME NEW d \in Delivery, ReplayBatch(d)
      PROVE  RpcTypeOK'
  <2> DEFINE b == delivery[d].request.batch
  <2>1. b \in Batch
    BY <1>4, Kinds, RequestTyped DEF ReplayBatch, InFlight
  <2>2. record[b] \in BatchRecord
    BY <1>4, <2>1 DEF ReplayBatch, RpcTypeOK
  <2>3. RecordedResult(d) \in Result
    BY <2>2 DEF RecordedResult, BatchRecord
  <2>4. \E a \in Answer : Reply(d, a)
    <3>1. "VALIDATION" \in ErrorCode
      BY DEF ErrorCode
    <3> QED BY <1>4, <2>3, <3>1, Answers DEF ReplayBatch
  <2>5. delivery' \in [Delivery -> InFlight \cup Replies \cup {Nil}]
    BY <1>4, <2>4, ReplyTyped DEF ReplayBatch
  <2> QED BY <1>4, <2>5 DEF ReplayBatch, RpcTypeOK
<1>5. ASSUME NEW d \in Delivery, Contended(d)
      PROVE  RpcTypeOK'
  <2>1. CASE Backoff(d)
    <3>1. /\ delivery[d].request \in Request
          /\ delivery[d].attempt + 1 \in 1 .. BusyAttempts
      BY <1>5, <2>1, Kinds, RpcAssumption DEF Contended, Backoff, InFlight
    <3>2. Trying(delivery[d].request, delivery[d].attempt + 1) \in InFlight
      BY <3>1, Constructed
    <3> QED BY <1>5, <2>1, <3>2 DEF Contended, Backoff, Retry, RpcTypeOK
  <2>2. CASE Reply(d, Failed("BUSY"))
    <3>1. Failed("BUSY") \in Answer
      BY Answers DEF ErrorCode
    <3>2. delivery' \in [Delivery -> InFlight \cup Replies \cup {Nil}]
      BY <1>5, <2>2, <3>1, ReplyTyped DEF Contended
    <3> QED BY <1>5, <3>2 DEF Contended, RpcTypeOK
  <2> QED BY <1>5, <2>1, <2>2 DEF Contended
<1>6. ASSUME NEW S, Drop(S), UNCHANGED <<cursor, generation, record, log>>
      PROVE  RpcTypeOK'
  BY <1>6 DEF Drop, RpcTypeOK
<1>7. CASE UNCHANGED rpcvars
  BY <1>7 DEF rpcvars, RpcTypeOK
<1> QED
  BY <1>1, <1>2, <1>3, <1>4, <1>5, <1>6, <1>7 DEF RpcNext, Attempt, ForgetAnswer, Crash

(* For any projects, streams, requests and numbers of connections and        *)
(* attempts: what is recorded, logged, in flight or answered is well typed,  *)
(* no attempt is beyond BUSY_ATTEMPTS and no positive answer lacks a result  *)
(* (OwnerRpc.handle).                                                        *)
THEOREM RpcTypeCorrect == RpcSpec => []RpcTypeOK
BY TypeInit, TypeStep, PTL DEF RpcSpec

-----------------------------------------------------------------------------
(* The inductive invariant.                                                  *)

\* What the committed batches ran is the stream up to the cursor.
LogIsStream ==
  \A p \in RpcProject : Promise!Done(p) = {e \in Stream[p] : e <= cursor[p]}

CursorInStream == \A p \in RpcProject : cursor[p] \in Stream[p] \cup {0}

RecordedBehind ==
  \A b \in Batch : record[b] # Nil =>
    \A e \in record[b].request.events : e <= cursor[record[b].request.project]

\* What precedes a request in flight is behind the cursor.
SentInOrder ==
  \A d \in Delivery : UnderWay(d) =>
    \A e \in Stream[delivery[d].request.project] :
      e \notin delivery[d].request.events /\ (\E f \in delivery[d].request.events : e < f) =>
        e <= cursor[delivery[d].request.project]

AnswersRecorded ==
  \A d \in Delivery : Acked(d) =>
    /\ record[delivery[d].request.batch] # Nil
    /\ delivery[d].answer = Ok(RecordedResult(d))
    /\ SameRequest(d)

RpcInv ==
  RpcTypeOK /\ LogIsStream /\ CursorInStream /\ RecordedBehind /\ SentInOrder /\ AnswersRecorded

(* An acknowledged request is behind the cursor. *)
LEMMA AckedBehind ==
  ASSUME RpcInv, NEW d \in Delivery, Acked(d), NEW e \in delivery[d].request.events
  PROVE  e <= cursor[delivery[d].request.project]
<1>1. delivery[d].request \in Request
  BY Kinds DEF RpcInv, Acked, Replies
<1>2. delivery[d].request.batch \in Batch
  BY <1>1, RequestTyped
<1> QED BY <1>2 DEF RpcInv, AnswersRecorded, RecordedBehind, SameRequest

(* One more set of events at the end of a log. *)
LEMMA AppendDone ==
  ASSUME NEW s \in Seq(SUBSET Nat), NEW S \in SUBSET Nat, NEW t, t = Append(s, S)
  PROVE  \A e : (\E i \in DOMAIN t : e \in t[i]) <=> (\E i \in DOMAIN s : e \in s[i]) \/ e \in S
<1>1. /\ Len(t) = Len(s) + 1 /\ DOMAIN t = 1 .. Len(s) + 1
      /\ t[Len(s) + 1] = S
      /\ \A i \in DOMAIN s : t[i] = s[i]
      /\ DOMAIN s = 1 .. Len(s) /\ Len(s) \in Nat
  OBVIOUS
<1>2. DOMAIN t = DOMAIN s \cup {Len(s) + 1}
  BY <1>1
<1> QED BY <1>1, <1>2

(* A commit takes its project's stream from the old cursor to the new one.   *)
LEMMA CommitTakes ==
  ASSUME RpcInv, NEW d \in Delivery, CommitBatch(d),
         NEW q, q = delivery[d].request, NEW p, p = q.project,
         NEW ran, ran = NewEvents(q)
  PROVE  /\ p \in RpcProject
         /\ cursor[p] \in Nat /\ cursor'[p] \in Nat
         /\ cursor'[p] >= cursor[p]
         /\ cursor'[p] \in Stream[p] \cup {0}
         /\ \A e \in q.events : e <= cursor'[p]
         /\ ran = {e \in Stream[p] \ Promise!Done(p) : e <= cursor'[p]}
         /\ Promise!Done(p)' = {e \in Stream[p] : e <= cursor'[p]}
<1>0. RpcTypeOK
  BY DEF RpcInv
<1>1. /\ q \in Request /\ p \in RpcProject
      /\ ran = {e \in q.events : e > cursor[p]}
      /\ cursor' = [cursor EXCEPT ![p] = IF ran = {} THEN cursor[p] ELSE Last(ran)]
      /\ cursor'[p] \in Nat
      /\ log' = [log EXCEPT ![p] = Append(log[p], ran)]
  <2>1. ran = {e \in q.events : e > cursor[p]}
    BY DEF NewEvents
  <2> QED BY <1>0, <2>1, Committed
<1>2. cursor \in [RpcProject -> Nat] /\ log[p] \in Seq(SUBSET Nat)
  BY <1>1 DEF RpcInv, RpcTypeOK
<1>3. /\ q.events \in SUBSET Nat /\ q.events \subseteq Stream[p]
      /\ Stream[p] \in SUBSET Nat
  BY <1>1, RequestTyped, RpcAssumption
<1>4. /\ ran = {} => cursor'[p] = cursor[p]
      /\ ran # {} => /\ cursor'[p] \in ran
                     /\ \A e \in ran : e <= cursor'[p]
  BY <1>1, <1>2, LastOf
<1>5. cursor'[p] >= cursor[p]
  <2>1. cursor[p] \in Nat
    BY <1>1, <1>2
  <2>2. CASE ran = {}
    BY <1>4, <2>1, <2>2
  <2>3. CASE ran # {}
    <3>1. cursor'[p] > cursor[p]
      BY <1>1, <1>4, <2>3
    <3> QED BY <1>1, <2>1, <3>1
  <2> QED BY <2>2, <2>3
<1>6. cursor'[p] \in Stream[p] \cup {0}
  BY <1>1, <1>3, <1>4 DEF RpcInv, CursorInStream
<1>7. \A e \in q.events : e <= cursor'[p]
  <2> SUFFICES ASSUME NEW e \in q.events PROVE e <= cursor'[p]
    OBVIOUS
  <2>1. e \in Nat /\ cursor[p] \in Nat
    BY <1>1, <1>2, <1>3
  <2>2. CASE e > cursor[p]
    BY <1>1, <1>4, <2>2
  <2>3. CASE e <= cursor[p]
    BY <1>1, <1>5, <2>1, <2>3
  <2> QED BY <2>1, <2>2, <2>3
<1>8. Promise!Done(p) = {e \in Stream[p] : e <= cursor[p]}
  BY <1>1 DEF RpcInv, LogIsStream
<1>9. ran = {e \in Stream[p] : e > cursor[p] /\ e <= cursor'[p]}
  <2>1. ASSUME NEW e \in Stream[p], e > cursor[p], e <= cursor'[p]
        PROVE  e \in ran
    <3>1. ran # {}
      BY <1>1, <1>2, <1>3, <1>4, <2>1
    <3>2. cursor'[p] \in q.events
      BY <1>1, <1>4, <3>1
    <3>3. CASE e \in q.events
      BY <1>1, <2>1, <3>3
    <3>4. CASE e \notin q.events
      <4>1. e < cursor'[p]
        BY <1>1, <1>3, <2>1, <3>2, <3>4
      <4>2. UnderWay(d)
        BY DEF CommitBatch
      <4>3. e <= cursor[p]
        BY <2>1, <3>2, <3>4, <4>1, <4>2 DEF RpcInv, SentInOrder
      <4> QED BY <1>1, <1>2, <1>3, <2>1, <4>3
    <3> QED BY <3>3, <3>4
  <2>2. ASSUME NEW e \in ran
        PROVE  e \in Stream[p] /\ e > cursor[p] /\ e <= cursor'[p]
    BY <1>1, <1>3, <1>4, <2>2
  <2> QED BY <2>1, <2>2
<1>10. ran = {e \in Stream[p] \ Promise!Done(p) : e <= cursor'[p]}
  BY <1>1, <1>2, <1>3, <1>8, <1>9
<1>11. Promise!Done(p)' = Promise!Done(p) \cup ran
  <2>1. log'[p] = Append(log[p], ran)
    BY <1>1 DEF RpcInv, RpcTypeOK
  <2>2. ran \in SUBSET Nat
    BY <1>1, <1>3
  <2>3. \A e : (\E i \in DOMAIN log'[p] : e \in log'[p][i]) <=>
                  (\E i \in DOMAIN log[p] : e \in log[p][i]) \/ e \in ran
    <3>1. PICK s : s = log[p]
      OBVIOUS
    <3>2. PICK t : t = log'[p]
      OBVIOUS
    <3>3. s \in Seq(SUBSET Nat) /\ t = Append(s, ran)
      BY <1>2, <2>1, <3>1, <3>2
    <3>4. \A e : (\E i \in DOMAIN t : e \in t[i]) <=> (\E i \in DOMAIN s : e \in s[i]) \/ e \in ran
      BY <2>2, <3>3, AppendDone
    <3> QED BY <3>1, <3>2, <3>4
  <2> QED BY <2>3 DEF Promise!Done
<1>12. Promise!Done(p)' = {e \in Stream[p] : e <= cursor'[p]}
  <2>1. ASSUME NEW e \in Stream[p], e <= cursor[p]
        PROVE  e <= cursor'[p]
    <3>1. e \in Nat /\ cursor[p] \in Nat /\ cursor'[p] \in Nat
      BY <1>1, <1>2, <1>3
    <3> QED BY <1>5, <2>1, <3>1
  <2>2. ASSUME NEW e \in Stream[p]
        PROVE  e <= cursor[p] \/ e > cursor[p]
    BY <1>1, <1>2, <1>3
  <2> QED BY <1>8, <1>9, <1>11, <2>1, <2>2
<1> QED BY <1>1, <1>2, <1>5, <1>6, <1>7, <1>10, <1>12

LEMMA RpcInvInit == RpcInit => RpcInv
<1> SUFFICES ASSUME RpcInit PROVE RpcInv
  OBVIOUS
<1>1. \A p \in RpcProject : Promise!Done(p) = {}
  BY DEF RpcInit, Promise!Done
<1>2. \A p \in RpcProject : {e \in Stream[p] : e <= cursor[p]} = {}
  BY RpcAssumption DEF RpcInit
<1>3. LogIsStream
  BY <1>1, <1>2 DEF LogIsStream
<1>4. CursorInStream /\ RecordedBehind /\ SentInOrder /\ AnswersRecorded
  BY DEF RpcInit, CursorInStream, RecordedBehind, SentInOrder, AnswersRecorded, UnderWay, Acked,
         Answered
<1> QED BY <1>3, <1>4, TypeInit DEF RpcInv

(* A step that commits nothing keeps the invariant if each delivery it       *)
(* changes was already in flight or is answered from its record.             *)
LEMMA NothingCommitted ==
  ASSUME RpcInv, RpcTypeOK', UNCHANGED <<cursor, record, log>>,
         \A d \in Delivery :
           \/ delivery'[d] = delivery[d]
           \/ UnderWay(d) /\ delivery'[d].request = delivery[d].request
           \/ ~UnderWay(d)',
         \A d \in Delivery :
           \/ delivery'[d] = delivery[d]
           \/ Acked(d)' => /\ record'[delivery'[d].request.batch] # Nil
                           /\ delivery'[d].answer = Ok(RecordedResult(d)')
                           /\ SameRequest(d)'
  PROVE  RpcInv'
<1>1. LogIsStream' /\ CursorInStream' /\ RecordedBehind'
  BY DEF RpcInv, LogIsStream, CursorInStream, RecordedBehind, Promise!Done
<1>2. SentInOrder'
  BY DEF RpcInv, SentInOrder, UnderWay
<1>3. AnswersRecorded'
  BY DEF RpcInv, AnswersRecorded, Acked, Answered, RecordedResult, SameRequest
<1> QED BY <1>1, <1>2, <1>3 DEF RpcInv

(* The commit, one conjunct of the invariant at a time.                      *)
LEMMA CommitKeeps ==
  ASSUME RpcInv, RpcTypeOK', NEW d \in Delivery, CommitBatch(d),
         NEW q, q = delivery[d].request, NEW p, p = q.project,
         NEW ran, ran = NewEvents(q)
  PROVE  RpcInv'
<1> DEFINE result == [cursor |-> cursor'[p], generation |-> generation', ran |-> ran]
<1>1. /\ q \in Request /\ p \in RpcProject /\ q.batch \in Batch
      /\ record[q.batch] = Nil
      /\ cursor' = [cursor EXCEPT ![p] = IF ran = {} THEN cursor[p] ELSE Last(ran)]
      /\ record' = [record EXCEPT ![q.batch] = [request |-> q, result |-> result]]
      /\ log' = [log EXCEPT ![p] = Append(log[p], ran)]
      /\ Reply(d, Ok(result))
  BY Committed DEF RpcInv
<1>2. /\ cursor[p] \in Nat /\ cursor'[p] \in Nat /\ cursor'[p] >= cursor[p]
      /\ cursor'[p] \in Stream[p] \cup {0}
      /\ \A e \in q.events : e <= cursor'[p]
      /\ Promise!Done(p)' = {e \in Stream[p] : e <= cursor'[p]}
  BY CommitTakes
<1>3. /\ cursor \in [RpcProject -> Nat] /\ cursor' \in [RpcProject -> Nat]
      /\ \A r \in RpcProject : r # p => cursor'[r] = cursor[r] /\ log'[r] = log[r]
  BY <1>1 DEF RpcInv, RpcTypeOK
<1>4. \A r \in RpcProject : cursor[r] <= cursor'[r]
  BY <1>2, <1>3
<1>5. LogIsStream'
  <2> SUFFICES ASSUME NEW r \in RpcProject
               PROVE  Promise!Done(r)' = {e \in Stream[r] : e <= cursor'[r]}
    BY DEF LogIsStream
  <2>1. CASE r = p
    BY <1>2, <2>1
  <2>2. CASE r # p
    BY <1>3, <2>2 DEF RpcInv, LogIsStream, Promise!Done
  <2> QED BY <2>1, <2>2
<1>6. CursorInStream'
  BY <1>2, <1>3 DEF RpcInv, CursorInStream
<1>7. RecordedBehind'
  <2> SUFFICES ASSUME NEW b \in Batch, record'[b] # Nil, NEW e \in record'[b].request.events
               PROVE  e <= cursor'[record'[b].request.project]
    BY DEF RecordedBehind
  <2>1. CASE b = q.batch
    BY <1>1, <1>2, <2>1 DEF RpcInv, RpcTypeOK
  <2>2. CASE b # q.batch
    <3>1. record'[b] = record[b]
      BY <1>1, <2>2 DEF RpcInv, RpcTypeOK
    <3>2. record[b] \in BatchRecord
      BY <3>1 DEF RpcInv, RpcTypeOK
    <3>3. record[b].request \in Request
      BY <3>2 DEF BatchRecord
    <3>4. record[b].request.project \in RpcProject /\ e \in Nat
      BY <3>1, <3>3, RequestTyped
    <3>5. e <= cursor[record[b].request.project]
      BY <3>1 DEF RpcInv, RecordedBehind
    <3> QED BY <1>3, <1>4, <3>1, <3>4, <3>5
  <2> QED BY <2>1, <2>2
<1>8. /\ delivery' = [delivery EXCEPT ![d] = Replied(q, delivery[d].attempt, Ok(result))]
      /\ delivery'[d] = Replied(q, delivery[d].attempt, Ok(result))
      /\ \A c \in Delivery : c # d => delivery'[c] = delivery[c]
  BY <1>1 DEF Reply, RpcInv, RpcTypeOK
<1>9. SentInOrder'
  <2> SUFFICES ASSUME NEW c \in Delivery, UnderWay(c)',
                      NEW e \in Stream[delivery'[c].request.project],
                      e \notin delivery'[c].request.events,
                      \E f \in delivery'[c].request.events : e < f
               PROVE  e <= cursor'[delivery'[c].request.project]
    BY DEF SentInOrder
  <2>1. c # d
    BY <1>8 DEF UnderWay, Replied
  <2>2. delivery'[c] = delivery[c] /\ UnderWay(c)
    BY <1>8, <2>1 DEF UnderWay
  <2>3. delivery[c].request \in Request
    BY <2>2, Kinds DEF RpcInv, InFlight
  <2>4. delivery[c].request.project \in RpcProject /\ e \in Nat
    BY <2>2, <2>3, RequestTyped, RpcAssumption
  <2>5. e <= cursor[delivery[c].request.project]
    BY <2>2 DEF RpcInv, SentInOrder
  <2> QED BY <1>3, <1>4, <2>2, <2>4, <2>5
<1>10. AnswersRecorded'
  <2> SUFFICES ASSUME NEW c \in Delivery, Acked(c)'
               PROVE  /\ record'[delivery'[c].request.batch] # Nil
                      /\ delivery'[c].answer = Ok(RecordedResult(c)')
                      /\ SameRequest(c)'
    BY DEF AnswersRecorded
  <2>1. CASE c = d
    <3>1. /\ delivery'[c].request = q /\ delivery'[c].answer = Ok(result)
      BY <1>8, <2>1 DEF Replied
    <3>2. record'[q.batch] = [request |-> q, result |-> result]
      BY <1>1 DEF RpcInv, RpcTypeOK
    <3>3. record'[q.batch] # Nil
      <4>1. result \in Result
        BY Committed DEF RpcInv
      <4>2. record'[q.batch] \in BatchRecord
        BY <1>1, <3>2, <4>1 DEF BatchRecord
      <4> QED BY <4>2, NilAssumption
    <3>4. RecordedResult(c)' = result /\ SameRequest(c)'
      BY <3>1, <3>2 DEF RecordedResult, SameRequest
    <3> QED BY <3>1, <3>3, <3>4
  <2>2. CASE c # d
    <3>1. delivery'[c] = delivery[c] /\ Acked(c)
      BY <1>8, <2>2 DEF Acked, Answered
    <3>2. /\ record[delivery[c].request.batch] # Nil
          /\ delivery[c].answer = Ok(RecordedResult(c))
          /\ SameRequest(c)
      BY <3>1 DEF RpcInv, AnswersRecorded
    <3>3. delivery[c].request.batch # q.batch
      BY <1>1, <3>2
    <3>4. record'[delivery[c].request.batch] = record[delivery[c].request.batch]
      BY <1>1, <3>3 DEF RpcInv, RpcTypeOK
    <3> QED BY <3>1, <3>2, <3>4 DEF RecordedResult, SameRequest
  <2> QED BY <2>1, <2>2
<1> QED BY <1>5, <1>6, <1>7, <1>9, <1>10 DEF RpcInv

LEMMA RpcInvStep == RpcInv /\ [RpcNext]_rpcvars => RpcInv'
<1> SUFFICES ASSUME RpcInv, [RpcNext]_rpcvars
             PROVE  RpcInv'
  OBVIOUS
<1>0. RpcTypeOK /\ RpcTypeOK'
  BY TypeStep DEF RpcInv
<1>1. ASSUME NEW d \in Delivery, NEW q \in Request, Deliver(d, q)
      PROVE  RpcInv'
  <2>1. /\ delivery' = [delivery EXCEPT ![d] = Trying(q, 1)]
        /\ UNCHANGED <<cursor, record, log>>
    BY <1>1 DEF Deliver
  <2>2. /\ delivery'[d] = Trying(q, 1)
        /\ \A c \in Delivery : c # d => delivery'[c] = delivery[c]
    BY <1>0, <2>1 DEF RpcTypeOK
  <2>3. LogIsStream' /\ CursorInStream' /\ RecordedBehind'
    BY <2>1 DEF RpcInv, LogIsStream, CursorInStream, RecordedBehind, Promise!Done
  <2>4. \A e \in Stream[q.project] :
          e \notin q.events /\ (\E f \in q.events : e < f) => e <= cursor[q.project]
    BY <1>1, AckedBehind DEF Deliver, Acknowledged
  <2>5. SentInOrder'
    BY <2>1, <2>2, <2>4 DEF RpcInv, SentInOrder, UnderWay, Trying
  <2>6. AnswersRecorded'
    BY <2>1, <2>2 DEF RpcInv, AnswersRecorded, Acked, Answered, Trying, RecordedResult, SameRequest
  <2> QED BY <1>0, <2>3, <2>5, <2>6 DEF RpcInv
<1>2. ASSUME NEW d \in Delivery, CommitBatch(d)
      PROVE  RpcInv'
  <2>1. PICK q : q = delivery[d].request
    OBVIOUS
  <2>2. PICK ran : ran = NewEvents(q)
    OBVIOUS
  <2> QED BY <1>0, <1>2, <2>1, <2>2, CommitKeeps
<1>3. ASSUME NEW d \in Delivery, NEW code, code # "OK", Reply(d, Failed(code)),
             UNCHANGED <<cursor, record, log>>
      PROVE  RpcInv'
  <2>1. /\ delivery'[d].state = "answered" /\ delivery'[d].answer.code # "OK"
        /\ \A c \in Delivery : c # d => delivery'[c] = delivery[c]
    BY <1>0, <1>3 DEF Reply, Replied, Failed, RpcTypeOK
  <2>2. ~UnderWay(d)' /\ ~Acked(d)'
    BY <2>1 DEF UnderWay, Acked
  <2> QED BY <1>0, <1>3, <2>1, <2>2, NothingCommitted
<1>4. ASSUME NEW d \in Delivery, RefuseBatch(d)
      PROVE  RpcInv'
  BY <1>3, <1>4 DEF RefuseBatch
<1>5. ASSUME NEW d \in Delivery, ReplayBatch(d)
      PROVE  RpcInv'
  <2>1. CASE SameRequest(d)
    <3>1. /\ delivery'[d] = Replied(delivery[d].request, delivery[d].attempt, Ok(RecordedResult(d)))
          /\ \A c \in Delivery : c # d => delivery'[c] = delivery[c]
          /\ UNCHANGED <<cursor, record, log>>
          /\ record[delivery[d].request.batch] # Nil
      BY <1>0, <1>5, <2>1 DEF ReplayBatch, Reply, RpcTypeOK
    <3>2. /\ ~UnderWay(d)'
          /\ delivery'[d].request = delivery[d].request
          /\ delivery'[d].answer = Ok(RecordedResult(d))
      BY <3>1 DEF UnderWay, Replied
    <3>3. RecordedResult(d)' = RecordedResult(d) /\ SameRequest(d)'
      BY <2>1, <3>1, <3>2 DEF RecordedResult, SameRequest
    <3> QED BY <1>0, <3>1, <3>2, <3>3, NothingCommitted
  <2>2. CASE ~SameRequest(d)
    BY <1>3, <1>5, <2>2 DEF ReplayBatch
  <2> QED BY <2>1, <2>2
<1>6. ASSUME NEW d \in Delivery, Contended(d)
      PROVE  RpcInv'
  <2>1. CASE Backoff(d)
    <3>1. /\ delivery'[d] = Trying(delivery[d].request, delivery[d].attempt + 1)
          /\ \A c \in Delivery : c # d => delivery'[c] = delivery[c]
          /\ UNCHANGED <<cursor, record, log>>
          /\ UnderWay(d)
      BY <1>0, <1>6, <2>1 DEF Contended, Backoff, Retry, RpcTypeOK
    <3>2. delivery'[d].request = delivery[d].request /\ ~Acked(d)'
      BY <3>1 DEF Trying, Acked, Answered
    <3> QED BY <1>0, <3>1, <3>2, NothingCommitted
  <2>2. CASE Reply(d, Failed("BUSY"))
    BY <1>3, <1>6, <2>2 DEF Contended
  <2> QED BY <1>6, <2>1, <2>2 DEF Contended
<1>7. ASSUME NEW S, Drop(S), UNCHANGED <<cursor, record, log>>
      PROVE  RpcInv'
  <2>1. \A d \in Delivery : delivery'[d] = delivery[d] \/ delivery'[d] = Nil
    BY <1>7 DEF Drop
  <2>2. \A d \in Delivery : delivery'[d] = Nil => ~UnderWay(d)' /\ ~Acked(d)'
    BY DEF UnderWay, Acked, Answered
  <2> QED BY <1>0, <1>7, <2>1, <2>2, NothingCommitted
<1>8. CASE UNCHANGED rpcvars
  BY <1>0, <1>8, NothingCommitted DEF rpcvars
<1> QED
  BY <1>1, <1>2, <1>4, <1>5, <1>6, <1>7, <1>8 DEF RpcNext, Attempt, ForgetAnswer, Crash

LEMMA RpcInductive == RpcSpec => []RpcInv
BY RpcInvInit, RpcInvStep, PTL DEF RpcSpec

(* Whatever is delivered, duplicated, retried or dropped, two positive       *)
(* answers to one batch id are the same answer (OwnerRpc.handle).            *)
THEOREM SameAnswer == RpcSpec => []AnswersAgree
<1>1. RpcInv => AnswersAgree
  BY DEF RpcInv, AnswersAgree, AnswersRecorded, RecordedResult
<1> QED BY <1>1, RpcInductive, PTL

(* A positive answer means that every event of the request has been applied, *)
(* for any stream and any reuse of batch ids (OwnerRpc.handle).              *)
THEOREM NoSilentNoApply == RpcSpec => []AckedIsApplied
<1>1. RpcInv => AckedIsApplied
  <2> SUFFICES ASSUME RpcInv, NEW d \in Delivery, Acked(d),
                      NEW e \in delivery[d].request.events
               PROVE  \E i \in DOMAIN log[delivery[d].request.project] :
                        e \in log[delivery[d].request.project][i]
    BY DEF AckedIsApplied
  <2>1. delivery[d].request \in Request
    BY Kinds DEF RpcInv, Acked, Replies
  <2>2. delivery[d].request.project \in RpcProject /\ e \in Stream[delivery[d].request.project]
    BY <2>1, RequestTyped
  <2>3. e \in Promise!Done(delivery[d].request.project)
    BY <2>2, AckedBehind DEF RpcInv, LogIsStream
  <2> QED BY <2>3 DEF Promise!Done
<1> QED BY <1>1, RpcInductive, PTL

(* Every step of the deliveries is a step or a stutter of the ordered        *)
(* stream: no event of a project is applied twice or skipped                 *)
(* (OwnerRpc.handle, applyEventBatch).                                       *)
THEOREM StreamRefinement == RpcSpec => ImplementsOrderedStream
<1>1. RpcInit => Promise!Init
  BY DEF RpcInit, Promise!Init
<1>2. RpcInv /\ [RpcNext]_rpcvars => [Promise!Next]_(Promise!svars)
  <2> SUFFICES ASSUME RpcInv, [RpcNext]_rpcvars
               PROVE  [Promise!Next]_(Promise!svars)
    OBVIOUS
  <2>1. ASSUME NEW d \in Delivery, CommitBatch(d)
        PROVE  Promise!Next
    <3>1. PICK q : q = delivery[d].request
      OBVIOUS
    <3>2. PICK p : p = q.project
      OBVIOUS
    <3>3. PICK ran : ran = NewEvents(q)
      OBVIOUS
    <3>4. /\ p \in RpcProject /\ cursor[p] \in Nat /\ cursor'[p] \in Nat
          /\ cursor'[p] >= cursor[p] /\ cursor'[p] \in Stream[p] \cup {0}
          /\ ran = {e \in Stream[p] \ Promise!Done(p) : e <= cursor'[p]}
      BY <2>1, <3>1, <3>2, <3>3, CommitTakes
    <3> DEFINE result == [cursor |-> cursor'[p], generation |-> generation', ran |-> ran]
    <3>5. /\ result \in Result /\ q \in Request /\ q.batch \in Batch
          /\ record[q.batch] = Nil
          /\ record' = [record EXCEPT ![q.batch] = [request |-> q, result |-> result]]
          /\ log' = [log EXCEPT ![p] = Append(log[p], ran)]
      BY <2>1, <3>1, <3>2, <3>3, Committed DEF RpcInv
    <3> HIDE DEF result
    <3>6. \A e \in Promise!Done(p) : e <= cursor'[p]
      <4> SUFFICES ASSUME NEW e \in Promise!Done(p) PROVE e <= cursor'[p]
        OBVIOUS
      <4>1. e \in Stream[p] /\ e <= cursor[p]
        BY <3>4 DEF RpcInv, LogIsStream
      <4>2. e \in Nat
        BY <3>4, <4>1, RpcAssumption
      <4> QED BY <3>4, <4>1, <4>2
    <3>7. {b \in Batch : record'[b] # Nil} = {b \in Batch : record[b] # Nil} \cup {q.batch}
      <4>1. [request |-> q, result |-> result] \in BatchRecord
        BY <3>5 DEF BatchRecord
      <4>2. [request |-> q, result |-> result] # Nil
        BY <4>1, NilAssumption
      <4> QED BY <3>5, <4>2 DEF RpcInv, RpcTypeOK
    <3>8. PICK to : to = cursor'[p]
      OBVIOUS
    <3>9. Promise!Take(q.batch, p, to)
      BY <3>4, <3>5, <3>6, <3>7, <3>8 DEF Promise!Take
    <3> QED BY <3>4, <3>5, <3>8, <3>9 DEF Promise!Next
  <2>2. CASE UNCHANGED <<record, log>>
    BY <2>2 DEF Promise!svars
  <2> QED
    BY <2>1, <2>2 DEF RpcNext, rpcvars, Attempt, Deliver, RefuseBatch, ReplayBatch, Contended,
                      ForgetAnswer, Crash
<1> QED BY <1>1, <1>2, RpcInductive, PTL DEF RpcSpec, ImplementsOrderedStream, Promise!Spec

(* The two together, as the run checks them: an answer of the owner is true  *)
(* of what it did and stays what it was, for any number of deliveries,       *)
(* batches and projects (OwnerRpc.handle).                                   *)
THEOREM TrueAnswers == RpcSpec => []AnswersAreTrue
<1> QED
  BY SameAnswer, NoSilentNoApply, PTL DEF AnswersAreTrue
=============================================================================
