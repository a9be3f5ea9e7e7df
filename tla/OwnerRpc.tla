------------------------------- MODULE OwnerRpc -------------------------------
(***************************************************************************)
(* The owner-control RPC: deliveries of event batches to the process that  *)
(* owns the hook socket, each applied in a bounded number of attempts that *)
(* the event loop interleaves with those of other deliveries.              *)
(*                                                                         *)
(* What an event does is the subject of SyncApply; here a batch either     *)
(* commits or is refused, and what is kept of a commit is which events its *)
(* handlers ran for.  The sender is external: it may deliver any request   *)
(* again at any time, and reuse a batch id, but it delivers the events of  *)
(* a project's stream only once the earlier ones are acknowledged.         *)
(***************************************************************************)
EXTENDS Naturals, Sequences, FiniteSets

CONSTANTS
  RpcProject, Batch,
  Stream,        \* [RpcProject -> SUBSET (Nat \ {0})], gaps are legal
  Request,       \* what the sender may send: [batch, project, events]
  Delivery,      \* connections, each carries one request at a time
  BusyAttempts,  \* OWNER_RPC.BUSY_ATTEMPTS
  Nil

ASSUME RpcAssumption ==
  /\ BusyAttempts \in Nat \ {0}
  /\ Stream \in [RpcProject -> SUBSET (Nat \ {0})]
  /\ Request \subseteq [batch: Batch, project: RpcProject, events: SUBSET Nat]

Last(S) == CHOOSE e \in S : \A f \in S : f <= e

\* A request holds finitely many events of its project's stream.
ASSUME EventsAssumption ==
  \A q \in Request :
    /\ q.events \subseteq Stream[q.project]
    /\ q.events = {} \/ \E e \in q.events : \A f \in q.events : f <= e

\* The result recorded with a batch: cursor, generation and outcomes (the
\* events that were not reported replay-noop).
Result == [cursor: Nat, generation: Nat, ran: SUBSET Nat]
BatchRecord == [request: Request, result: Result]

ErrorCode == {"VALIDATION", "PROTOCOL_HALT", "BUSY", "INTERNAL"}
Ok(result) == [code |-> "OK", result |-> result]
Failed(code) == [code |-> code, result |-> Nil]
Answer == [code: {"OK"}, result: Result] \cup [code: ErrorCode, result: {Nil}]

Trying(q, n) == [state |-> "trying", request |-> q, attempt |-> n, answer |-> Nil]
Replied(q, n, answer) ==
  [state |-> "answered", request |-> q, attempt |-> n, answer |-> answer]
InFlight == [state: {"trying"}, request: Request, attempt: 1 .. BusyAttempts, answer: {Nil}]
Replies == [state: {"answered"}, request: Request, attempt: 1 .. BusyAttempts, answer: Answer]

ASSUME NilAssumption == Nil \notin BatchRecord /\ Nil \notin InFlight /\ Nil \notin Replies

VARIABLES
  cursor,      \* sync_state ns 'apply': the highest event applied, per project
  generation,  \* sync_state ns 'memory' key 'generation'
  record,      \* sync_state ns 'rpc-batch': what a batch id committed
  log,         \* per project, the events each committed batch ran handlers for
  delivery     \* connections: free (Nil), being tried, or answered

rpcvars == <<cursor, generation, record, log, delivery>>

RpcInit ==
  /\ cursor = [p \in RpcProject |-> 0]
  /\ generation = 0
  /\ record = [b \in Batch |-> Nil]
  /\ log = [p \in RpcProject |-> <<>>]
  /\ delivery = [d \in Delivery |-> Nil]

-----------------------------------------------------------------------------

UnderWay(d) == delivery[d] # Nil /\ delivery[d].state = "trying"
Answered(d) == delivery[d] # Nil /\ delivery[d].state = "answered"
Acked(d) == Answered(d) /\ delivery[d].answer.code = "OK"

Acknowledged(p, e) ==
  \E d \in Delivery :
    Acked(d) /\ delivery[d].request.project = p /\ e \in delivery[d].request.events

\* The sender's discipline: what precedes the request is acknowledged.
Deliver(d, q) ==
  /\ delivery[d] = Nil
  /\ \A e \in Stream[q.project] :
       e \notin q.events /\ (\E f \in q.events : e < f) => Acknowledged(q.project, e)
  /\ delivery' = [delivery EXCEPT ![d] = Trying(q, 1)]
  /\ UNCHANGED <<cursor, generation, record, log>>

Reply(d, answer) ==
  delivery' = [delivery EXCEPT
    ![d] = Replied(delivery[d].request, delivery[d].attempt, answer)]

Retry(d, n) == delivery' = [delivery EXCEPT ![d] = Trying(delivery[d].request, n)]

\* Fault: the cursor is not looked at.
EveryEvent(q) == q.events

\* The events whose handlers run: those at or below the cursor are skipped.
NewEvents(q) == {e \in q.events : e > cursor[q.project]}

\* applyEventBatch and the batch record, in one immediate transaction.  The
\* generation moves only if some handler wrote.
CommitBatch(d) ==
  LET q == delivery[d].request
      ran == NewEvents(q)
      p == q.project
  IN  /\ UnderWay(d)
      /\ record[q.batch] = Nil
      /\ cursor' = [cursor EXCEPT ![p] = IF ran = {} THEN @ ELSE Last(ran)]
      /\ generation' \in IF ran = {} THEN {generation} ELSE {generation, generation + 1}
      /\ record' = [record EXCEPT ![q.batch] =
           [request |-> q,
            result |-> [cursor |-> cursor'[p], generation |-> generation', ran |-> ran]]]
      /\ log' = [log EXCEPT ![p] = Append(@, ran)]
      /\ Reply(d, Ok(record'[q.batch].result))

\* A refusal of the engine, or an unexpected failure: everything rolls back.
RefuseBatch(d) ==
  /\ UnderWay(d)
  /\ \E code \in {"VALIDATION", "PROTOCOL_HALT", "INTERNAL"} :
       /\ code = "INTERNAL" \/ record[delivery[d].request.batch] = Nil
       /\ Reply(d, Failed(code))
  /\ UNCHANGED <<cursor, generation, record, log>>

\* Fault: the recorded body is not compared.
AnyRequest(d) == TRUE

\* events_hash covers the project and the events.
SameRequest(d) ==
  LET prior == record[delivery[d].request.batch].request
      q == delivery[d].request
  IN  prior.project = q.project /\ prior.events = q.events

\* A replay answers with the result that was committed.
RecordedResult(d) == record[delivery[d].request.batch].result

\* The batch id has a record, read inside the transaction.
ReplayBatch(d) ==
  /\ UnderWay(d)
  /\ record[delivery[d].request.batch] # Nil
  /\ Reply(d, IF SameRequest(d) THEN Ok(RecordedResult(d)) ELSE Failed("VALIDATION"))
  /\ UNCHANGED <<cursor, generation, record, log>>

\* Fault: the count starts again.
BackoffForever(d) ==
  Retry(d, IF delivery[d].attempt = BusyAttempts THEN 1 ELSE delivery[d].attempt + 1)

\* An asynchronous delay: other deliveries run before the next attempt.
Backoff(d) ==
  /\ delivery[d].attempt < BusyAttempts
  /\ Retry(d, delivery[d].attempt + 1)

\* SQLITE_BUSY: another connection holds the write lock.
Contended(d) ==
  /\ UnderWay(d)
  /\ \/ Backoff(d)
     \/ delivery[d].attempt = BusyAttempts /\ Reply(d, Failed("BUSY"))
  /\ UNCHANGED <<cursor, generation, record, log>>

Attempt(d) == CommitBatch(d) \/ RefuseBatch(d) \/ ReplayBatch(d) \/ Contended(d)

Drop(S) == delivery' = [d \in Delivery |-> IF d \in S THEN Nil ELSE delivery[d]]

\* The sender is done with an answer, or never sees it.
ForgetAnswer(d) == Answered(d) /\ Drop({d}) /\ UNCHANGED <<cursor, generation, record, log>>

\* The owner crashes with deliveries in flight.
Crash ==
  /\ \E d \in Delivery : UnderWay(d)
  /\ Drop({d \in Delivery : UnderWay(d)})
  /\ UNCHANGED <<cursor, generation, record, log>>

RpcNext ==
  \/ \E d \in Delivery, q \in Request : Deliver(d, q)
  \/ \E d \in Delivery : Attempt(d) \/ ForgetAnswer(d)
  \/ Crash

RpcSpec == RpcInit /\ [][RpcNext]_rpcvars

\* Node runs every timer and every queued callback.
RpcFairSpec == RpcSpec /\ \A d \in Delivery : WF_rpcvars(Attempt(d))

-----------------------------------------------------------------------------

RpcTypeOK ==
  /\ cursor \in [RpcProject -> Nat]
  /\ generation \in Nat
  /\ record \in [Batch -> BatchRecord \cup {Nil}]
  /\ log \in [RpcProject -> Seq(SUBSET Nat)]
  /\ delivery \in [Delivery -> InFlight \cup Replies \cup {Nil}]

(* A retry returns the originally committed result: two positive answers to  *)
(* one batch id are the same answer, whatever was applied in between         *)
(* (owner-rpc.ts, "batch idempotency by caller-stable batch_id").            *)
AnswersAgree ==
  \A c, d \in Delivery :
    Acked(c) /\ Acked(d) /\ delivery[c].request.batch = delivery[d].request.batch =>
      delivery[c].answer = delivery[d].answer

(* A positive answer is never a silent no-apply: every event of the request  *)
(* it answers has been applied, also when the batch id was used for another  *)
(* body or another project.                                                  *)
AckedIsApplied ==
  \A d \in Delivery : Acked(d) =>
    \A e \in delivery[d].request.events :
      \E i \in DOMAIN log[delivery[d].request.project] :
        e \in log[delivery[d].request.project][i]

(* An answer of the owner is true of what it did, and stays what it was.     *)
AnswersAreTrue == AnswersAgree /\ AckedIsApplied

(* No delivery hangs: each is answered, or dropped with the process, however *)
(* long the write lock stays contended.                                      *)
EveryDeliveryAnswered == \A d \in Delivery : UnderWay(d) ~> ~UnderWay(d)

Promise == INSTANCE OrderedStream WITH
  Project <- RpcProject, applied <- log, committed <- {b \in Batch : record[b] # Nil}

(* The deliveries implement the ordered stream: duplicates, concurrent and   *)
(* retried deliveries, crashes and lost answers take no event twice and skip *)
(* none.                                                                     *)
ImplementsOrderedStream == Promise!Spec
=============================================================================
