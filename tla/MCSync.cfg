\* A worker whose cursor never passes the newest entry; two connections, two
\* attempts each.
SPECIFICATION MCFairSpec
CONSTANTS
  A = A
  B = B
  r1 = r1
  Row = {r1}
  Project = {A, B}
  MaxJournal = 3
  Overshoot = 0
  b1 = b1
  b2 = b2
  b3 = b3
  Nil = Nil
  RpcProject = {A, B}
  Batch <- Batches
  Stream <- Streams
  Request <- Requests
  Delivery = {1, 2}
  BusyAttempts = 2
INVARIANTS NothingLostBehindCursor AnswersAreTrue
PROPERTIES EveryIntentClassified ImplementsIntentLog EveryDeliveryAnswered ImplementsOrderedStream
