-------------------------------- MODULE MCSync --------------------------------
(***************************************************************************)
(* The two handshakes between this store and the sync worker, for TLC: what *)
(* goes out is taken from the journal (JournalConsumer), what comes in is   *)
(* delivered to the owner of the socket (OwnerRpc).  They share no state,   *)
(* and a behaviour is one of them.                                          *)
(***************************************************************************)
EXTENDS JournalConsumer, OwnerRpc

CONSTANTS A, B, r1, b1, b2, b3

VARIABLE part

-----------------------------------------------------------------------------
\* A stream of three events with a gap, cut in two overlapping ways, and batch
\* ids used for another body and another project.
Batches == {b1, b2, b3}
Streams == [p \in RpcProject |-> IF p = A THEN {1, 2, 4} ELSE {1}]
Requests == {
  [batch |-> b1, project |-> A, events |-> {1, 2}],
  [batch |-> b2, project |-> A, events |-> {2, 4}],
  [batch |-> b3, project |-> A, events |-> {1}],
  [batch |-> b3, project |-> A, events |-> {4}],
  [batch |-> b2, project |-> B, events |-> {}],
  [batch |-> b1, project |-> B, events |-> {1}]}

-----------------------------------------------------------------------------
MCInit == part \in {"journal", "deliveries"} /\ Init /\ RpcInit

MCNext ==
  \/ part = "journal" /\ Next /\ UNCHANGED <<part, rpcvars>>
  \/ part = "deliveries" /\ RpcNext /\ UNCHANGED <<part, jvars>>

MCSpec == MCInit /\ [][MCNext]_<<part, jvars, rpcvars>>

\* The worker keeps asking; Node runs every timer and every queued callback.
Consumed(p) == part = "journal" /\ ConsumeNext(p)
Attempted(d) == part = "deliveries" /\ Attempt(d)

MCFairSpec ==
  /\ MCSpec
  /\ \A p \in Project : WF_jvars(Consumed(p))
  /\ \A d \in Delivery : WF_rpcvars(Attempted(d))
=============================================================================
