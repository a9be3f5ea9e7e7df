---------------------------- MODULE OrderedStream ----------------------------
(***************************************************************************)
(* What the owner RPC promises of batches, without deliveries, attempts or *)
(* answers: a batch takes effect at most once, and each effect takes its   *)
(* project further along its stream: the next events, all of them up to    *)
(* some point, none of them twice.                                         *)
(***************************************************************************)
EXTENDS Naturals, Sequences

CONSTANTS
  Project, Batch,
  Stream        \* [Project -> SUBSET (Nat \ {0})], the sequence numbers in use

VARIABLES
  applied,      \* per project, the sets of events its batches applied, in order
  committed     \* batch ids with a durable result

svars == <<applied, committed>>

Done(p) == UNION {applied[p][i] : i \in DOMAIN applied[p]}

Init ==
  /\ applied = [p \in Project |-> <<>>]
  /\ committed = {}

Take(b, p, to) ==
  /\ b \notin committed
  /\ \A e \in Done(p) : e <= to
  /\ committed' = committed \cup {b}
  /\ applied' = [applied EXCEPT ![p] = Append(@, {e \in Stream[p] \ Done(p) : e <= to})]

Next == \E b \in Batch, p \in Project : \E to \in Stream[p] \cup {0} : Take(b, p, to)

Spec == Init /\ [][Next]_svars
=============================================================================
