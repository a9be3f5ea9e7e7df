------------------------------ MODULE MCReplica ------------------------------
(* Instances of Replica for TLC. *)
EXTENDS Replica, TLC

CONSTANTS A, B, e1, e2, e3, x1, x2, x3, v1, v2, u1, u2, s1

\* The cleaning function: identity, or one that rewrites x3 to x1.
CleanIdentity == [x \in Text |-> x]
CleanRewriting == [x \in Text |-> IF x = x3 THEN x1 ELSE x]

\* A git rename: no anchor touched, or the anchor of x1 rewritten.
NoRepair == [x \in Text |-> x]
RepairX1 == [x \in Text |-> IF x = x1 /\ {x2, x3} \cap Text # {} THEN CHOOSE y \in Text : y \in {x2, x3} ELSE x]

\* Each entity has contributors of its own.
OneContributor == [e \in Entity |-> {{u1}}]
TwoContributors == [e \in Entity |-> IF e = e1 THEN {{u1}} ELSE {{u2}}]
NoRescope == {}
RenameAToB == {<<A, B>>}

\* Texts and volatile values are only compared.
Payloads == Permutations(Text) \cup Permutations(Vol)
=============================================================================
