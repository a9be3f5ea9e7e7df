------------------------------ MODULE MCSkipGate ------------------------------
(***************************************************************************)
(* Three parts that act on what they have read before: the cache of the     *)
(* hooks (SkipGate), the memory tool (MemoryFiles) and the evaluations of a *)
(* Stop (Governance).  They share no state, and a behaviour is one of them. *)
(***************************************************************************)
EXTENDS SkipGate, Governance, MemoryFiles, TLC

CONSTANTS A, i1, i2, f1, f2, t1, t2, c1, p, g, r1

VARIABLE part

-----------------------------------------------------------------------------
\* The memory tool: one agent against every other writer, two rows whose ids
\* collide ...
SameStem == [i \in {i1, i2} |-> 1]
NoHome == <<>>

\* ... or one row and, in each scope, a free-form file of its own.
Files == INSTANCE MemoryFiles WITH
  FreeFile <- {f1, f2}, Home <- [x \in {f1, f2} |-> IF x = f1 THEN A ELSE Global],
  MaxFiles <- 1, MaxRowRevision <- 2

\* One session, and a gate that is owed for every path: hooks, verdicts and
\* warnings in any order.
StopPathRules == [c \in {c1} |-> {[paths |-> {{p}}, require |-> {g}]}]
NamesNothing == [r \in {r1} |-> {}]
StopTool == {[tool |-> "edit", paths |-> {p}, gate |-> Nil, ok |-> TRUE],
             [tool |-> "bash", paths |-> {}, gate |-> g, ok |-> TRUE]}

ASSUME Files!MemoryFilesAssumption

-----------------------------------------------------------------------------
MCInit ==
  /\ Init /\ GovernanceInit
  /\ \/ part \in {"skip", "rows", "stops"} /\ FilesInit
     \/ part = "files" /\ Files!FilesInit

MCNext ==
  \/ part = "skip" /\ Next /\ UNCHANGED <<part, memoryFiles, governance>>
  \/ part = "rows" /\ FilesNext /\ UNCHANGED <<part, vars, governance>>
  \/ part = "files" /\ Files!FilesNext /\ (\E i \in Id : rec'[i] = Missing) /\ UNCHANGED <<part, vars, governance>>
  \/ part = "stops" /\ GovernanceNext /\ UNCHANGED <<part, vars, memoryFiles>>

MCSpec == MCInit /\ [][MCNext]_<<part, vars, memoryFiles, governance>>

\* Keys, ids and texts are only compared.
Symmetry == Permutations(Key) \cup Permutations({i1, i2}) \cup Permutations({t1, t2})
=============================================================================
