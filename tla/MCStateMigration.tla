--------------------------- MODULE MCStateMigration ---------------------------
(***************************************************************************)
(* The file of the store: the move to another directory (StateMigration)    *)
(* and what every process does when it opens it (StoreOpen).  A process     *)
(* opens one file or the other: the two are checked apart, and a behaviour  *)
(* is one of either.                                                        *)
(***************************************************************************)
EXTENDS StateMigration, StoreOpen, TLC

CONSTANTS p1, p2, p3, r1, r2, r3

VARIABLE part

-----------------------------------------------------------------------------
Found(version, has) ==
  [versions |-> <<version>>, has |-> has, rows |-> {}, wal |-> {}, corrupt |-> FALSE]

V28 == {"legacy", "rule", "fts"}
V29 == V28 \cup {"origin"}
V31 == V29 \cup {"rollup", "events", "dedup"}

\* What three processes may find: no file, every version from 28 on, v30 before
\* the events column, v32 in two of its shapes before the release, and an index
\* that lost its rows.
Released ==
  {Nil, Found(28, V28), Found(29, V29), Found(29, V29 \ {"fts"}), Found(30, V29 \cup {"rollup"}),
   Found(30, V29 \cup {"rollup", "events"}), Found(31, V31),
   Found(32, V31 \cup {"team", "rowid"}), Found(32, V31 \cup {"team", "cause", "reverted"}),
   Found(32, V31 \cup {"team", "rowid", "cause"})}

\* With a row that has reached the main file: before the rebuild of v28, which
\* one process at a time may see, and of the current version.
Older == {Found(26, {}), [Found(27, {"legacy", "fts"}) EXCEPT !.rows = {r1}]}
Current == [Found(32, Full) EXCEPT !.rows = {r1}]

\* A file that is damaged again and again.
R == INSTANCE StoreOpen WITH
  Row <- {r1, r2, r3}, Start <- Older \cup {Current}, MaxOpens <- 4, MaxCorruptions <- 2

ASSUME R!StoreAssumption

-----------------------------------------------------------------------------
\* Nobody migrates, and no file is open.
MigrationRests == Init /\ haveConfig = FALSE /\ dir.db = Absent /\ dir.config = Absent
OpeningRests == path = Nil /\ StoreInit

MCInit ==
  \/ part = "migrate" /\ Init /\ OpeningRests
  \/ part = "open" /\ MigrationRests /\ StoreInit
  \/ part \in {"older", "recover"} /\ MigrationRests /\ R!StoreInit
       /\ (part = "older" <=> Version(db[1]) < 28)

AtATime(n) == Cardinality({p \in Process : at'[p] # "closed"}) <= n

MCNext ==
  \/ part = "migrate" /\ Next /\ UNCHANGED <<part, opening>>
  \/ part = "open" /\ StoreNext /\ UNCHANGED <<part, vars>>
  \/ part = "older" /\ R!StoreNext /\ UNCHANGED <<part, vars>> /\ AtATime(1)
  \/ part = "recover" /\ R!StoreNext /\ UNCHANGED <<part, vars>> /\ AtATime(2)

MCSpec == MCInit /\ [][MCNext]_<<part, vars, opening>>

Symmetry == Permutations(Migrator) \cup Permutations(HandFile) \cup Permutations({p2, p3})
=============================================================================
