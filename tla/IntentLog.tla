------------------------------ MODULE IntentLog ------------------------------
(***************************************************************************)
(* What the journal promises, without cursors, batches or projects: an     *)
(* append-only log of local intents.  Each is undecided until a decision   *)
(* is made; a final decision is never revised, a revisable one may be      *)
(* replaced; and no intent stays undecided for ever.                       *)
(***************************************************************************)
EXTENDS Naturals, Sequences

CONSTANTS Undecided, Final, Revisable, MaxIntents

VARIABLE outcome

Open(i) == outcome[i] \in Revisable \cup {Undecided}

Init == outcome = <<>>

RecordIntent ==
  /\ Len(outcome) < MaxIntents
  /\ outcome' = Append(outcome, Undecided)

Settle ==
  /\ DOMAIN outcome' = DOMAIN outcome
  /\ \A i \in DOMAIN outcome :
       \/ outcome'[i] = outcome[i]
       \/ Open(i) /\ outcome'[i] \in Final \cup Revisable

Next == RecordIntent \/ Settle

Spec == Init /\ [][Next]_outcome

FairSpec ==
  /\ Spec
  /\ \A i \in 1 .. MaxIntents :
       (i \in DOMAIN outcome) ~> (i \in DOMAIN outcome /\ outcome[i] # Undecided)
=============================================================================
