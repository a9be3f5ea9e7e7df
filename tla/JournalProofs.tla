---------------------------- MODULE JournalProofs ----------------------------
(***************************************************************************)
(* Theorems about the journal handshake, for every set of rows and         *)
(* projects, every bound on the journal and every overshoot.               *)
(*                                                                         *)
(* The argument: an entry is classified only by an advance that covers it, *)
(* so the classified entries of a project all lie at or below its cursor   *)
(* (ClassifiedBehindCursor); and an advance leaves                         *)
(* nothing unclassified in the range it covers, so the entries at or below *)
(* the cursor are all classified (NothingLostBehindCursor, which needs     *)
(* moreover that no cursor is ahead of the newest entry).                  *)
(***************************************************************************)
EXTENDS JournalConsumer, SequenceTheorems, TLAPS

(* Appending an entry: the old entries stay and the new one is the last.     *)
LEMMA AppendEntry ==
  ASSUME NEW S, NEW s \in Seq(S), NEW x \in S
  PROVE  /\ Append(s, x) \in Seq(S)
         /\ Len(Append(s, x)) = Len(s) + 1
         /\ DOMAIN Append(s, x) = DOMAIN s \cup {Len(s) + 1}
         /\ \A i \in DOMAIN s : Append(s, x)[i] = s[i]
         /\ Append(s, x)[Len(s) + 1] = x
OBVIOUS

(* A sequence whose elements are replaced one by one.                        *)
LEMMA Rewritten ==
  ASSUME NEW S, NEW s \in Seq(S), NEW t,
         t = [i \in DOMAIN s |-> t[i]], \A i \in DOMAIN s : t[i] \in S
  PROVE  t \in Seq(S) /\ Len(t) = Len(s) /\ DOMAIN t = DOMAIN s
<1>1. DOMAIN s = 1 .. Len(s) /\ Len(s) \in Nat
  OBVIOUS
<1>2. t \in [1 .. Len(s) -> S]
  BY <1>1
<1> QED  BY <1>1, <1>2, SeqDef

(* What classifying some entries does: only the class of an item changes.    *)
LEMMA ClassifiedEntries ==
  ASSUME journal \in Seq(EntryType), NEW items,
         \A i \in DOMAIN items : items[i] \in JournalClass
  PROVE  /\ Classified(items) \in Seq(EntryType)
         /\ Len(Classified(items)) = Len(journal)
         /\ DOMAIN Classified(items) = DOMAIN journal
         /\ \A i \in DOMAIN journal :
              /\ Classified(items)[i].project = journal[i].project
              /\ i \in DOMAIN items => Classified(items)[i].class \in JournalClass
              /\ i \notin DOMAIN items => Classified(items)[i] = journal[i]
<1> DEFINE t == Classified(items)
<1>1. t = [i \in DOMAIN journal |-> t[i]]
  BY DEF Classified
<1>2. ASSUME NEW i \in DOMAIN journal
      PROVE  /\ t[i] \in EntryType
             /\ t[i].project = journal[i].project
             /\ i \in DOMAIN items => t[i].class \in JournalClass
             /\ i \notin DOMAIN items => t[i] = journal[i]
  <2>1. journal[i] \in EntryType
    BY ElementOfSeq
  <2>2. t[i] = IF i \in DOMAIN items THEN [journal[i] EXCEPT !.class = items[i]] ELSE journal[i]
    BY DEF Classified
  <2> QED  BY <2>1, <2>2 DEF EntryType
<1>3. t \in Seq(EntryType) /\ Len(t) = Len(journal) /\ DOMAIN t = DOMAIN journal
  <2> HIDE DEF t
  <2> QED  BY <1>1, <1>2, Rewritten
<1> QED  BY <1>2, <1>3

-----------------------------------------------------------------------------
(* Type correctness.                                                         *)

LEMMA ItemsAreClasses ==
  ASSUME NEW S, NEW items \in ItemBatches(S)
  PROVE  \A i \in DOMAIN items : items[i] \in JournalClass
BY DEF ItemBatches

(* The journal holds entries, never more than its bound, and every cursor is *)
(* a number: journalMutation, classifyAndAdvance and reclassifyDeferred      *)
(* write nothing else.                                                       *)
THEOREM TypeCorrect == Spec => []TypeOK
<1>1. Init => TypeOK
  BY BoundsAssumption, EmptySeq DEF Init, TypeOK
<1>2. ASSUME TypeOK, [Next]_jvars PROVE TypeOK'
  <2> USE <1>2 DEF TypeOK
  <2>1. CASE Record
    <3> PICK r \in Row, p \in Project, op \in JournalOp : JournalMutation(r, p, op)
      BY <2>1 DEF Record
    <3> DEFINE x == [row |-> r, project |-> p, op |-> op, class |-> Pending]
    <3>1. x \in EntryType
      BY DEF EntryType
    <3>2. journal' = Append(journal, x) /\ Len(journal) < MaxJournal /\ jcursor' = jcursor
      BY DEF JournalMutation
    <3> HIDE DEF x
    <3> QED  BY <3>1, <3>2, AppendEntry, BoundsAssumption
  <2>2. CASE Consume
    <3> PICK p \in Project, to \in 0 .. (Len(journal) + Overshoot) :
          \E items \in ItemBatches(Consumable(p, to)) : ClassifyAndAdvance(p, items, to)
      BY <2>2 DEF Consume
    <3> PICK items \in ItemBatches(Consumable(p, to)) : ClassifyAndAdvance(p, items, to)
      OBVIOUS
    <3>1. journal' = Classified(items) /\ jcursor' = [jcursor EXCEPT ![p] = to]
      BY DEF ClassifyAndAdvance
    <3>2. to \in Nat
      BY BoundsAssumption
    <3> QED  BY <3>1, <3>2, ItemsAreClasses, ClassifiedEntries
  <2>3. CASE Reconcile
    <3> PICK p \in Project :
          \E items \in ItemBatches({i \in DOMAIN journal : i <= jcursor[p]}) :
            ReclassifyDeferred(p, items)
      BY <2>3 DEF Reconcile
    <3> PICK items \in ItemBatches({i \in DOMAIN journal : i <= jcursor[p]}) :
          ReclassifyDeferred(p, items)
      OBVIOUS
    <3>1. journal' = Classified(items) /\ jcursor' = jcursor
      BY DEF ReclassifyDeferred
    <3> QED  BY <3>1, ItemsAreClasses, ClassifiedEntries
  <2>4. CASE UNCHANGED jvars
    BY <2>4 DEF jvars
  <2> QED  BY <1>2, <2>1, <2>2, <2>3, <2>4 DEF Next
<1> QED  BY <1>1, <1>2, PTL DEF Spec

-----------------------------------------------------------------------------
(* Nothing is consumed twice: whatever the worker asks, no entry becomes     *)
(* unclassified again and no cursor goes back.                               *)
THEOREM ConsumedOnce == Spec => NothingConsumedTwice
<1> DEFINE Step ==
      /\ \A p \in Project : jcursor'[p] >= jcursor[p]
      /\ \A i \in DOMAIN journal :
           journal'[i].class = Pending => journal[i].class = Pending
<1>1. ASSUME TypeOK, [Next]_jvars PROVE [Step]_jvars
  <2> USE <1>1 DEF TypeOK
  <2>0. \A p \in Project : jcursor[p] \in Nat
    OBVIOUS
  <2>1. CASE Record
    <3> PICK r \in Row, p \in Project, op \in JournalOp : JournalMutation(r, p, op)
      BY <2>1 DEF Record
    <3> DEFINE x == [row |-> r, project |-> p, op |-> op, class |-> Pending]
    <3>1. x \in EntryType
      BY DEF EntryType
    <3>2. journal' = Append(journal, x) /\ jcursor' = jcursor
      BY DEF JournalMutation
    <3> HIDE DEF x
    <3> QED  BY <2>0, <3>1, <3>2, AppendEntry
  <2>2. CASE Consume
    <3> PICK p \in Project, to \in 0 .. (Len(journal) + Overshoot) :
          \E items \in ItemBatches(Consumable(p, to)) : ClassifyAndAdvance(p, items, to)
      BY <2>2 DEF Consume
    <3> PICK items \in ItemBatches(Consumable(p, to)) : ClassifyAndAdvance(p, items, to)
      OBVIOUS
    <3>1. journal' = Classified(items) /\ jcursor' = [jcursor EXCEPT ![p] = to] /\ to >= jcursor[p]
      BY DEF ClassifyAndAdvance
    <3>2. Pending \notin JournalClass
      BY DEF Pending, JournalClass
    <3> QED  BY <2>0, <3>1, <3>2, ItemsAreClasses, ClassifiedEntries, BoundsAssumption
  <2>3. CASE Reconcile
    <3> PICK p \in Project :
          \E items \in ItemBatches({i \in DOMAIN journal : i <= jcursor[p]}) :
            ReclassifyDeferred(p, items)
      BY <2>3 DEF Reconcile
    <3> PICK items \in ItemBatches({i \in DOMAIN journal : i <= jcursor[p]}) :
          ReclassifyDeferred(p, items)
      OBVIOUS
    <3>1. journal' = Classified(items) /\ jcursor' = jcursor
      BY DEF ReclassifyDeferred
    <3>2. Pending \notin JournalClass
      BY DEF Pending, JournalClass
    <3> QED  BY <2>0, <3>1, <3>2, ItemsAreClasses, ClassifiedEntries
  <2> QED  BY <1>1, <2>1, <2>2, <2>3 DEF Next
<1> QED  BY <1>1, TypeCorrect, PTL DEF Spec, NothingConsumedTwice

-----------------------------------------------------------------------------
(* The disciplined worker.                                                   *)

(* What is classified lies behind the cursor.                                *)
ClassifiedBehindCursor ==
  \A i \in DOMAIN journal :
    journal[i].class # Pending => i <= jcursor[journal[i].project]

NoCursorAhead == \A p \in Project : jcursor[p] <= Len(journal)

LEMMA ClassifiedBehind ==
  Spec => []ClassifiedBehindCursor
<1>1. Init => ClassifiedBehindCursor
  BY DEF Init, ClassifiedBehindCursor
<1>2. ASSUME TypeOK, ClassifiedBehindCursor, [Next]_jvars
      PROVE  ClassifiedBehindCursor'
  <2> USE <1>2 DEF TypeOK, ClassifiedBehindCursor
  <2>0. /\ \A p \in Project : jcursor[p] \in Nat
        /\ \A i \in DOMAIN journal : i \in Nat /\ journal[i] \in EntryType
    BY ElementOfSeq
  <2>1. CASE Record
    <3> PICK r \in Row, p \in Project, op \in JournalOp : JournalMutation(r, p, op)
      BY <2>1 DEF Record
    <3> DEFINE x == [row |-> r, project |-> p, op |-> op, class |-> Pending]
    <3>1. x \in EntryType /\ x.class = Pending
      BY DEF EntryType
    <3>2. journal' = Append(journal, x) /\ jcursor' = jcursor
      BY DEF JournalMutation
    <3> HIDE DEF x
    <3> QED  BY <3>1, <3>2, AppendEntry
  <2>2. CASE Consume
    <3> PICK p \in Project, to \in 0 .. (Len(journal) + Overshoot) :
          \E items \in ItemBatches(Consumable(p, to)) : ClassifyAndAdvance(p, items, to)
      BY <2>2 DEF Consume
    <3> PICK items \in ItemBatches(Consumable(p, to)) : ClassifyAndAdvance(p, items, to)
      OBVIOUS
    <3>1. /\ journal' = Classified(items) /\ jcursor' = [jcursor EXCEPT ![p] = to]
          /\ to >= jcursor[p] /\ DOMAIN items \subseteq Consumable(p, to)
      BY DEF ClassifyAndAdvance
    <3>2. \A i \in DOMAIN items : i <= to /\ journal[i].project = p
      BY <3>1 DEF Consumable
    <3> SUFFICES ASSUME NEW i \in DOMAIN journal', journal'[i].class # Pending
                 PROVE  i <= jcursor'[journal'[i].project]
      OBVIOUS
    <3>3. i \in DOMAIN journal /\ journal'[i].project = journal[i].project
      BY <3>1, ItemsAreClasses, ClassifiedEntries
    <3>4. journal[i].project \in Project
      BY <2>0, <3>3 DEF EntryType
    <3>5. CASE i \in DOMAIN items
      BY <3>1, <3>2, <3>3, <3>5
    <3>6. CASE i \notin DOMAIN items
      <4>1. journal[i].class # Pending
        BY <3>1, <3>3, <3>6, ItemsAreClasses, ClassifiedEntries
      <4>2. i <= jcursor[journal[i].project]
        BY <3>3, <4>1
      <4> QED  BY <2>0, <3>1, <3>3, <3>4, <4>2, BoundsAssumption
    <3> QED  BY <3>5, <3>6
  <2>3. CASE Reconcile
    <3> PICK p \in Project :
          \E items \in ItemBatches({i \in DOMAIN journal : i <= jcursor[p]}) :
            ReclassifyDeferred(p, items)
      BY <2>3 DEF Reconcile
    <3> PICK items \in ItemBatches({i \in DOMAIN journal : i <= jcursor[p]}) :
          ReclassifyDeferred(p, items)
      OBVIOUS
    <3>1. /\ journal' = Classified(items) /\ jcursor' = jcursor
          /\ \A i \in DOMAIN items : i <= jcursor[p] /\ journal[i].project = p
      BY DEF ReclassifyDeferred
    <3> QED  BY <3>1, ItemsAreClasses, ClassifiedEntries
  <2>4. CASE UNCHANGED jvars
    BY <2>4 DEF jvars
  <2> QED  BY <1>2, <2>1, <2>2, <2>3, <2>4 DEF Next
<1> QED  BY <1>1, <1>2, TypeCorrect, PTL DEF Spec

(* No work is lost behind the cursor, if no cursor is asked to pass the      *)
(* newest entry (the handler compares it with the range's own entries only). *)
THEOREM NothingLost ==
  ASSUME Overshoot = 0
  PROVE  Spec => []NothingLostBehindCursor
<1> DEFINE IInv == NothingLostBehindCursor /\ NoCursorAhead
<1>1. Init => IInv
  BY DEF Init, NothingLostBehindCursor, NoCursorAhead
<1>2. ASSUME TypeOK, IInv, [Next]_jvars PROVE IInv'
  <2> USE <1>2 DEF TypeOK, NothingLostBehindCursor, NoCursorAhead
  <2>0. /\ \A p \in Project : jcursor[p] \in Nat
        /\ \A i \in DOMAIN journal : i \in Nat /\ journal[i] \in EntryType
        /\ Len(journal) \in Nat
    BY ElementOfSeq
  <2>1. CASE Record
    <3> PICK r \in Row, p \in Project, op \in JournalOp : JournalMutation(r, p, op)
      BY <2>1 DEF Record
    <3> DEFINE x == [row |-> r, project |-> p, op |-> op, class |-> Pending]
    <3>1. x \in EntryType /\ x.project \in Project
      BY DEF EntryType
    <3>2. journal' = Append(journal, x) /\ jcursor' = jcursor
      BY DEF JournalMutation
    <3> HIDE DEF x
    <3>3. NoCursorAhead'
      BY <2>0, <3>1, <3>2, AppendEntry
    <3>4. \A i \in DOMAIN journal : journal'[i] = journal[i]
      BY <3>1, <3>2, AppendEntry
    <3>5. DOMAIN journal' = DOMAIN journal \cup {Len(journal) + 1}
          /\ journal'[Len(journal) + 1] = x
      BY <3>1, <3>2, AppendEntry
    <3>6. ~ (Len(journal) + 1 <= jcursor[x.project])
      BY <2>0, <3>1
    <3> QED  BY <3>2, <3>3, <3>4, <3>5, <3>6
  <2>2. CASE Consume
    <3> PICK p \in Project, to \in 0 .. Len(journal) :
          \E items \in ItemBatches(Consumable(p, to)) : ClassifyAndAdvance(p, items, to)
      BY <2>0, <2>2 DEF Consume
    <3> PICK items \in ItemBatches(Consumable(p, to)) : ClassifyAndAdvance(p, items, to)
      OBVIOUS
    <3>1. /\ journal' = Classified(items) /\ jcursor' = [jcursor EXCEPT ![p] = to]
          /\ to >= jcursor[p]
          /\ \A i \in Consumable(p, to) : Classified(items)[i].class # Pending
      BY DEF ClassifyAndAdvance
    <3>2. /\ Len(journal') = Len(journal) /\ DOMAIN journal' = DOMAIN journal
          /\ \A i \in DOMAIN journal : journal'[i].project = journal[i].project
      BY <3>1, ItemsAreClasses, ClassifiedEntries
    <3>3. NoCursorAhead'
      BY <2>0, <3>1, <3>2
    <3> SUFFICES ASSUME NEW i \in DOMAIN journal, i <= jcursor'[journal[i].project]
                 PROVE  journal'[i].class # Pending
      BY <3>2, <3>3
    <3>4. journal[i].project \in Project
      BY <2>0 DEF EntryType
    <3>5. CASE i \in Consumable(p, to)
      BY <3>1, <3>5
    <3>6. CASE i \notin Consumable(p, to)
      <4>1. i <= jcursor[journal[i].project]
        BY <2>0, <3>1, <3>4, <3>6 DEF Consumable
      <4>2. journal[i].class # Pending
        BY <4>1
      <4>3. Pending \notin JournalClass
        BY DEF Pending, JournalClass
      <4> QED  BY <3>1, <4>2, <4>3, ItemsAreClasses, ClassifiedEntries
    <3> QED  BY <3>5, <3>6
  <2>3. CASE Reconcile
    <3> PICK p \in Project :
          \E items \in ItemBatches({i \in DOMAIN journal : i <= jcursor[p]}) :
            ReclassifyDeferred(p, items)
      BY <2>3 DEF Reconcile
    <3> PICK items \in ItemBatches({i \in DOMAIN journal : i <= jcursor[p]}) :
          ReclassifyDeferred(p, items)
      OBVIOUS
    <3>1. journal' = Classified(items) /\ jcursor' = jcursor
      BY DEF ReclassifyDeferred
    <3>2. Pending \notin JournalClass
      BY DEF Pending, JournalClass
    <3> QED  BY <3>1, <3>2, ItemsAreClasses, ClassifiedEntries
  <2>4. CASE UNCHANGED jvars
    BY <2>4 DEF jvars
  <2> QED  BY <1>2, <2>1, <2>2, <2>3, <2>4 DEF Next
<1> QED  BY <1>1, <1>2, TypeCorrect, PTL DEF Spec

(* What one step may do to a decision: an entry changes its class only while *)
(* it is pending or deferred, and then to a durable class.                   *)
LEMMA StepsSettle ==
  ASSUME TypeOK, ClassifiedBehindCursor,
         Consume \/ Reconcile
  PROVE  /\ DOMAIN journal' = DOMAIN journal
         /\ \A i \in DOMAIN journal :
              \/ journal'[i].class = journal[i].class
              \/ journal[i].class \in {Pending, "deferred"} /\ journal'[i].class \in JournalClass
<1> USE DEF TypeOK, ClassifiedBehindCursor
<1>0. /\ \A p \in Project : jcursor[p] \in Nat
      /\ \A i \in DOMAIN journal : i \in Nat /\ journal[i] \in EntryType
  BY ElementOfSeq
<1>1. CASE Consume
  <2> PICK p \in Project, to \in 0 .. (Len(journal) + Overshoot) :
        \E items \in ItemBatches(Consumable(p, to)) : ClassifyAndAdvance(p, items, to)
    BY <1>1 DEF Consume
  <2> PICK items \in ItemBatches(Consumable(p, to)) : ClassifyAndAdvance(p, items, to)
    OBVIOUS
  <2>1. journal' = Classified(items) /\ DOMAIN items \subseteq Consumable(p, to)
    BY DEF ClassifyAndAdvance
  <2>2. \A i \in DOMAIN items : jcursor[p] < i /\ journal[i].project = p
    BY <2>1 DEF Consumable
  <2>3. \A i \in DOMAIN journal : i \in DOMAIN items => journal[i].class = Pending
    BY <1>0, <2>2
  <2> QED  BY <2>1, <2>3, ItemsAreClasses, ClassifiedEntries
<1>2. CASE Reconcile
  <2> PICK p \in Project :
        \E items \in ItemBatches({i \in DOMAIN journal : i <= jcursor[p]}) :
          ReclassifyDeferred(p, items)
    BY <1>2 DEF Reconcile
  <2> PICK items \in ItemBatches({i \in DOMAIN journal : i <= jcursor[p]}) :
        ReclassifyDeferred(p, items)
    OBVIOUS
  <2>1. /\ journal' = Classified(items)
        /\ \A i \in DOMAIN items : journal[i].class = "deferred"
    BY DEF ReclassifyDeferred
  <2> QED  BY <2>1, ItemsAreClasses, ClassifiedEntries
<1> QED  BY <1>1, <1>2

(* Reconciliation never rewrites terminal or pending states, and no advance  *)
(* rewrites anything: a decision is final unless it was a deferral.          *)
THEOREM Finality == Spec => DecisionsAreFinal
<1> DEFINE Step ==
      \A i \in DOMAIN journal :
        journal'[i].class # journal[i].class => journal[i].class \in {Pending, "deferred"}
<1>1. ASSUME TypeOK, ClassifiedBehindCursor, [Next]_jvars PROVE [Step]_jvars
  <2>1. CASE Record
    <3> PICK r \in Row, p \in Project, op \in JournalOp : JournalMutation(r, p, op)
      BY <2>1 DEF Record
    <3> DEFINE x == [row |-> r, project |-> p, op |-> op, class |-> Pending]
    <3>1. x \in EntryType
      BY DEF EntryType
    <3>2. journal' = Append(journal, x)
      BY DEF JournalMutation
    <3> HIDE DEF x
    <3> QED  BY <1>1, <3>1, <3>2, AppendEntry DEF TypeOK
  <2>2. CASE Consume \/ Reconcile
    BY <1>1, <2>2, StepsSettle
  <2> QED  BY <1>1, <2>1, <2>2 DEF Next
<1> QED  BY <1>1, TypeCorrect, ClassifiedBehind, PTL DEF Spec, DecisionsAreFinal

(* The handshake implements the abstract log of intents: journalling records *)
(* one, and an advance or a reconciliation settles some.                     *)
THEOREM Refinement == Spec => Log!Spec
<1> DEFINE Outcome == [i \in DOMAIN journal |-> journal[i].class]
<1>1. Init => Log!Init
  BY DEF Init, Log!Init
<1>2. ASSUME TypeOK, ClassifiedBehindCursor, [Next]_jvars PROVE [Log!Next]_Outcome
  <2>1. CASE Record
    <3> PICK r \in Row, p \in Project, op \in JournalOp : JournalMutation(r, p, op)
      BY <2>1 DEF Record
    <3> DEFINE x == [row |-> r, project |-> p, op |-> op, class |-> Pending]
    <3>1. x \in EntryType /\ x.class = Pending
      BY DEF EntryType
    <3>2. journal' = Append(journal, x) /\ Len(journal) < MaxJournal
      BY DEF JournalMutation
    <3>3. journal \in Seq(EntryType) /\ Len(journal) \in Nat /\ DOMAIN journal = 1 .. Len(journal)
      BY <1>2 DEF TypeOK
    <3>4. Outcome' = Append(Outcome, Pending) /\ Len(Outcome) = Len(journal)
      <4> HIDE DEF x
      <4>1. /\ DOMAIN journal' = 1 .. (Len(journal) + 1)
            /\ \A i \in DOMAIN journal : journal'[i] = journal[i]
            /\ journal'[Len(journal) + 1] = x
        BY <3>1, <3>2, <3>3, AppendEntry
      <4>2. Outcome' = [i \in 1 .. (Len(journal) + 1) |->
                         IF i \in 1 .. Len(journal) THEN Outcome[i] ELSE Pending]
        BY <3>1, <3>3, <4>1
      <4>3. Outcome \in [1 .. Len(journal) -> {Outcome[i] : i \in DOMAIN journal}]
        BY <3>3
      <4>4. Outcome \in Seq({Outcome[i] : i \in DOMAIN journal}) /\ Len(Outcome) = Len(journal)
        BY <3>3, <4>3, SeqDef
      <4> QED  BY <3>3, <4>2, <4>4
    <3> QED  BY <3>2, <3>4 DEF Log!Next, Log!RecordIntent
  <2>2. CASE Consume \/ Reconcile
    <3>1. /\ DOMAIN journal' = DOMAIN journal
          /\ \A i \in DOMAIN journal :
               \/ journal'[i].class = journal[i].class
               \/ journal[i].class \in {Pending, "deferred"} /\ journal'[i].class \in JournalClass
      BY <1>2, <2>2, StepsSettle
    <3>2. Log!Settle
      BY <3>1 DEF Log!Settle, Log!Open, JournalClass
    <3> QED  BY <3>2 DEF Log!Next
  <2>3. CASE UNCHANGED jvars
    BY <2>3 DEF jvars
  <2> QED  BY <1>2, <2>1, <2>2, <2>3 DEF Next
<1> QED  BY <1>1, <1>2, TypeCorrect, ClassifiedBehind, PTL DEF Spec, Log!Spec
=============================================================================
