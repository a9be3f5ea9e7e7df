------------------------------ MODULE Governance ------------------------------
(***************************************************************************)
(* Governance of one project: tool calls leave events and gate runs behind,*)
(* policy rules say which gates a session owes, and at a Stop an evaluator *)
(* decides from that evidence whether the session may be called finished.  *)
(*                                                                         *)
(* Hooks are delivered late, twice or never, digests are captured across   *)
(* awaits, and several processes record and evaluate over one database.    *)
(* A pattern is the set of the paths it matches, so "**" is Path.          *)
(***************************************************************************)
EXTENDS Naturals, Sequences, FiniteSets

CONSTANTS
  Session, Path, Gate,
  ReadOnly,      \* gates whose command is on the read-only allowlist
  Config,        \* contents gates.json may have
  PathRules,     \* [Config -> sets of [paths, require]]
  Rule, RuleGates, RulePaths,  \* policy rules: the gates and paths each names
  Tool,          \* tool calls a session may make: [tool, paths, gate, ok]
  Evaluator,     \* evaluations of a Stop that may be in progress at the same time
  MaxWarnings,   \* GOVERNANCE_BOUNDS.WARNING_MAX_PER_SESSION
  Nil,
  MaxRecording,  \* gate runs recorded at the same time, a bound of the model
  MaxCalls, MaxTree, MaxRevision  \* bounds of the model

Patterns == SUBSET Path

ASSUME GovernanceAssumption ==
  /\ ReadOnly \subseteq Gate
  /\ Tool \subseteq [tool: {"edit", "bash"}, paths: SUBSET Path, gate: Gate \cup {Nil}, ok: BOOLEAN]
  /\ \A t \in Tool : t.tool = "edit" => t.paths # {} /\ t.gate = Nil
  /\ \A t \in Tool : t.gate \in ReadOnly => t.paths = {}
  /\ PathRules \in [Config -> SUBSET [paths: SUBSET Patterns, require: SUBSET Gate]]
  /\ RuleGates \in [Rule -> SUBSET Gate] /\ RulePaths \in [Rule -> SUBSET Patterns]
  /\ {MaxWarnings, MaxRecording, MaxCalls, MaxTree, MaxRevision} \subseteq Nat /\ MaxRevision > 0

VARIABLES
  tree,       \* the content of each path
  config,     \* gates.json as it is on disk
  calls,      \* tool calls made; the index is the tool_use_id
  recording,  \* gate runs whose digest is captured and that are not recorded yet
  events,     \* governance_tool_events with their gate runs; the index is event_seq
  mutations,  \* the project's mutation sequence, in maintenance_meta
  rule,       \* the current revision of each policy rule
  mark,       \* per rule and revision, the event_seq at its first observation
  eval,       \* evaluations in progress
  verdict,    \* whether each evaluator's last verdict was "pass"
  warned      \* per session, the fingerprints of the warnings emitted, in order

recorded == <<events, mutations>>
policy == <<rule, mark>>
evaluations == <<eval, verdict, warned>>
governance == <<tree, config, calls, recording, recorded, policy, evaluations>>

-----------------------------------------------------------------------------
(* Tool calls and their recording.                                         *)

Change(P) ==
  /\ \A p \in P : tree[p] < MaxTree
  /\ tree' = [p \in Path |-> IF p \in P THEN tree[p] + 1 ELSE tree[p]]

\* A tool call: an edit of some paths, or a Bash command, which may be the
\* command of a gate and may change anything unless it is read-only.
Call(s, t) ==
  /\ Len(calls) < MaxCalls
  /\ Change(t.paths)
  /\ calls' = Append(calls,
       [session |-> s, tool |-> t.tool, paths |-> t.paths, gate |-> t.gate, ok |-> t.ok])
  /\ UNCHANGED <<config, recording, recorded, policy, evaluations>>

\* Somebody edits a file, or gates.json, outside the session's tools.
Outside(P, c) ==
  /\ Change(P) /\ config' = c
  /\ UNCHANGED <<calls, recording, recorded, policy, evaluations>>

Hook == [hook: {"tool"}, path: {Nil}] \cup [hook: {"changed"}, path: Path]

\* Which hooks a call has: the one after the tool, and FileChanged per file.
Hooks(i) == {h \in Hook : h.hook = "changed" => calls[i].tool = "edit" /\ h.path \in calls[i].paths}

Scoped(P) == [class |-> "scoped", paths |-> P]
Unknown == [class |-> "unknown", paths |-> {}]
None == [class |-> "none", paths |-> {}]

ClassifyMutation(i, h) ==
  CASE h.hook = "changed" -> Scoped({h.path})
    [] h.hook = "tool" /\ ~calls[i].ok -> Unknown
    [] h.hook = "tool" /\ calls[i].ok ->
         IF calls[i].tool = "edit" THEN Scoped(calls[i].paths)
         ELSE IF calls[i].gate \in ReadOnly THEN None ELSE Unknown

\* A tool call has at most one event per kind of hook.
Deduped(i, h) == \E e \in DOMAIN events : events[e].call = i /\ events[e].hook = h.hook

\* Fault: the two reports of one edit are not related to each other.
NeverCorrelated(i, h, m) == FALSE

\* The other hook of this call has reported the same change.
IsCorrelated(i, h, m) ==
  /\ m.class = "scoped"
  /\ \E e \in DOMAIN events :
       /\ events[e].call = i /\ events[e].hook # h.hook
       /\ events[e].class = "scoped" /\ events[e].paths = m.paths

RecordToolEvent(i, h, runs) ==
  LET m == ClassifyMutation(i, h)
      increments == m.class # "none" /\ ~IsCorrelated(i, h, m)
  IN  /\ mutations' = mutations + IF increments THEN 1 ELSE 0
      /\ events' = Append(events, [session |-> calls[i].session, call |-> i, hook |-> h.hook,
                                   class |-> m.class, paths |-> m.paths, runs |-> runs])

IsGateRun(i, h) == h.hook = "tool" /\ calls[i].gate # Nil

\* An event that is not a gate run: one immediate transaction.
Record(i, h) ==
  /\ ~IsGateRun(i, h) /\ ~Deduped(i, h)
  /\ RecordToolEvent(i, h, {})
  /\ UNCHANGED <<tree, config, calls, recording, policy, evaluations>>

Digest(patterns) == [p \in UNION patterns |-> tree[p]]

OrEverything(patterns) == IF patterns = {} THEN {Path} ELSE patterns
Requiring(c, g) == {r \in PathRules[c] : g \in r.require}

\* The recorder looks at the configuration only.
RecorderPaths(c, g) == OrEverything(UNION {r.paths : r \in Requiring(c, g)})

\* A gate's command has ended: its digest is captured before the transaction,
\* against the configuration and the tree as they are now.
CaptureGateRun(i) ==
  LET patterns == RecorderPaths(config, calls[i].gate)
  IN  /\ calls[i].gate # Nil /\ Cardinality(recording) < MaxRecording
      /\ \E result \in {IF calls[i].ok THEN "complete" ELSE "failed", "incomplete"} :
           recording' = recording \cup {[call |-> i, run |->
             [gate |-> calls[i].gate, config |-> config, result |-> result,
              patterns |-> patterns, digest |-> Digest(patterns)]]}
      /\ UNCHANGED <<tree, config, calls, recorded, policy, evaluations>>

RecordGateRun(r) ==
  LET h == [hook |-> "tool", path |-> Nil]
  IN  /\ recording' = recording \ {r}
      /\ IF Deduped(r.call, h) THEN UNCHANGED recorded
         ELSE RecordToolEvent(r.call, h, {r.run})
      /\ UNCHANGED <<tree, config, calls, policy, evaluations>>

-----------------------------------------------------------------------------
(* Policy rules.                                                           *)

\* supersede, disable and retire: a new revision, guarded by the old one.
Revise(r, status) ==
  /\ rule[r].revision < MaxRevision
  /\ rule[r].status = "active" \/ (rule[r].status = "disabled" /\ status = "retired")
  /\ rule' = [rule EXCEPT ![r] = [revision |-> @.revision + 1, status |-> status]]
  /\ UNCHANGED <<tree, config, calls, recording, recorded, mark, evaluations>>

ActiveRules == {r \in Rule : rule[r].status = "active"}

-----------------------------------------------------------------------------
(* Which gates a session owes, and what its evidence for them is worth.    *)
(* R is a set of observed rules [rule, revision, mark], E a set of events. *)

Of(class, E) == {e \in E : events[e].class = class}
ChangedPaths(E) == UNION {events[e].paths : e \in Of("scoped", E)}
UnknownMutation(E) == Of("unknown", E) # {}

Matches(p, patterns) == patterns = {} \/ \E pattern \in patterns : p \in pattern
SomeChanged(E, patterns) == \E p \in ChangedPaths(E) : Matches(p, patterns)

Applicable(R, E) ==
  {r \in R : UnknownMutation(E) \/ RulePaths[r.rule] = {} \/ SomeChanged(E, RulePaths[r.rule])}

SelectedPathRules(c, E) ==
  {r \in PathRules[c] : IF UnknownMutation(E) THEN Path \in r.paths ELSE SomeChanged(E, r.paths)}

RequiredGates(c, R, E) ==
  (UNION {r.require : r \in SelectedPathRules(c, E)}) \cup (UNION {RuleGates[r.rule] : r \in Applicable(R, E)})

RelevantPaths(c, R, E, g) == OrEverything(
  (UNION {r.paths : r \in Requiring(c, g)}) \cup
  (UNION {OrEverything(RulePaths[r.rule]) : r \in {a \in Applicable(R, E) : g \in RuleGates[a.rule]}}))

Latest(S) == CHOOSE x \in S : \A y \in S : y <= x

\* Every applicable rule counts for every gate.
Watermark(R, E) == Latest({0} \cup {r.mark : r \in Applicable(R, E)})

EligibleRuns(c, g, w, E) ==
  {e \in E : e > w /\ \E run \in events[e].runs : run.gate = g /\ run.config = c}

Intersects(e, patterns) ==
  \/ events[e].class = "unknown"
  \/ events[e].class = "scoped" /\ \E p \in events[e].paths : Matches(p, patterns)

LaterMutation(e, E, patterns) == \E f \in E : f > e /\ Intersects(f, patterns)

\* What the evidence for gate g is worth against the digest captured now.
GateEvidence(c, R, E, g, digest) ==
  LET eligible == EligibleRuns(c, g, Watermark(R, E), E)
      patterns == RelevantPaths(c, R, E, g)
      e == Latest(eligible)
      run == CHOOSE x \in events[e].runs : x.gate = g
  IN  IF eligible = {} THEN "missing"
      ELSE CASE run.result = "failed" -> "non_pass"
             [] run.result = "incomplete" -> "missing"
             [] run.result = "complete" ->
                  IF run.patterns # patterns THEN "missing"
                  ELSE IF LaterMutation(e, E, patterns) THEN "stale_mutation"
                  ELSE IF run.digest # digest THEN "stale_digest"
                  ELSE "fresh_pass"

\* resolveShadowPrecedence: states are those of the required gates.
Precedence(applicable, degraded, states) ==
  IF applicable = {} THEN "not_applicable"
  ELSE IF degraded THEN "degraded"
  ELSE IF "non_pass" \in states THEN "non_pass"
  ELSE IF states \cap {"stale_mutation", "stale_digest"} # {} THEN "stale"
  ELSE IF states = {} \/ "missing" \in states THEN "missing"
  ELSE "pass"

-----------------------------------------------------------------------------
(* Evaluation at a Stop.                                                   *)

Resting == [stage |-> "idle"]

\* A Stop is evaluated twice: for a warning by the synchronous governance-gate
\* route, for the audit by the stop hook.  Both attempts of an evaluation use
\* the configuration loaded first.
Begin(e, s, warns) ==
  /\ eval[e] = Resting
  /\ eval' = [eval EXCEPT ![e] = [stage |-> "snapshot", session |-> s, warns |-> warns, config |-> config,
       attempt |-> 0, seq |-> 0, mutations |-> 0, rules |-> {}, digests |-> <<>>]]
  /\ verdict' = [verdict EXCEPT ![e] = "none"]
  /\ UNCHANGED <<tree, config, calls, recording, recorded, policy, warned>>

\* Only the session's events and runs count, but the project's sequence.
SessionEvents(s, n) == {i \in 1 .. n : events[i].session = s}
Seen(e) == SessionEvents(eval[e].session, eval[e].seq)

ObservedRules == {[rule |-> r, revision |-> rule[r].revision, mark |-> mark[r][rule[r].revision]] :
                    r \in ActiveRules}
Unmarked(R) == {r \in R : r.mark = Nil}

Finish(e, result) ==
  /\ eval' = [eval EXCEPT ![e] = Resting]
  /\ verdict' = [verdict EXCEPT ![e] = IF result = "pass" THEN "pass" ELSE "withheld"]

\* One deferred transaction over the whole database; the second time, after
\* the watermarks, an unmarked rule is a fault.
ReadSnapshot(e) ==
  /\ eval[e].stage \in {"snapshot", "refresh"}
  /\ LET missing == Unmarked(ObservedRules) # {}
         next == IF missing THEN "mark" ELSE "digest"
     IN  IF missing /\ eval[e].stage = "refresh" THEN Finish(e, "self_error")
         ELSE /\ eval' = [eval EXCEPT ![e].stage = next, ![e].seq = Len(events),
                   ![e].mutations = mutations, ![e].rules = ObservedRules, ![e].digests = <<>>]
              /\ UNCHANGED verdict
  /\ UNCHANGED <<tree, config, calls, recording, recorded, policy, warned>>

IsCurrent(r) == rule[r.rule].status = "active" /\ rule[r.rule].revision = r.revision

ShadowSequence == Len(events)

\* ensureShadowRuleWatermarks.  A watermark another evaluator has set since
\* the snapshot asks for no refresh, and the snapshot still lacks it.
EnsureWatermarks(e) ==
  /\ eval[e].stage = "mark"
  /\ LET absent == {r \in eval[e].rules : mark[r.rule][r.revision] = Nil}
         first == {r.rule : r \in {x \in absent : IsCurrent(x)}}
     IN  /\ mark' = [r \in Rule |-> IF r \in first
                       THEN [mark[r] EXCEPT ![rule[r].revision] = ShadowSequence] ELSE mark[r]]
         /\ IF absent = {} THEN Finish(e, "self_error")
            ELSE eval' = [eval EXCEPT ![e].stage = "refresh"] /\ UNCHANGED verdict
  /\ UNCHANGED <<tree, config, calls, recording, recorded, rule, warned>>

Owed(e) == IF Applicable(eval[e].rules, Seen(e)) = {} THEN {}
           ELSE RequiredGates(eval[e].config, eval[e].rules, Seen(e))
PathsOf(e, g) == RelevantPaths(eval[e].config, eval[e].rules, Seen(e), g)
Uncaptured(e) == Owed(e) \ DOMAIN eval[e].digests

\* Gates that depend on the same paths share one capture.
CaptureDigest(e, g) ==
  LET same == {h \in Uncaptured(e) : PathsOf(e, h) = PathsOf(e, g)}
      known == eval[e].digests
  IN  /\ eval[e].stage = "digest" /\ g \in Uncaptured(e)
      /\ eval' = [eval EXCEPT ![e].digests =
           [h \in DOMAIN known \cup same |-> IF h \in same THEN Digest(PathsOf(e, g)) ELSE known[h]]]
      /\ UNCHANGED <<tree, config, calls, recording, recorded, policy, verdict, warned>>

StateOf(e, g) == GateEvidence(eval[e].config, eval[e].rules, Seen(e), g, eval[e].digests[g])
ResultOf(e, degraded) ==
  Precedence(Applicable(eval[e].rules, Seen(e)), degraded, {StateOf(e, g) : g \in Owed(e)})

\* Fault: the sequence is not compared again.
NoRecheck(e) == TRUE

Unchanged(e) == eval[e].seq = Len(events) /\ eval[e].mutations = mutations

Again(e) == eval' = [eval EXCEPT ![e].stage = "snapshot", ![e].attempt = 1] /\ UNCHANGED verdict

\* The comparison and the verdict are one immediate transaction.  A warning
\* evaluation only compares, and goes on to its audit afterwards.
Resolve(e) ==
  /\ eval[e].stage = "digest" /\ Uncaptured(e) = {}
  /\ \/ /\ Unchanged(e)
        /\ \E degraded \in BOOLEAN :
             IF eval[e].warns /\ ResultOf(e, degraded) \in {"missing", "non_pass", "stale"}
             THEN eval' = [eval EXCEPT ![e].stage = "warn"] /\ UNCHANGED verdict
             ELSE Finish(e, ResultOf(e, degraded))
     \/ ~Unchanged(e) /\ eval[e].attempt = 0 /\ Again(e)
     \/ ~Unchanged(e) /\ eval[e].attempt = 1 /\ Finish(e, "self_error")
  /\ UNCHANGED <<tree, config, calls, recording, recorded, policy, warned>>

\* A deadline, a digest race or a failed read: nothing is decided.  To write
\* the fault down, once there is a snapshot, is a comparison as well.
Fail(e) ==
  /\ eval[e].stage \notin {"idle", "warn"}
  /\ IF eval[e].stage = "digest" /\ ~eval[e].warns /\ ~Unchanged(e) /\ eval[e].attempt = 0
       THEN Again(e) ELSE Finish(e, "self_error")
  /\ UNCHANGED <<tree, config, calls, recording, recorded, policy, warned>>

Fingerprint(e) ==
  [config |-> eval[e].config, digests |-> eval[e].digests,
   unresolved |-> {<<g, StateOf(e, g)>> : g \in {h \in Owed(e) : StateOf(e, h) # "fresh_pass"}}]

Emitted(s) == {warned[s][i] : i \in DOMAIN warned[s]}

Eligible(s, f) == f \notin Emitted(s) /\ Len(warned[s]) < MaxWarnings

\* The history is read and the decision written in one immediate transaction.
CommitWarning(e) ==
  /\ eval[e].stage = "warn"
  /\ LET s == eval[e].session IN
       warned' = IF Eligible(s, Fingerprint(e))
                 THEN [warned EXCEPT ![s] = Append(@, Fingerprint(e))] ELSE warned
  /\ Finish(e, ResultOf(e, FALSE))
  /\ UNCHANGED <<tree, config, calls, recording, recorded, policy>>

-----------------------------------------------------------------------------

GovernanceInit ==
  /\ tree = [p \in Path |-> 0] /\ config \in Config
  /\ calls = <<>> /\ recording = {} /\ events = <<>> /\ mutations = 0
  /\ rule = [r \in Rule |-> [revision |-> 1, status |-> "active"]]
  /\ mark = [r \in Rule |-> [n \in 1 .. MaxRevision |-> Nil]]
  /\ eval = [e \in Evaluator |-> Resting] /\ verdict = [e \in Evaluator |-> "none"]
  /\ warned = [s \in Session |-> <<>>]

Deliver == \E i \in DOMAIN calls : CaptureGateRun(i) \/ \E h \in Hooks(i) : Record(i, h)

Evaluate(e) ==
  \/ \E s \in Session, warns \in BOOLEAN : Begin(e, s, warns)
  \/ ReadSnapshot(e) \/ EnsureWatermarks(e) \/ Resolve(e) \/ Fail(e) \/ CommitWarning(e)
  \/ \E g \in Gate : CaptureDigest(e, g)

GovernanceNext ==
  \/ \E s \in Session, t \in Tool : Call(s, t)
  \/ \E P \in SUBSET Path, c \in Config : Outside(P, c)
  \/ Deliver
  \/ \E r \in recording : RecordGateRun(r)
  \/ \E r \in Rule, status \in {"active", "disabled", "retired"} : Revise(r, status)
  \/ \E e \in Evaluator : Evaluate(e)

GovernanceSpec == GovernanceInit /\ [][GovernanceNext]_governance

-----------------------------------------------------------------------------

GateRun == [gate: Gate, config: Config, result: {"complete", "failed", "incomplete"},
            patterns: SUBSET Patterns, digest: UNION {[P -> 0 .. MaxTree] : P \in SUBSET Path}]

(* Every variable has its type; an evaluation in its digest stage knows the  *)
(* watermark of every rule it observed, and a watermark is the sequence of   *)
(* an event that exists (shadow-snapshot-store.ts).                          *)
GovernanceTypeOK ==
  /\ tree \in [Path -> 0 .. MaxTree] /\ config \in Config
  /\ \A r \in recording : r.call \in DOMAIN calls /\ r.run \in GateRun
  /\ \A i \in DOMAIN events :
       /\ events[i].call \in DOMAIN calls /\ events[i].session = calls[events[i].call].session
       /\ events[i].runs \subseteq GateRun
       /\ events[i].class \in {"none", "scoped", "unknown"} /\ events[i].paths \subseteq Path
  /\ mutations \in 0 .. Len(events)
  /\ rule \in [Rule -> [revision: 1 .. MaxRevision, status: {"active", "disabled", "retired"}]]
  /\ mark \in [Rule -> [1 .. MaxRevision -> 0 .. Len(events) \cup {Nil}]]
  /\ \A e \in Evaluator : eval[e] # Resting =>
       /\ eval[e].seq \in 0 .. Len(events) /\ eval[e].attempt \in {0, 1}
       /\ eval[e].stage \in {"digest", "warn"} => Unmarked(eval[e].rules) = {}
       /\ DOMAIN eval[e].digests \subseteq Gate

(* However an edit is reported, by the tool's own hook, by the file watcher  *)
(* or by both, in whichever order and however often, it advances the         *)
(* project's mutation sequence once (recorder-store.ts, recordToolEvent).    *)
ChangesCountedOnce ==
  mutations = Cardinality({<<events[i].call, events[i].paths>> : i \in Of("scoped", DOMAIN events)})
            + Cardinality(Of("unknown", DOMAIN events))

Decides(e) == eval[e] # Resting /\ verdict[e] # "pass" /\ verdict'[e] = "pass"

\* The evidence behind e's verdict, judged by what is recorded now.
EvidenceIsCurrent(e) ==
  LET E == SessionEvents(eval[e].session, Len(events))
      R == eval[e].rules
  IN  /\ Applicable(R, E) # {} /\ RequiredGates(eval[e].config, R, E) # {}
      /\ \A g \in RequiredGates(eval[e].config, R, E) :
           \E i \in E : \E run \in events[i].runs :
             /\ run.gate = g /\ run.config = eval[e].config /\ run.result = "complete"
             /\ \A r \in Applicable(R, E) : mark[r.rule][r.revision] < i
             /\ run.digest = eval[e].digests[g]
             /\ \A j \in E : j > i => ~Intersects(j, RelevantPaths(eval[e].config, R, E, g))

(* A session is told it may finish only on evidence that is current when the *)
(* verdict is given: whatever was recorded during the evaluation, each gate  *)
(* owed for all the session's events has a passing run under the verdict's   *)
(* configuration, later than the first sight of every rule revision that     *)
(* applies, on the content the evaluation found, and no event after it       *)
(* touches what the gate depends on (shadow-verdict-store.ts).               *)
PassIsCurrent == [][\A e \in Evaluator : Decides(e) => EvidenceIsCurrent(e)]_governance
=============================================================================
