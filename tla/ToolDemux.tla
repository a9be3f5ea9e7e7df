------------------------------ MODULE ToolDemux ------------------------------
(***************************************************************************)
(* Tool outcomes of one Codex session.  A hook reports each tool call, in  *)
(* the daemon or in a process of its own, and looks the outcome up in the  *)
(* rollout file; the daemon's tailer reads the same file as it grows and   *)
(* routes what the hooks did not.  A marker per call, claimed in the       *)
(* database, decides who routes.                                           *)
(*                                                                         *)
(* The rollout file is a sequence of bytes.  A byte is [line, kind]: an    *)
(* ASCII character, the lead or the continuation of a two-byte one, or the *)
(* newline that completes the line.  Line 0 is the session's meta line,    *)
(* line i the record of call i.                                            *)
(***************************************************************************)
EXTENDS Naturals, Sequences, FiniteSets, SequencesExt, FiniteSetsExt

CONSTANTS
  Call,           \* tool calls, 1 .. n, completed in that order
  Status,         \* per call "completed", "failed", or one of no known meaning
  Wide,           \* calls whose record holds a two-byte character
  InText,         \* calls whose own response tells their outcome (apply_patch)
  MaxDeliveries,  \* bound: hook deliveries of one call
  MaxLoops,       \* bound: ticks of the tailer at work at the same time
  MaxErrors, MaxCrashes  \* bounds of the model

ASSUME ToolDemuxAssumption ==
  /\ Call = 1 .. Cardinality(Call) /\ Status \in [Call -> STRING]
  /\ Wide \subseteq Call /\ InText \subseteq Call
  /\ {MaxDeliveries, MaxLoops, MaxErrors, MaxCrashes} \subseteq Nat

VARIABLES
  born,      \* the file was created after the tailer started
  recent,    \* its directory is that of today or of yesterday
  rollout,   \* the rollout file
  tailer,    \* the tailer's FileState: [seen, offset, metaResolved]
  loops,     \* ticks in progress: [lines, claimed], the calls yet to be routed
  seen,      \* codex_seen markers
  hooks,     \* hook invocations past their seen check: [call, nth, by, claimed]
  routed,    \* how often each call has been counted as an error or a success
  delivered, \* how often each call's hook was delivered
  errors,    \* failed claims so far
  crashes    \* daemon crashes so far

capture == <<seen, hooks, routed, delivered, errors>>
dated == <<born, recent>>
demux == <<dated, rollout, tailer, loops, capture, crashes>>

-----------------------------------------------------------------------------
(* The rollout file.                                                       *)

Line(i) == (IF i \in Wide THEN <<[line |-> i, kind |-> "lead"], [line |-> i, kind |-> "rest"]>>
                          ELSE <<[line |-> i, kind |-> "ascii"]>>)
           \o <<[line |-> i, kind |-> "newline"]>>

WholeFile == FlattenSeq([i \in 1 .. Cardinality(Call) + 1 |-> Line(i - 1)])

\* Codex appends; its buffers may end anywhere, within a character too.
AppendBytes(n) ==
  /\ Len(rollout) + n <= Len(WholeFile)
  /\ rollout' = SubSeq(WholeFile, 1, Len(rollout) + n)
  /\ UNCHANGED <<dated, tailer, loops, capture, crashes>>

Newlines(from) == {k \in from .. Len(rollout) : rollout[k].kind = "newline"}
Written(i) == \E k \in Newlines(1) : rollout[k].line = i

-----------------------------------------------------------------------------
(* The demux.                                                              *)

\* demuxOutcome, of the record that was found or of none.
Routable(i, found) ==
  IF found THEN Status[i] \in {"completed", "failed"} ELSE i \in InText

\* Fault: the marker is set whether or not it was there.
ClaimAgain(i) == seen' = seen \cup {i} /\ UNCHANGED errors

\* One INSERT OR IGNORE; a database error claims true and marks nothing.
ClaimTool(i) ==
  \/ i \notin seen /\ seen' = seen \cup {i} /\ UNCHANGED errors
  \/ errors < MaxErrors /\ errors' = errors + 1 /\ UNCHANGED seen

Count(i) == routed' = [routed EXCEPT ![i] = @ + 1]

-----------------------------------------------------------------------------
(* The hook path.                                                          *)

\* Untrusted hooks are never delivered; the relay delivers again what the
\* daemon answered with an error.  The record may come before or after.
HookStarts(i, by) ==
  /\ delivered[i] < MaxDeliveries
  /\ delivered' = [delivered EXCEPT ![i] = @ + 1]
  /\ hooks' = IF i \in seen THEN hooks
              ELSE hooks \cup {[call |-> i, nth |-> delivered[i], by |-> by, claimed |-> FALSE]}
  /\ UNCHANGED <<dated, rollout, tailer, loops, seen, routed, errors, crashes>>

\* The lookup finds a complete record, or gives up waiting for one; the loser
\* of the claim leaves, and so does a hook with an outcome it cannot name.
HookResolves(h) ==
  LET i == h.call
      routable == Routable(i, Written(i))
      rest == hooks \ {h}
  IN  /\ ~h.claimed
      /\ \/ routable /\ ClaimTool(i) /\ hooks' = rest \cup {[h EXCEPT !.claimed = TRUE]}
         \/ (routable => i \in seen) /\ hooks' = rest /\ UNCHANGED <<seen, errors>>
      /\ UNCHANGED <<dated, rollout, tailer, loops, routed, delivered, crashes>>

\* handleErrorLearning or handleSuccessTracker returns.
HookHandled(h) ==
  /\ h.claimed
  /\ hooks' = hooks \ {h} /\ Count(h.call)
  /\ UNCHANGED <<dated, rollout, tailer, loops, seen, delivered, errors, crashes>>

-----------------------------------------------------------------------------
(* The tailer.                                                             *)

MetaReadable == Written(0)

\* recentDateDirs has no directory of an older date, and a session may go on for
\* days in the file it began.
DaysPass ==
  /\ recent /\ recent' = FALSE
  /\ UNCHANGED <<born, rollout, tailer, loops, capture, crashes>>

\* A file that predates the tailer is followed from its end.
FirstSight ==
  /\ recent /\ ~tailer.seen
  /\ tailer' = [seen |-> TRUE, offset |-> IF born THEN 0 ELSE Len(rollout), metaResolved |-> MetaReadable]
  /\ UNCHANGED <<dated, rollout, loops, capture, crashes>>

\* How many UTF-16 units the bytes from a to b decode to: a lead byte stands
\* for its character, a continuation without it becomes U+FFFD.
Decoded(a, b) == Cardinality({k \in a .. b : rollout[k].kind = "rest" => k = a})

\* Fault: the offset goes to the end of what was read, torn line and all.
ConsumedToEnd(offset) == Len(rollout) - offset

\* lastNewline + 1, in units of the decoded text.
Consumed(offset) == Decoded(offset + 1, Max(Newlines(offset + 1)))

\* A line that the chunk starts within does not parse.
WholeLines(offset) ==
  LET from == {k \in Newlines(offset + 1) : k - Len(Line(rollout[k].line)) >= offset}
  IN  SelectSeq([i \in 1 .. Cardinality(Call) |-> i], LAMBDA i : \E k \in from : rollout[k].line = i)

\* A tick reads to the end of the file, advances, and routes line by line;
\* the next tick does not wait for it.
Tick ==
  /\ recent /\ tailer.seen /\ MetaReadable /\ Len(loops) < MaxLoops
  /\ Newlines(tailer.offset + 1) # {}
  /\ tailer' = [tailer EXCEPT !.metaResolved = TRUE, !.offset = @ + Consumed(@)]
  /\ loops' = IF WholeLines(tailer.offset) = <<>> THEN loops ELSE Append(loops, [lines |-> WholeLines(tailer.offset), claimed |-> FALSE])
  /\ UNCHANGED <<dated, rollout, capture, crashes>>

Drop(l) == loops' = IF Len(loops[l].lines) = 1 THEN RemoveAt(loops, l)
                    ELSE [loops EXCEPT ![l] = [lines |-> Tail(@.lines), claimed |-> FALSE]]

\* The seen check and the claim follow each other at once.
RouteLine(l) ==
  LET i == Head(loops[l].lines)
  IN  /\ ~loops[l].claimed
      /\ IF i \notin seen /\ Routable(i, TRUE)
         THEN ClaimTool(i) /\ loops' = [loops EXCEPT ![l].claimed = TRUE]
         ELSE Drop(l) /\ UNCHANGED <<seen, errors>>
      /\ UNCHANGED <<dated, rollout, tailer, hooks, routed, delivered, crashes>>

\* The loop goes on when the handler has returned.
LineHandled(l) ==
  /\ loops[l].claimed
  /\ Count(Head(loops[l].lines)) /\ Drop(l)
  /\ UNCHANGED <<dated, rollout, tailer, seen, hooks, delivered, errors, crashes>>

\* The daemon dies with everything it was doing, and starts again: the file
\* now predates its tailer.
DaemonCrash ==
  /\ crashes < MaxCrashes
  /\ crashes' = crashes + 1
  /\ born' = FALSE /\ tailer' = [seen |-> FALSE, offset |-> 0, metaResolved |-> FALSE]
  /\ loops' = <<>>
  /\ hooks' = {h \in hooks : h.by # "daemon"}
  /\ UNCHANGED <<recent, rollout, seen, routed, delivered, errors>>

-----------------------------------------------------------------------------

DemuxInit ==
  /\ born \in BOOLEAN /\ recent = TRUE /\ rollout = <<>>
  /\ tailer = [seen |-> FALSE, offset |-> 0, metaResolved |-> FALSE]
  /\ loops = <<>> /\ seen = {} /\ hooks = {}
  /\ routed = [i \in Call |-> 0] /\ delivered = [i \in Call |-> 0]
  /\ errors = 0 /\ crashes = 0

DemuxNext ==
  \/ \E n \in 1 .. 2 : AppendBytes(n)
  \/ \E i \in Call, by \in {"daemon", "process"} : HookStarts(i, by)
  \/ \E h \in hooks : HookResolves(h) \/ HookHandled(h)
  \/ DaysPass \/ FirstSight \/ Tick
  \/ \E l \in DOMAIN loops : RouteLine(l) \/ LineHandled(l)
  \/ DaemonCrash

\* The interval fires, started loops and handlers go on.  Nobody owes a hook,
\* a byte, a crash or a new day.
DemuxFairness ==
  /\ WF_demux(FirstSight) /\ WF_demux(Tick)
  /\ WF_demux(\E l \in DOMAIN loops : RouteLine(l) \/ LineHandled(l))
  /\ WF_demux(\E h \in hooks : HookHandled(h))

DemuxSpec == DemuxInit /\ [][DemuxNext]_demux /\ DemuxFairness

-----------------------------------------------------------------------------

(* Every variable has its type, and the tailer's offset, although it counts  *)
(* decoded characters, never passes the end of the file.                     *)
DemuxTypeOK ==
  /\ {born, recent} \subseteq BOOLEAN /\ IsPrefix(rollout, WholeFile)
  /\ tailer \in [seen: BOOLEAN, offset: 0 .. Len(rollout), metaResolved: BOOLEAN]
  /\ Len(loops) <= MaxLoops /\ \A l \in DOMAIN loops : loops[l].lines \in Seq(Call) \ {<<>>}
  /\ seen \subseteq Call
  /\ \A h \in hooks : h.call \in Call /\ h.nth < delivered[h.call]
  /\ routed \in [Call -> Nat] /\ delivered \in [Call -> 0 .. MaxDeliveries]
  /\ errors \in 0 .. MaxErrors /\ crashes \in 0 .. MaxCrashes

Counted(i) == routed[i]
  + Cardinality({h \in hooks : h.call = i /\ h.claimed})
  + Cardinality({l \in DOMAIN loops : Head(loops[l].lines) = i /\ loops[l].claimed})

(* One tool call is counted once, as an error or as a success, whoever       *)
(* reports it: deliveries repeated by the relay, hooks in two processes, and *)
(* a tailer that re-reads lines because its offset lags.  Each failed claim  *)
(* may add one (codex-post-tool-handler.ts, claimTool).                      *)
RoutedOnce == \A i \in Call : Counted(i) <= 1 + errors

(* Without hooks the tailer alone captures every outcome a record names, if  *)
(* it has known the file from the start, does not crash, and the file does    *)
(* not grow old; although its offset counts decoded characters and not bytes *)
(* (rollout-tailer.ts, tick).                                                *)
EventuallyRouted ==
  \A i \in Call :
    (born /\ Written(i) /\ Routable(i, TRUE)) ~> (routed[i] > 0 \/ crashes > 0 \/ ~recent)
=============================================================================
