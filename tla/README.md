# Waykeep memory: a TLA+ verification project

Waykeep (the repository in `src/`) keeps an agent's memories in one SQLite
database that many processes write: MCP servers, short-lived hooks, a daemon,
and, for teams, a sync worker that is not part of this repository.  The hard
part of the program is what happens to a memory that is edited locally while
the team's events about it arrive: nothing the user did may be lost, nothing
the team did may vanish, and nothing may leave the replica that was not meant
to.  That core is modelled first.

## Inventory

Line numbers are of the files under `src/src/`.

| component | state | operations | hard behaviour | what makes it correct |
|---|---|---|---|---|
| sync apply (`db/sync-apply`) | entity map, contributors, alias log, conflict sets, fork notices, apply cursor per project | upsert, tombstone, alias, conflict-open, resolve-commit, applied in one immediate transaction | replays, stale versions, local edits not yet pushed, opted-out rows, id collisions, two entities meeting on one row | pending local intent survives; one entity per row; versions do not go back; a batch reaches other projects only by what it takes over; team content does not vanish |
| journal (`memory-repository/journal.ts`, `sync-apply/journal-consumer.ts`) | `sync_journal`, consumption cursor per project | append with the mutation; classify and advance; reclassify deferred | a worker that repeats, reorders and overlaps its batches | no work behind the cursor, decisions final, every entry decidable |
| memory writers (`memory-repository/writes.ts`, `truth.ts`, `feedback.ts`, `portability.ts`) | `memories`, revisions, tombstone log | create, dedup merge, conflict detection, update, invalidate, delete, promote, trust changes, restore | reads made before the transaction that writes | every change of a synced row is journalled |
| hygiene (`decay.ts`, `consolidation-runner.ts`, `staleness.ts`, `session-consolidation.ts`) | none of its own | prune, merge clusters, promote, repair anchors | candidates that are stale when acted on; rows bound meanwhile | bound rows are never retired silently; a merge leaves a live row |
| project identity (`project-identity-migration.ts`) | project columns | rename a project id | state keyed by project in other places | nothing is stranded under the old id |
| owner RPC (`mcp/owner-rpc.ts`) | batch records | apply a batch once, replay its answer | duplicate, concurrent and retried deliveries, BUSY | a batch has its effect once and every answer is the committed one |
| socket ownership (`mcp/socket-ownership.ts`, `daemon/`) | socket file, pid file | probe, claim, serve, release | non-atomic unlink and create between processes, crashes | one owner at a time, and eventually one |
| session cache (`hooks/shared/session-cache.ts`, `pitfall-handler.ts`) | skip gate, candidates of recall passes, generation seen | check, recall, answer, bump, relay | writers in other processes, lost bumps, commits between two reads of one hook | no answer older than the last write it could have known of |
| post-tool demux and tailer (`codex-post-tool-handler.ts`, `daemon/rollout-tailer.ts`) | seen markers, file offset | claim, route | hook and tailer racing across awaits, torn lines, an offset in the wrong unit | one routing per tool call, and eventually one |
| governance (`governance/`) | tool events, gate runs, mutation sequence, rules and watermarks, warnings | record, evaluate a Stop, warn | evidence read before an await and judged after it; two hooks for one edit | a pass rests on evidence that is current |
| memory tool (`memory-tool/`) | frozen renderings of files, free-form files | view, create, edit by token and revision, insert, delete, rename | the revision was read by an agent minutes ago | compare-and-swap; an agent sees its own edits; the journal tells where a row is |
| state migration (`cli/migrate.ts`, `migrate-fs.ts`, `migrate-config.ts`) | old store, new directory, lock, marker | copy, verify, publish, mark | crash or power loss between steps, a late writer, a second run | the marker implies a complete copy and the right config; nothing of the user's is overwritten |
| edit tracker (`hooks/shared/edit-tracker.ts`) | tracker file, lock directory, the daemon's copy | lock, steal, update, flush | slow holders, thieves, waiters that give up, writers without the lock | an update is lost only to somebody who was not under the lock; a hook ends |
| opening the store (`db/connection.ts`, `schema.ts`, `migrations/`) | the file at the path, its version and schema, the copies set aside | check, recover, create, migrate, under different processes | many processes opening one old or damaged file, statements that fail, versions read before the lock | a version is earned; nobody is handed an incomplete schema; what is removed is in a copy |
| plans (`db/plan-repository.ts`, `plan-tool.ts`) | plans, steps, notes, decisions | create, claim, update, note, decide, complete, sweep | read-then-write over several statements by several agents | one claim per step, one active plan, decisions survive as memories |
| hook relay (`hooks/hook-relay.c`, `hook-relay.sh`, `mcp/hook-socket.ts`) | a socket and the processes at its ends | post, wait, give up, fall back to node | a daemon that dies with the request, deadlines, two relays with different rules | no event handled twice or lost without a cause; every relay ends |
| session goals (`goal-resolver.ts`, `precompact.ts`, `final-snapshot.ts`, `goal-tiers.ts`) | snapshots with their goals, session ends | snapshot, inherit, brief, resume | two sessions of a project, branches that change, gaps longer than a window | a goal keeps its age and branch; a session goes on with its own |
| Codex wiring (`cli/codex-init.ts`) | `hooks.json`, `config.toml`, the trust shadow | init, approve, switch off, edit | approvals are by position and hash; a crash between two files | nothing is reported as trusted that Codex skips; nobody else's approval is lost |
| Claude Code wiring (`cli/init.ts`, `claude-mcp.ts`, `claude-health.ts`) | `settings.json`, its backup, the registry | init in two modes, doctor | whole-file rewrites from an earlier read, a CLI that fails, lies or is late | a reported success is real; the user's entries stay; one handler per event |
| reminders (`db/reminder-repository.ts`) | reminders with fire counts | create, check and fire, switch off | counts read before the transaction, limits before filters, fires that are not shown | limits hold; what is due fires |

How they meet: every component works on the same database through its own
connection, so the unit of interleaving is the SQLite transaction.  Writers
append to the journal in the transaction of their mutation; the sync worker
reads the journal through the two handlers of `journal-consumer.ts` and feeds
events to `applyEventBatch` through the owner RPC; the apply engine reads the
journal to decide whether a row carries work that was not pushed.  Hooks read
through the session cache of whichever process owns the socket.

`PROJECT.json` lists every part of the repository, the ones left out with the
reason, and every place where the code is exposed to something a test would
hardly reach.

## Modules

| module | models |
|---|---|
| `IntentLog` | abstract: an append-only log of intents, each settled once |
| `JournalConsumer` | `journalMutation` as an append, `classifyAndAdvance`, `reclassifyDeferred` |
| `SyncApply` | the apply engine as operators from a store to the set of stores a transaction may commit |
| `Replica` | the composition: every local writer, hygiene, renames, inbound events and the journal worker on one database |
| `OrderedStream` | abstract: batches that take a project along its stream, each at most once |
| `OwnerRpc` | deliveries of batches to the socket owner, with BUSY backoff, replays, crashes and lost answers |
| `SocketClaim` | the claim on the hook socket, system call by system call, by any number of processes |
| `Governance` | tool events, gate runs, rules with watermarks, the evaluation of a Stop and its warning |
| `SkipGate` | the session cache of the socket's owner against every kind of writer |
| `ToolDemux` | hooks and the rollout tailer claiming the outcomes of one session |
| `StateMigration` | `waykeep migrate`, step by step, against crashes, power losses and live processes |
| `MemoryFiles` | the memory tool: rows as files, compare-and-swap, frozen renderings, free-form files |
| `StoreOpen` | `openDatabase`: integrity, recovery, creation and every migration, by any number of processes |
| `EditTracker` | the tracker file of a session, its lock and the daemon's copy |
| `Plans` | the plans of a project under several agents, statement by statement |
| `HookRelay` | the way of a hook event through a relay, the daemon and the fallback |
| `SessionGoals` | the snapshots of several sessions and the goals the briefing shows |
| `CodexTrust` | `init` for Codex, its trust shadow and what Codex runs |
| `ClientInit` | `init` for Claude Code, the MCP registry and `doctor` |
| `Reminders` | reminders read by one transaction and fired by another |
| `MCReplica` | instances for TLC of the module of that name |
| `MCSync` | `JournalConsumer` and `OwnerRpc`, the two ends of the sync worker |
| `MCSocketClaim` | `SocketClaim` and `HookRelay` |
| `MCSkipGate` | `SkipGate`, `Governance` and `MemoryFiles` |
| `MCEditTracker` | `EditTracker` and `ToolDemux` |
| `MCStateMigration` | `StateMigration` and `StoreOpen` |
| `MCPlans` | `Plans`, `Reminders` and `SessionGoals` |
| `MCWiring` | `CodexTrust` and `ClientInit` |
| `JournalProofs`, `ReplicaProofs`, `OwnerRpcProofs`, `SocketClaimProofs`, `SkipGateProofs`, `StateMigrationProofs`, `EditTrackerProofs`, `PlansProofs` | the theorems about those modules |

### JournalConsumer

`journal` is the table `sync_journal` in order of its AUTOINCREMENT id, so an
id is an index; `jcursor` is the key `cursor:<project>` of `sync_state`.
Each handler is one transaction; a thrown `ApplyValidationError` rolls it back
and is the action being disabled.  The worker is free: `Consume` submits any
set of items and any cursor.  Items of a batch name each entry once.  The
string `deferred-pending-eligibility` is `"deferred"`, a NULL classification
is `"pending"`.

### SyncApply

A *store* is a record of the tables the engine touches: `mem` (rows), `emap`
(`sync_entity_map`), `contrib`, `aliases`, `csets`, `notices`, and `used`, the
ids ever inserted (`generateId` does not repeat one).  A handler maps a store to
the set of stores it may commit; the empty set is a refusal.  The data is cut
down to what the transition table tells apart: the projected fields (kind,
content, tags, context, anchor) are one value of `Text`, the volatile ones
(confidence, source, fingerprint, expiry) one value of `Vol`; a hash is the
tuple of what it is computed from.  The constant function `Clean` is the
projection's neutralise-and-scrub: idempotent, possibly rewriting a payload.
`RowId` is a set of numbers because the exact match breaks ties by the lowest
id.  Rows of the table in `upsert-apply.ts` keep their names in comments (T1,
T2, T3, T4, T5, T8a, T8b, S5, S8, S9).

### Replica

The variables are the store, the journal and its cursors, the apply cursors,
and `detecting`, the freshly inserted rows whose conflict detection (a second
transaction) is still to come.  Every action is one immediate transaction.
Where the code reads before its transaction, the action's guard asks only for
what the transaction itself checks: `MergeIntoSimilar` writes any row ever
seen, in any scope; `DetectConflicts` supersedes any row; `ConsolidateCluster`
merges any two rows that are not bound.  Statements guarded by
`invalidated = 0` also admit superseded rows, which `NotInvalidated` says.
Bulk retractions (`deleteByIds`, `forgetProject`, `retireIdsByInvalidation`)
are the same single-row steps in sequence.

Left out of the state: the tombstone audit log, embeddings, edges, the
generation counter, revisions and timestamps.  Only shareable kinds are
modelled: others neither journal nor bind.  `share_state` is set to `local` by
the sync worker's user interface, outside `src/`; `OptOut` models that.  An
inbound event is a batch of its own here.  `Applying == cursor' # cursor`
tells apply steps from the others in the properties.

### OwnerRpc

`delivery` is the table of connections: free, being tried, or answered.  Between
two attempts the handler awaits its backoff and other deliveries run; an
attempt itself is one synchronous transaction, so `CommitBatch`, `RefuseBatch`,
`ReplayBatch` and `Contended` are its four outcomes and one step each.  `cursor`
and `record` are the keys of `sync_state`; `log` is a history variable, the
events each committed batch ran handlers for.  What a handler does belongs to
`SyncApply`; here its refusal (VALIDATION, PROTOCOL_HALT) is a free choice, and
so is an unexpected failure (INTERNAL).  Two answers are compared without the
flag `replayed`, which tells a replay from the commit.

`events_hash` is modelled by the pair it is computed from.  The sequence
numbers of a stream may have gaps (`validator.ts:157`), so the code cannot check that
a batch starts where the last one ended: it relies on a sender that delivers
what precedes a batch first.  `Deliver` states that as its guard: the earlier
events are acknowledged on a connection the sender still holds.  Within that,
the sender may send anything in `Request` at any time, again or concurrently.

Left out: reading and limiting the body, the health route, the in-process cache
bump after a commit.

### SocketClaim

`at[p]` is where process p stands between two system calls; `sock` is who bound
the socket file at the path, `pidFile` what the pid file holds, `seen[p]` the pid
p read.  A probe is answered only by a process that listens on the file at the
path, and may go unanswered even then (its timeout).  A process that crashes
leaves both files; one that starts again has its old pid.  `Start` and `Stop`
are the clients' and the system's choice; only the daemon retries, only it
closes its server before it exits, and closing a server makes libuv unlink the
path it was bound to.  A start is the call of `startHookSocket`, the release
after a failed bind or verification included.

Creating and writing the pid file is one step, and so is truncating and
rewriting it in the refresh: a reader takes an empty file for none, as it does
one that is absent.  A process that hangs for ever in the middle of a start is
not modelled; one that hangs while it serves is.

The constant `Overlap` says whether two starts may overlap.  If they may, the
protocol does not keep its promise (run `overlapping_claims`): the exclusive
create arbitrates nothing, because each claimant unlinks the file first.  What
the passing run and the theorems show holds when they do not; everything else,
exits, crashes, timeouts and retries, interleaves freely with a start.

### Governance

`calls` are the tool calls that were made, `events` the ones some hook has
reported (`governance_tool_events` with their gate runs; the index is
`event_seq`), `tree` the contents a digest is taken of.  A pattern is the set of
paths it matches.  `Call` is the agent's tool, `Outside` everybody else's
editor.  A gate run is captured (`CaptureGateRun`, the digest) and recorded
(`RecordGateRun`, one immediate transaction) in two steps; any other report is
the single step `Record`.  An evaluation is the loop of `shadow-evaluator.ts`:
`ReadSnapshot`, `EnsureWatermarks`, one `CaptureDigest` per set of patterns,
`Resolve` with its second attempt, and for the warning route `CommitWarning`;
between any two of them others run.  A verdict is a pass or is withheld: the
modelled promise is about the pass.

Left out: the text of rules, briefings, the inspector, overrides, the parsing of
`gates.json` and of test output, retention.  An evaluator is a process; its
deadline is `Fail`.

### SkipGate

Committed writes are numbered and carry the channel by which the owner of the
cache can learn of them: made here, relayed over the socket, applied here or by
another process (the durable generation), or by nobody (a hook in a process of
its own).  A cached answer keeps as a ghost how many writes the oldest read
behind it could see (`basis`), when that read was (`readAt`), and whether the
generation had been known by then (`verified`).  A hook is `Lookup`, then for
each recall pass `RecallCheck` and `Recall`, then `Answer`: it does not yield to
its own process, but other processes commit between its reads.  `Passes` is 1
for a Bash command and 2 for an edit.

### ToolDemux

The rollout file is a sequence of bytes of three kinds, so that the offset the
tailer keeps, which counts UTF-16 units of the decoded text, and the bytes it
reads can disagree.  `HookStarts`, `HookResolves` and `HookHandled` are a hook
before its resolver, at its claim and after its handler; `Tick` is one pass of
the tailer, which does not wait for the previous one; `RouteLine` and
`LineHandled` are its loop.  A claim that meets a database error answers true.
`routed` counts what the handlers were given.  The tailer looks only into the
directories of today and yesterday; `recent` says that the file is in one, and
`DaysPass` that it no longer is.

Left out: the pruning of markers after a day, the skip of subagent files, the
canary on the format's version, outcomes of no known meaning that go to the tool
chain only.  A crash after the claim loses the outcome, and the last line of a
file that predates the tailer is lost when it was torn at that moment.

### StateMigration

`pc[m]` is the step a run of the command is at; every file operation that others
can see is a step.  `dir` is what processes see of the current directory,
`disk` the entries an fsync has made durable, `unsynced` the files whose bytes
were not synced: a power loss leaves each entry as one or the other.  A process
resolves its directory once, when it opens the store.  A commit is a member of a
set, so a copy that lacks one is told from a copy that lacks none;
`ValueOnly` commits change no row count, which is what the verification compares.

`late` collects the writes the code documents as outside its promise
(`migrate.ts:269-274`, `293`): those to the legacy store after the last look at
its `data_version`, and by processes that still have it open, and those to the
new store before the marker's entry is durable.  The last group is wider than
the code's words: `fsyncPath` of a directory swallows its errors, so a marker
may be visible and not durable for as long as the system likes, where
`migrate-fs.ts:97-100` calls the publication durable.  A commit is taken to be
durable once made, although `synchronous = NORMAL` promises that only to a
crash of the process.

Left out: the fallback for file systems without hard links, roll-back by hand,
processes that an environment override points at the target, and a database
created at the target between the move aside and the publication.

### MemoryFiles

A command runs its checks and its writes in one immediate transaction, so it is
one action; a refused command changes nothing and is left out, except that a
view of a file without records leaves an empty rendering in the cache, which
ranged views go on answering from.  The lines of a file are a set of blocks
(their order matters to paging only).  The prefix of a token is the set of ids
it fits: `Stem` collisions are shown in full.  `Garbled` is meta that does not
parse: such a row is not shown, but still makes its file exist.  A content
update and a metadata update of one edit are two statements with a revision
each and one journal entry, at the last revision.

`rec[i].written` is the revision of the last change of meaning: feedback bumps
the revision alone.  `seen` is the page the agent looked at last, `behind` the
files it changed after the rendering it has frozen, `lost` the rows it rewrote
in a state it had not seen; the last two are ghosts.  The page a `str_replace`
answers with is rendered in the step of its commit: a writer in between is a
later view.

Left out: the author line, view ranges and truncation, the two kinds shown in
one `patterns` file, inbound events (they do not journal).  A clash with
another record, which merges or supersedes, refuses the command (`Clashing`).

### StoreOpen

A file is an inode (`db`), and `path` the one at the path: a process that has a
file open keeps it when another replaces the path.  A database is a stated
version, a schema as the set of pieces it has, and rows.  `at[p]` goes through
`openDatabase` gate by gate and statement by statement where a statement commits
on its own; a migration that is one transaction is one step.  A version number
is read long before it is acted on, which is what `ver` keeps.  The start states
are what every release since v28 left, and builds between releases.  Recovery is
`copyFileSync`, `unlinkSync` and the open that follows, in any number of processes:
each step acts on what is at the path by then.  Two ghosts tell what a removal may
cost: `amid`, who was already recovering when the file at the path was made, and
`uncopied`, the rows a checkpoint brought into it after it was copied.  A copy is of
the main file: what was in the WAL of a corrupt file goes with it.

Left out: the columns of the steps before v27 (one piece), path resolution, file
modes, the sidecar files of WAL (they go with the file, in one step),
checkpoints, and two copies named in one millisecond.

### EditTracker

A tracker is the set of the marks (changes) it holds; who replaces the file
without having seen a mark drops it.  `Locked` hooks go through `updateTracker`,
`Unlocked` ones load and save, `Served` ones are answered by the daemon from
its copy, which `Flush` writes over the file.  A lock is `old` when it has been
there for `TRACKER_LOCK_STALE_MS`; a thief looks, removes and creates in separate
steps.  A database wait may last 5 000 ms (`busy_timeout`), longer than the
2 000 ms after which a lock is stolen: a slow holder is no accident, and
`CanBeSlow` is true wherever it matters.

### Plans

Each operation is the sequence of statements the repository issues outside a
transaction: `archiveActive` then the insert; the read of the notes then their
update; the select of the sweep then its updates; the collection of permanent
decisions, their storage one by one, and the completion.  `updateStep` is one
conditional UPDATE and one action.  A process may fail between any two
statements (`CanFail`).  The ghosts remember who was told that he has a step,
whether two creates overlapped, and what came too late.

Left out: the warnings about dependencies, the deletion of old archived plans, the
goal memory of a create, `addStep` and `abandon`, which nothing calls.

### HookRelay

`outcome[e]` is the way an attempt at the socket ended, as the relay can tell:
refused, connected and cut off, timed out, answered with an error, or with an
answer.  `request[e]` is what became of it at the daemon, which the relay cannot
tell.  `kind[e]`, which never changes, is the relay and the hook of the event: any
of them in the proofs, a choice of pairs in the run.  The two relays differ in which outcomes fall back to node, and a hook in
whether it is waited for.  `began` and `ended` count how often an event's handler
began and came to its end.

Left out: the bytes of the protocol, a client that kills a relay, answers over
64 KB, and the status line's relay.

### SessionGoals

A snapshot holds a task with the branch and time it was stated at, and the
project's goal with a clock.  A hook resolves its goals (`draft`) and stores the
snapshot in separate steps, so two sessions can do so at once.  `snaps` is a
function on the numbers of the rows that are there, in the order in which they
were stored; the rows out of retention leave its domain.  `briefed` is the
briefing that a start compiles, in the state after that step.  A tick is longer
than the ten minutes of `SNAPSHOT_FALLBACK_MINUTES`; a hook takes no time.  `head`
is `Unset` while git does not answer (`getGitWorkingState` returns null): a task
stated then has no branch until it is inherited under one, and no branch gate
closes on what is not known (`OnBranch`).

Left out: the gates that compare words of two goals; the message of a transcript
that the Now tier shows for a snapshot without a task (`goal-tiers.ts:35`), which
is one of at most `FALLBACK_GOAL_MIN_CHARS`, as a longer one would have been stored
as the task; the rest of a snapshot and of the briefing.

### CodexTrust

A position is a group and a handler in it, for one event; Codex approves the
command at a position and runs a handler whose approval fits.  `init` reads all
files (`Read`, whose `TrustPlan` merges and picks what to prune), then writes them
one after the other (`WriteConfig`, `WriteHooks`, `WriteShadow`), and may be killed in
between (`StopInit`); approving, switching off and editing by hand are anybody's at
any time.  `how` is a ghost of each position: its approval was given before there
was a shadow (`"before"`), while the shadow attested something else (`"unattested"`),
`"during init"`, or of what the shadow attests (`"reviewed"`); or init has undone what
Codex wrote meanwhile (`"overwritten"`), or kept an approval of what it replaced or
cannot vouch for (`"kept"`), which it does to one that is switched off and wherever
it leaves `config.toml` alone.

Left out: dry runs, a `hooks.json` that does not parse, the MCP block, the events
whose route is not kept.

### ClientInit

A run of `init` reads `settings.json` (`BeginRun`), backs it up (`Backup`, `Copy`),
writes it, plans what to do in the registry, runs up to three CLI commands
(`RunCommand`) and verifies; it may stop anywhere (`StopRun`).  A command may
succeed, fail, take effect after its deadline, or report a success that is none.
Two runs from two installs overlap, and the user or Claude Code writes either
file in between.

Left out: how the CLI is found, dry runs, files that do not parse.

### Reminders

`Check` reads the rows (the queries), `Fire` is the transaction that counts them
up by the counts read, and shows any part of them.  `order` is the order in
which a query without ORDER BY returns rows, any but fixed for a row.  Which
prompt, path or condition a reminder matches is any choice; what is due is not.

## Runs and bounds

Modules that answer one question for one kind of state share a run.  Such an
instance has a variable `part` that says which of them a behaviour belongs to:
the state space is the sum of the parts' and not their product, and each part has
bounds of its own, which the MC module states.  A property of a part is stated of
its module or instance, and holds of the others by their initial states.

| run | instance | states | what it shows |
|---|---|---|---|
| `sync` | the journal: 1 row, 2 projects, 3 entries, no overshoot; the deliveries: 2 connections, 2 attempts, 3 batch ids, a stream of 3 events with a gap in overlapping batches, ids reused across projects and bodies | 253 052 | no entry is lost behind a cursor (`NothingLostBehindCursor`), every one is decided (`EveryIntentClassified`), and the journal implements `IntentLog` with its liveness; every delivery is answered; the answers to a request agree, and acknowledged events are applied (`AnswersAreTrue`); the deliveries implement `OrderedStream` |
| `edits` | 1 entity, 2 rows, 2 texts, 2 volatile values, 2 versions, 2 events, 2 journal entries; up to the symmetry of texts and of volatile values | 160 885 | unpushed work of a bound row survives every event (`PendingIntentSurvives`); a synced row changes only with a journal entry (`ChangesTravel`); recorded hashes are canonical; versions advance and what is bound is visible (`EntriesAreEarned`) |
| `team` | 2 entities, 3 rows, an opted-out row, 4 events | 753 891 | one entity per row; no association vanishes, alias targets materialise and inherit provenance, resolutions are final (`NothingVanishes`) |
| `projects` | 2 projects, a rename, an anchor repair, a cleaning that rewrites | 633 321 | an event of one project reaches a row of another only through an entity that is or becomes its own, moves no row to a third project, makes rows of its own, and leaves every other entry alone (`ProjectBoundary`) |
| `cross_project` | 2 projects, 1 entity, 2 rows, 2 events; violated | | an upsert takes over an entity of another project, and writes its row |
| `claim` | the daemon and two MCP servers with unbounded restarts; or two events of hooks that differ in kind or size, a relay each, a daemon that may die, be old, or throw | 51 501 | one process serves, nobody loses a claim or a socket to another, the files of dead owners never block the daemon; an event is handled twice, lost or printed only for a stated cause (`EventsAreAccountedFor`); every relay ends |
| `overlapping_claims` | two MCP servers that may start at once; violated | | the divergence below |
| `stale` | the cache: 2 keys, 1 recall pass, 2 writes of any channel, a gate of 1 entry; the memory tool: an agent and everyone else, 2 records with colliding ids, 3 revisions; governance: 1 session, rule and evaluator, 2 calls, 2 revisions of the tree | 1 436 447 | no hook is skipped on reads older than what the process heard of or the durable generation tells; an edit meets what the agent saw and its views show its own edits (`EditsMeetWhatWasSeen`); the journal tells where a record is; each change of a file is counted once, and a pass rests on a gate run of the tree that the evaluation captured |
| `files` | the tracker: 3 hooks under the lock and 1 without, or 2 and one served by the daemon; the rollout: 2 calls with a hook and the tailer each, 2 overlapping loops, 1 database error, 1 crash, a directory that grows old, a record wider in bytes than in text, one torn | 140 773 | a lock that is not old is not stolen and an update is lost only to somebody who was not under the lock; every hook ends; an outcome is routed twice only where a claim could not be recorded, and what the hook or the file delivers is routed |
| `store` | 2 runs of migrate, a daemon and another process, 2 commits (one changes no row count), 1 crash, 1 power loss; or 3 processes that open every schema a release left since v28; or one at a time that rebuilds what is older, with 2 corruptions; or two at a time that recover a file of the current version from 2 corruptions | 4 282 473 | no write the code answers for is lost and nothing of the user's is overwritten; no version is stated that is not earned, nobody is handed an incomplete schema, a complete one is only read (`OpenedIsSound`); what disappears from the path was corrupt and its main file is in a copy, but for what a checkpoint brought into it after the copy, or it was made while its remover was recovering already (`RemovalsHaveACause`) |
| `work` | 3 agents on 2 plans, or 2 agents with 2 notes and 2 decisions on one, with failures; 2 sessions or 2 branches and 3 snapshots, or 2 branches and a git that may not answer; 2 reminders and 2 processes with a limit of 2 | 2 296 000 | one holder of a step, two active plans only after a race, decisions graduate (`PlansSafe`); a note is lost only to a race; a task keeps its age, branch and owner (`GoalsAreHonest`); a limit is passed by no more than what processes have read at once |
| `wiring` | Codex: 2 runs with 2 groups of 2 handlers, 2 installs and 1 edit; or with 2 groups of 1 handler, 1 install, and 2 edits or a `config.toml` of any form and 1 edit; Claude Code: 2 overlapping runs, every registry and kind of hook entry, 1 edit, 1 fault of the CLI | 3 927 631 | what init reports as trusted runs, but for the causes `how` names, and a second run changes nothing (`InitIsWarranted`); approvals that are not its own are kept; a reported success is real, foreign handlers and entries stay, unless the run had not read them or they share an entry of a wired event with one of ours (`WiringIsKept`) |

Why the bounds are enough: the predicates of the transition table compare one
entity with one row and the entries of that row; two entities and three rows
are needed for a twin, a shadow association or an alias with its materialised
target, two events to replay or overtake, four to open and resolve a set
after its members arrived.  Two volatile values and two journal entries let a
push be pending, deferred and enqueued while an event arrives.  Every bound
(`MaxVersion`, `MaxSeq`, `MaxJournal`) is a guard on the action that would
exceed it.  Two deliveries of one batch and an overlapping third request are
what the record and the cursor have to tell apart; a second attempt is the first
that can meet a record written while it waited.  The relays of two events share
nothing but the daemon, so every pair of kinds is enough.

In `stale` the gate of one entry makes every second key evict the first, and two
writes are one an answer can have seen and one it cannot; two records are what
tokens, merges of pages and moves between scopes can confuse, and three revisions
are a creation, a change by someone else and the agent's; two calls are an edit
and the gate run that is to prove it, or two edits reported in either order, and
two revisions let the tree change and change back between a capture and its use.
In `files` three hooks are a holder, a thief and a thief of the thief; a second
call is what a wrong offset skips or repeats, and two loops are what overlaps.
In `store` a second run is what the lock and the reruns are about (the theorems
drop every bound), and a third process is one that still acts on the version it
read while two others have come and gone.  In `work` a third agent sweeps while
two create or claim; a second note is what overwrites the first; three snapshots
are a statement, an inheritance and an inheritance of that; the limit of two is
reached by fires read together or one after the other, and the bound is tight.
In `wiring` two groups of two handlers put a foreign handler before, in and after
the group a run rewrites; a second run is what overlaps and what repeats; one fault and one
edit are each at any point, and a second edit undoes the first: an approval is
switched off before a run and on again after it.

Deadlock is checked in `sync`, `edits`, `team`, `projects`, `cross_project` and `claim`.
The other models really may stop: their calls, writes, files or time are used up
and every process is done.

Fairness: in the run `sync`, for the journal, `WF(ConsumeNext(p))` says the worker goes on
consuming what is recorded.  The worker is another program, so this is an
assumption about it; the property is then about the code: its refusals never
wedge an entry.  For the deliveries `WF(Attempt(d))` says that Node runs the timer
of a backoff and the callbacks it has queued; nothing is assumed of the write
lock, which may stay contended for ever.  In the `claim` run every process that is
neither idle nor serving goes on (WF), the daemon's retry timer fires whenever
it can start again and again, and a bind or a permission check that may succeed
again and again is not refused for ever (SF): a daemon whose directory cannot
be bound at all cannot serve.  In the `files` run the tailer's timer fires, its
loops go on (`FirstSight`, `Tick` and what follows them), and a hook that has
started is run to its end: Node runs what it has queued (WF).  No hook is owed
for a call, no byte to the file and no end to errors.  There
a hook of the tracker that can take a step takes one (WF), and one that may give
up again and again does (SF): the deadline passes whatever the lock does.  Each
of these conditions is stated under its own part.  In `claim` a relay goes on
(WF): its deadline comes and a script under node ends; nothing is asked of the
daemon.  Everything else is safety.

Every property of a passing run has a mutant of a modelled definition: the
operators next to the real ones marked *Fault* are those mutants (a dropped
guard, a comparison by bytes alone, a missing reset).  Nothing but a mutant
uses them.

## What is proved

`JournalProofs` proves with TLAPS, for all rows, projects and bounds:

- `TypeCorrect`: `Spec => []TypeOK`;
- `NothingLost`: `Spec => []NothingLostBehindCursor`, assuming `Overshoot = 0`;
- `ConsumedOnce`: `Spec => NothingConsumedTwice`;
- `Finality`: `Spec => DecisionsAreFinal`;
- `Refinement`: `Spec => Log!Spec`, the journal implements the intent log.

`NothingLostBehindCursor` alone is not inductive: an append could land behind a
cursor that had run past the newest entry.  The strengthening is that every
cursor is at most `Len(journal)`, which holds when the worker asks for cursors
of entries that exist; with it an append lands above every cursor and
`classifyAndAdvance` may only pass entries its gap query has seen classified.
The lemmas say what each of the two handlers does to the sequence
(`Rewritten`, `ClassifiedEntries`) and that it settles only open intents
(`StepsSettle`).

`ReplicaProofs` proves, for all rows, entities, projects, texts, events and
bounds (`DataAssumption` and `BoundAssumption`: ids are numbers, cleaning is
idempotent, the constants have their types; `NilAssumption`: Nil is no row,
entry, hash, entity or conflict set):

- `RowsCarryOneEntity`: `Spec => []OneEntityPerRow`;
- `IntentSurvives`: `Spec => PendingIntentSurvives`;
- `EntriesEarned`: `Spec => EntriesAreEarned`;
- `BoundaryKept`: `Spec => ProjectBoundary`, in its four parts: entries, rows that are
  reached, rows that are made, and rows of the event's own project;
- `NothingIsLost`: `Spec => NothingVanishes`;
- `HashesAreCanonical`: `Spec => []RecordedHashIsCanonical`;
- `TypesKept`: `Spec => []TypeOK`;
- `OutboxIsAtomic`: `Spec => ChangesTravel`, where no anchor is repaired
  (`Repair` is the identity), no project renamed (`Rescopes = {}`) and no local
  writer works in the global scope (`Global \notin Scopes`).

The invariant is `ReplicaInv`: the store is `Sound` and apply cursors are numbers.
A store is sound when it has its type, a row that exists was inserted once
(`UsedRows`, with finitely many inserted), no row carries two entities
(`OnePerRow`), and an entry's hash and the row it can still become are those of
its cleaned payload (`Canonical`).  None of these holds by itself: a binding goes
to a row that is free only because the matching row is, and a fresh row is free
only because bound rows exist and so were inserted before.  One entity per row
in turn needs the deletes and retractions not to hand an id out again.

`ProjectBoundary` does not say that an event writes to its own project only: that is
false (`cross_project`), since an upsert takes over an entity of another project
together with its row.  It says that this is the only way.  An alias may write the row
of its target, and a resolution that of a member, of entities that are the event's
own; a row that was renamed away keeps its entity, and so is reached too.  After a
rename the stored projection of a shadowed entity still names the old project, so that
an alias materialises it there (`RowsAreMade`).

The proof follows the code.  A lemma says of each helper of the engine what it
leaves of every table (`BindFields`, `InsertFields`, `CloseFields`, ...), a lemma
per row of the transition table what the handler does to its entity, its row and
to everything else (`UpsertMappedEffect`, `UpsertUnmappedEffect`, `Retires`,
`AliasTargetEffect`), and a lemma per event that the whole transaction is
`Inbound`: sound, within its project, without loss, with versions that grow and
sets that stay resolved.  Everything that is not an event is a `LocalEffect`: no
association changes.  The theorems about steps follow from these two without the
handlers.  The exact match takes the lowest of the rows that match, so that
`LeastId` had to show that there is one: `LeastNumber`, that every non-empty set
of numbers has a least element, rests on the library's well-foundedness of strict
inclusion between finite sets.

The three hypotheses of `OutboxIsAtomic` are three ways in which the code does
change a synced row without an entry: a repaired anchor, a rename (whose entries
were journalled under the old id), and a write that journals under the project it
read before its transaction, which is none for a row of the global scope.  The
run `edits` checks the property under the same restrictions.

`OwnerRpcProofs` proves, for all projects, streams, requests, numbers of
connections and attempts (`RpcAssumption`: events are positive and a request
names a batch and a project; `EventsAssumption`: a request holds finitely many
events of its project's stream; `NilAssumption`: Nil is no record or delivery):

- `RpcTypeCorrect`: `Spec => []TypeOK`;
- `SameAnswer`: `Spec => []AnswersAgree`;
- `NoSilentNoApply`: `Spec => []AckedIsApplied`;
- `TrueAnswers`: `Spec => []AnswersAreTrue`, the two together;
- `StreamRefinement`: `Spec => ImplementsOrderedStream`.

The inductive invariant `RpcInv` adds to the types that what a project's batches
ran is its stream up to the cursor (`LogIsStream`), that recorded requests lie
behind the cursor (`RecordedBehind`), that an answer is the record's
(`AnswersRecorded`), and `SentInOrder`: what precedes a request in flight is
behind the cursor, although its acknowledgement may be gone by the time the
attempt runs.  The last one is what a commit needs to skip nothing: the events
between the old and the new cursor are then all in the request (`CommitTakes`).

`SocketClaimProofs` proves, for any set of processes:

- `ClaimTypeCorrect`: `Spec => []TypeOK`;
- `OneServer`: `Spec => []OneServes`, assuming `Overlap = FALSE`;
- `ClaimKept`: `Spec => []ClaimIsKept`, assuming `Overlap = FALSE`.

`OneServes` says nothing of the pid file that makes it true.  `ClaimInv` does: a
process holds the pid file from its exclusive create to the end of its release
(`HoldersOwnPidFile`), a holder is the pid that a checking process has read
(`HolderWasSeen`), so nobody holds while files are being cleared
(`NobodyHolds`).  Only a starting process may become a holder, and there is one
start at a time.

Of the relays, for any set of events, each with any relay and any hook, it proves

- `RelayTypeCorrect`: `RelaySpec => []RelayTypeOK`;
- `EventsAreHandledOnce`: `RelaySpec => []EventsAreAccountedFor`.

A relay knows how its attempt ended (`outcome`), the daemon what became of the
request (`request`), and neither the other.  `RelayInv` says which of the two go
together at each step (`RequestsAt`, `RequestsAfter`, `AttemptFits`), and splits
the counts into what the daemon and what the script began and ended
(`CountsFit`): a second handling then needs an outcome that falls back although
the daemon had begun, and the invariant leaves an error or, for the shell relay of
a hook that is waited for, a closed connection.

Of the wiring of the clients' hooks it proves, for any commands, installs, sizes of
the files, edits, and runs that stop anywhere (`TrustAssumption`, `ClientAssumption`):

- `TrustTypeCorrect`: `TrustSpec => []TrustTypeOK`;
- `InitIsWarrantedHolds`: `TrustSpec => []InitIsWarranted`;
- `ApprovalsAreKeptAlways`: `TrustSpec => ApprovalsAreKept`;
- `WireTypeCorrect`: `WireSpec => []WireTypeOK`;
- `WiringIsKeptAlways`: `WireSpec => WiringIsKept`.

An approval is right by what three files say together, which init writes one at a
time.  `TrustInv` says what ties them: a plan is what init computes from the files it
read, with the shadow that is still there (`PlanFits`); where the shadow has one of our
commands, an approval given under it is of that command (`ReviewedFits`); and between
its writes init leaves a reviewed approval only at positions that it does not change
and that the shadow attests (`ReviewedWasRead`, `ReviewedStays`), so that attesting
its own hooks anew is right.  The rest is about `mergeCodexHooks`.  `Selected` picks
elements of a sequence by the rank of their indices, so that the proof has to show
that ranks name each index once (`RankIs`); `MergedGroups` and `MergedAt` say what
stands where after a merge, and `MergedAgain` and `RouteAgain` that a second merge, of
the route the first has left, is the identity on a tidy file.

A run for Claude Code acts on what it saw, and `WireInv` remembers that: what it
writes is the merge of what it read, and its names and remaining commands are those
planned from the registry it has seen (`RunFits`).  The properties then follow from
what a merge does to an event (`MergedIs`, `HandlersStay`, `WiredIs`) and from what a plan may
contain (`PlannedActs`): a name it leaves out was in order then (`OkIs`), and one it
removes was ours, or has changed since (`RemovedIs`).

`SkipGateProofs` proves, for all keys, lifetimes, limits and numbers of writes
(`SkipGateAssumption`: they are natural numbers, at least one pass and one entry):

- `SkipGateTypeCorrect`: `Spec => []TypeOK`;
- `HeardWritesAreServed`: `Spec => []HeardIsServed`, for any number of passes;
- `StaleForBothLifetimes`: `Spec => []StaleForBothTTLs`;
- `GenerationIsServedByOnePass`: `Spec => []GenerationIsServed`, assuming
  `Passes = 1`.

The three properties speak of entries; each needs its like for the candidates
and for the hook in progress (`HeardInv`, `FreshInv`, `GenerationInv`), because
an entry is made of them.  `EntriesStep` and `CandidatesStep` say where an entry
or a candidate comes from, `NewsStep` that time passes and news arrives only
between hooks, and that news empties both caches; the invariants follow from
these without the actions.  For the generation, `Covers` compares numbers: the
last check counted no more applied writes than the read could see, so if the
count is still right the read saw them all.  With two passes this is false: the
second pass checks again after the first has read.

Of governance (`GovernanceAssumption`) it proves, for any sessions, evaluators,
rules, calls, trees and orders of the hooks:

- `EditsCountOnce`: `GovernanceSpec => []ChangesCountedOnce`;
- `PassesAreCurrent`: `GovernanceSpec => PassIsCurrent`.

`GovInv` keeps the mutation sequence equal to the number of different changes
recorded and of calls that may have changed anything (`Tallied`), which is what
the dedup of a second report has to achieve; and it says what an evaluation may
rely on between its steps: the rules of a snapshot that is complete have the
watermarks of the store, none later than the snapshot (`Watched`), watermarks and
events stay as they are once they are there (`Kept`), and what is about to be
warned of was withheld already (`Sound`).  A resolution that finds the sequence
where its snapshot had it then judges the evidence that still stands.
`LatestIsGreatest`, that the latest of some numbers is one of them, rests on the
library's well-foundedness, as `LeastNumber` does.

Of the memory tool (`MemoryFilesAssumption`: the categories of shareable kinds are
categories, a new row has a revision, and a missing row is none) it proves, for any
agents, files, texts, ids that share a stem and other writers:

- `EditsMeetTheRows`: `FilesSpec => []EditsMeetWhatWasSeen`;
- `JournalFollowsRows`: `FilesSpec => []JournalTellsPlace`.

The two properties are nearly inductive; `MemoryInv` adds that a row was never
written at a revision it has not reached (`RowsTyped`).  `JournalStep` states once
what every writer owes the journal, by the rows it lists as written and as gone:
a written row is live, a gone one is dead or out of every project, and what is
listed as neither keeps its place and its last change.  Each command is then shown
to pay that (`RetireStep`, `RenameStep`, `ReplaceStep`, `OtherWriters`), and to have
written nothing outside the files whose renderings it drops or makes anew
(`TouchedWithin`, `CommitStep`).  `QuotedRow` is the compare-and-swap: a block that is
accepted names one row, in the state that was shown.

`StateMigrationProofs` proves, for any number of runs, processes, commits,
crashes and power losses (`StoresAssumption`, and `EntriesAssumption`: the kinds
of directory entry differ):

- `MigrationTypeCorrect`: `Spec => []TypeOK`;
- `NoWriteIsLost`: `Spec => []NoWriteLost`;
- `NothingIsClobbered`: `Spec => []NothingClobbered`;
- `ConfigIsCarried`: `Spec => []ConfigCarried`.

`MigrationInv` is the protocol's reason: the lock leaves the target to one run
(`TypeOK`); the marker ends every other (`MarkerEndsRuns`); a stage and a
published copy hold what the guard connection saw (`StageIsFull`, `CopyIsFull`),
which is everything if `data_version` has not moved; from the sync of the
directory on, the copy and the config are durable (`CopyIsDurable`,
`ConfigIsDurable`), so that a power loss cannot leave the marker beside less; and
the legacy store has every write for as long as the marker's entry is not
durable (`LegacyHasAll`), the copy from the last comparison on (`CopyHasAll`).

Of opening the store (`StoreAssumption`: the files found have the shape of a
file) it proves, for any number of processes, opens, corruptions and crashes:

- `StoreIsSound`: `FoundRecent /\ StoreSpec => []OpenedIsSound`;
- `RemovalsHaveACauseAlways`: `StoreSpec => RemovalsHaveACause`.

The hypothesis of the first is needed, and TLC has the counterexample.  `FoundRecent`
says that a file found is empty or states version 28 or later with the pieces that
version promises: below, two processes that run the rebuild of v28 one after the
other can leave a schema that its version belies.  `StoreInv` ties where a
process stands to the file it holds (`Reached`): what it read of the version is no
more than what the file states now, since versions only grow (`Grows`), and every
statement it has run left its pieces in that file, though the path may have another
by now.

The second has no hypothesis: of two processes that recover one corrupt file the
slower removes what the faster has made, and the property names that case.
`RemovalInv` says why there is no other: a process that is about to copy or to
unlink has found a file corrupt; unless the path has changed since (`amid`), that
file is the one still there, damage does not heal, and from the copy on every row of
its main file is in a copy or came into it later (`uncopied`).  What
the path had is followed through each step by `FileKept`, `RowsMove`, `RecoveryStep`
and `UnlinkStep`.

`EditTrackerProofs` proves, for any number of hooks of each kind, crashes, slow
holders and thieves (`TrackerAssumption`):

- `LossHasACause`: `Spec => LossNeedsACause`;
- `FreshLocksStay`: `Spec => []FreshLocksAreKept`.

`LockInv` says what the lock is good for: a hook past it holds it or went on
without (`HoldsOrOpen`); a holder who was not robbed made the one at the path
(`HolderOwns`), so there is one such; and what he has loaded is what the last
such writer left (`LoadIsCurrent`).  A thief has seen an old lock
(`ThievesSawAge`), which is why fresh locks stay.

Of the outcomes of tools (`ToolDemuxAssumption`) it proves, for any calls,
deliveries, contents of the rollout file, overlapping loops and crashes:

- `OutcomesCountOnce`: `DemuxSpec => []RoutedOnce`.

What has been routed is not enough to say what may still be: a hook or a loop that
has claimed an outcome routes it some steps later.  `DemuxInv` counts the claims
(`Claims`): those granted for a call, routed or under way, are its marker and one
for each claim that the database failed to record, and what is routed never
exceeds them.

`PlansProofs` proves, for any number of agents, plans, steps, notes and
decisions:

- `ClaimedOnce`: `Spec => []OneClaim`;
- `OneActiveWithoutRaces`: `Spec => []TwoActiveNeedARace`;
- `DecisionsAreStored`: `Spec => []DecisionsGraduate`;
- `PlansAreSafe`: `Spec => []PlansSafe`, the three together;
- `NoteLossNeedsARace`: `Spec => NotesNeedARace`.

The invariant adds that a step somebody was told he has is in progress under
him (`Held`); that a create which has archived left no plan active but those it
missed (`Archived`); that a plan in use was inserted (`Inserted`); and that the
decisions of a plan being completed are stored, on an agent's list, or late
(`Stored`).  For the notes, `Reads` says that what a step holds is what a process
about to append has read, or was added since.

Of the reminders (`ReminderAssumption`: finitely many processes, counts told
apart beyond what the limits and the processes can reach) it proves

- `OvershootHasABound`: `ReminderSpec => []OvershootIsBounded`.

The bound says nothing of the processes that are between their read and their
fire, on which it rests.  `RemInv` counts them (`Bounded`).  While a reminder is on,
the fires counted and the processes that read it low and so will not switch it off
(`Low`) stay below the limit plus the number of other processes: who reads it at
its limit is not one of them and will end this phase.  Once it is off nobody reads
it again, and all who hold it (`Holding`), every other process at the most, count
once more: twice the other processes in all.

Of the goals that sessions hand on (`GoalsAssumption`: the window of a goal is
positive and no longer than retention, and no time and no name is the mark for
none) it proves, for any number of sessions, tasks, branches and plans, and for
every length of the two windows,

- `GoalsTypeCorrect`: `GoalsSpec => []GoalsTypeOK`;
- `GoalsAreTold`: `GoalsSpec => []GoalsAreHonest`.

Nothing in `GoalsAreHonest` speaks of the drafts, from which rows come, nor of
rows to come from those that are there.  `GoalsInv` says three things of the rows
(`RowsInv`): they are in the order of time, each read before its number was given
out; a task not inherited was stated as the row was stored, and one inherited once
was stated within the window; and what a session stated is in a row of its own
until retention removes it (`StatedIsKept`), which is why a compaction that finds
none of its own may take another's.  A row need answer for its session's own task
only until there is a later one (`RowsOwnFirst`).  Of the drafts (`DraftsInv`) it
says the same, and that the clock a draft carries is that of the last goal of the
rows its hook had read (`DraftsKeepClocks`): two snapshots at once are those with a
row in between.  Deleting the rows out of retention leaves a suffix
(`CloseKeepsSuffix`), so the row before a row, if any is left, is the one it was.

Model-checked only, because the provers do not reach it: liveness
(`EveryIntentClassified`, `Log!FairSpec`, `EveryDeliveryAnswered`,
`SocketGetsServed`, `EventuallyRouted`, `EveryHookEnds`, `EveryRelayEnds`), which
needs fairness and ENABLED; with it stays `ImplementsIntentLog`, whose safety part
is the theorem `Refinement`.  Every other property of a passing run is stated by a
theorem.

The prover reads a prefix `UNION` or `SUBSET` as reaching over a following `\cup`, TLC as
ending before it; such an argument is in parentheses here, so that both mean the
same.

## Divergences between the code and what it says

Two are runs that TLC ends with a counterexample.  `overlapping_claims`: two
processes that start at once can both serve, because each unlinks the pid file
before it creates it (`socket-ownership.ts:182`), and the one whose socket file
was unlinked goes on listening where nobody can reach it.  `cross_project`: an
upsert of a mapped entity does not compare projects (`upsert-apply.ts:187`), which
a tombstone does (`apply.ts:70`), so a batch of one project takes over an entity of
another and writes its row.  `PROJECT.json` quotes what the code says of itself.

The others were met while modelling, and are not runs: the properties that hold
are stated around them.  About the replica:

- `applyAlias` deletes the source's row even when it carries an unpushed edit
  (`apply.ts:128`), which tombstones (`apply.ts:84`) and upserts never do.
- `updateAnchorsForRenames` changes a projected field of bound rows without a
  journal entry (`staleness.ts:130`), although the anchor is in the projection
  (`projection.ts:24-29`): the row counts as diverged for good.
- the stored projection of a shadowed entity keeps the old id after a rename of its
  project, and an alias makes a row under it (`apply.ts:130`).
- session-end consolidation can merge an active row into one retired earlier in
  the same pass (`session-consolidation.ts:43`, its guard at 107-108).
- a project rename moves journal entries (`project-identity-migration.ts:76`)
  but not the cursor that consumes them (19).
- `classifyAndAdvance` does not bound the cursor by the newest entry, so a worker
  that overshoots loses what is appended next (`journal-consumer.ts:113`; the
  constant `Overshoot`, and the hypothesis of `NothingLost`).
- a restore to the global scope leaves the team's copy without a tombstone
  (`portability.ts:199`).
- the contributors of a shadowed alias source are dropped with its entry, so
  `BoundProvenanceInherited` speaks of bound sources.
- `projection.ts:40` still says an echo can overwrite a pending confidence
  change; the code protects it (`PendingTrustSurvives`).

About the hooks' cache:

- a handler with two recall passes checks the generation again between them
  (`recall-cache.ts:69` by way of `memory-recall.ts:149` and
  `pitfall-handler.ts:237`): a write applied in between is noted, and an answer
  that rests on the first pass is cached under it.  `GenerationIsServed` holds of
  one pass only.
- after a first check that failed, the next one that succeeds flushes nothing
  (`session-cache.ts:205`); hence `verified`.
- a write whose bump is lost can be invisible for the candidates' and the
  entry's lifetime together, 90 seconds, where `constants/session.ts:94` and
  `socket-ownership.ts` speak of the gate's 60.

About governance:

- two required gates that an agent runs as separate commands never meet in one
  evidence set (`mutation-classifier.ts:102-108`,
  `evidence-selector.ts:129-136`, `289-298`), while the repository's own
  `.cairn/gates.json` requires two.
- the recorder matches changed files against the configuration's patterns, the
  evaluator against those and the rule's.
- the digest of a gate run is taken after the command ran, so it vouches for what
  the tree was then.
- the second file of an edit of several is dropped as a duplicate of the first.
- a watermark another evaluator set first reads as an error of one's own.

About the store and the tracker:

- the rebuild of v28 drops the columns of a newer schema when a slower process
  runs it again (`v28-governance.ts:163`).
- of two processes that find one corrupt file, the slower removes the fresh
  database of the faster, which no copy has (`connection.ts:534`).
- of two thieves of a lock the second removes the lock of the first
  (`edit-tracker.ts:209`).
- the nudge Stop leaves in the tracker's file is flushed over by the daemon's copy
  (`hook-socket.ts:139`).

About plans, goals and reminders:

- both of two creates archive before either inserts (`plan-repository.ts:127`); a
  plan is archived as untouched after it was worked on
  (`maintenance-cleanup.ts:48`); a decision is stored with a plan that has
  graduated (`plan-repository.ts:357`).
- a goal made of one branch's name is shown on another (`goal-resolver.ts:191`); a
  task is inherited from an inheritance, past the window (109); the second end of a
  session is not recorded (`session-end-handler.ts:68`).
- rows that are not due fill the query that looks for due ones
  (`reminder-repository.ts:185`); two limits count too little (134, 81); a prompt
  fires timed reminders (109); a reminder is spent that was not shown
  (`recall-layers.ts:156`).

About the clients' wiring:

- a `config.toml` that init leaves alone keeps approvals of what it replaces, and
  the shadow attests the new commands (`codex-init.ts:496`); so does an approval that
  was switched off while init replaced its command: it is kept as inert (428-432), and
  once switched on again it is reported as trusted and never runs; an edit that is
  approved and undone is reported as trusted (250); keeping a route that shares its
  group costs its approval (70).
- a full init deletes a user's handler that shares an entry with ours
  (`init.ts:190`); the backup can be of a file init wrote (263); the restore command
  is not always printed (`claude-mcp.ts:239`).

About the others:

- `str_replace` that removes the last record commits and then throws while it
  renders (`command-handlers.ts:184-185`, `102`), where
  `docs/memory-tool-adapter.md:112` promises no mutation with an error.
- a directory listing freezes the files again that a paged view is in the middle
  of (`listings.ts:38`, against `render-cache.ts:3-6`).
- the shell relay reruns an event whose handler may have run (`hook-relay.sh:113`).
- the compiled relay falls back on an HTTP error of any hook, which
  `hook-relay.sh:131` says must not happen.
- PreCompact lets another session's goal through the gate it has for its own
  session's boundary, and the snapshot a resumed session took at its end may hold
  another's task: `OwnTaskFirst` excludes both ends.
- `fsyncPath` of a directory swallows its errors, where `migrate-fs.ts:97-100`
  calls the publication durable.

## Not modelled

The map names about a fifth of the implementation's lines.  The modules cover
the parts that keep state other processes depend on; most of the rest of the
repository keeps none, or none that anything but its own function reads, and a
model of it would be the code over again:

- reads: search and ranking, recall, the token budget, the text of the briefing,
  eligibility for sync, statistics and inspection: pure functions of rows;
- the MCP tools and the hook handlers around what they call: parsing of
  arguments, formatting of answers, telemetry.  What they write goes through the
  writers that are modelled, or through repositories of one statement per call;
- the command line beside `init` and `migrate`, the adapters of the clients;
- importers, packs, the scanner of a project, the parsers of errors, transcripts
  and test output;
- the configuration, constants, utilities, and the contract package, which is
  types and validators (the journal's and the path's are used by the models).

`Replica` leaves out the tombstone audit log, edges, embeddings and revisions.

## Plan

In this order, one module each, composed where they interact:

1. done: `JournalConsumer`, `SyncApply`, `Replica`, `JournalProofs`.
2. done: `OwnerRpc` and `OwnerRpcProofs`.
3. done: `SocketClaim` and `SocketClaimProofs`.
4. done: `SkipGate` and `SkipGateProofs`.
5. done: `ToolDemux`, `Governance`, `MemoryFiles`.
6. done: `StateMigration` and `StateMigrationProofs`.
7. done: `StoreOpen`, `EditTracker` with `EditTrackerProofs`, `Plans` with
   `PlansProofs`, `HookRelay`, `SessionGoals`, `CodexTrust`, `ClientInit`,
   `Reminders`.
8. done: `ReplicaProofs`.
9. done: the safety of `Governance`, `MemoryFiles`, `ToolDemux`, `StoreOpen`,
   `Reminders`, `HookRelay`, `SessionGoals`, `CodexTrust` and `ClientInit` for all
   constants, beside the proofs of a module they share a concern or a run with.
