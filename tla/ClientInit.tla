----------------------------- MODULE ClientInit -----------------------------
(***************************************************************************)
(* `waykeep init` for Claude Code: the hooks, the status line and the      *)
(* inert server blocks of settings.json, which init rewrites as a whole,   *)
(* and the MCP registry of ~/.claude.json, which it plans from a look at   *)
(* the file, changes through the `claude mcp` commands and then reads      *)
(* again.  Runs of several installs and people editing the files meet.     *)
(*                                                                         *)
(* An entry of a hook event is the set of its handlers, {} one without a   *)
(* list of them.  Of the events, "wired" stands for those init wires and   *)
(* "retired" for those an older release did.                               *)
(***************************************************************************)
EXTENDS Naturals, Sequences, FiniteSets, SequencesExt

CONSTANTS
  Install,   \* installs of the product
  Foreign,   \* handlers that are the user's own
  Run,       \* runs of init that may overlap
  Entries,   \* hook entries and server entries that others write
  Servers,
  Left,      \* the files users and older installs left: settings.json,
  Registered,  \* and the registry
  Missing,
  MaxRuns, MaxEdits, MaxFaults   \* bounds: runs, edits by others, failures of the CLI

Event == {"wired", "retired"}
Name == {"waykeep", "cairn"}
Mode == {"full", "plugin"}

\* A server entry launches install `at`: as init registers it, otherwise, or by
\* another path to it; or it is a wrapper of some install; or not ours at all.
Entry == [at : Install \cup {Missing}, form : {"exact", "other", "linked", "wrapper", "foreign"}]
Desired(i) == [at |-> i, form |-> "exact"]

Settings == [hooks : [Event -> SUBSET SUBSET (Install \cup Foreign)], status : {Missing, "user", "ours"},
             server : Entry \cup {Missing}, legacy : Entry \cup {Missing}]

ASSUME ClientAssumption ==
  /\ {MaxRuns, MaxEdits, MaxFaults} \subseteq Nat
  /\ Install \cap Foreign = {} /\ Missing \notin Install \cup Foreign \cup Entry \cup Settings
  /\ Entries \subseteq SUBSET (Install \cup Foreign) /\ Servers \subseteq Entry \cup {Missing}
  /\ Left \subseteq Settings \cup {Missing} /\ Registered \subseteq [Name -> Entry \cup {Missing}]

VARIABLES
  settings,   \* settings.json, or Missing
  backup,     \* its backup: Missing, or whose file it is: "user", "init", "partial"
  written,    \* ghost: init has written settings.json
  registry,   \* the entry of each name, or Missing
  run,        \* the runs
  runs, edits, faults

wire == <<settings, backup, written, registry, run, runs, edits, faults>>

-----------------------------------------------------------------------------
(* What an entry is                                                        *)

References(e, i) == e # Missing /\ e.at = i /\ e.form \in {"exact", "other"}

LooksOurs(e) == e # Missing /\ e.form # "foreign"

IsOurs(entry) == entry \cap Install # {}

-----------------------------------------------------------------------------
(* settings.json                                                           *)

\* Handler by handler; an entry left empty goes.
Swept(entries) == {e \in entries : ~IsOurs(e)} \cup {e \ Install : e \in {x \in entries : x \ Install # {}}}

\* Entry by entry.
Rewired(entries, i) == {e \in entries : ~IsOurs(e)} \cup {{i}}

\* sweepSettingsMcpServers
WithoutInert(s, i) ==
  [s EXCEPT !.server = IF LooksOurs(@) THEN Missing ELSE @,
            !.legacy = IF References(@, i) THEN Missing ELSE @]

\* mergeSettings
Merged(s, i, mode) ==
  [WithoutInert(s, i) EXCEPT
     !.status = IF @ = "user" THEN @ ELSE "ours",
     !.hooks = [ev \in Event |-> IF mode = "full" /\ ev = "wired" THEN Rewired(@[ev], i) ELSE Swept(@[ev])]]

Empty == [hooks |-> [ev \in Event |-> {}], status |-> Missing, server |-> Missing, legacy |-> Missing]

-----------------------------------------------------------------------------
(* The registry                                                            *)

Removing(n) == [do |-> "remove", name |-> n, previous |-> Missing]
Adding(previous) == [do |-> "add", name |-> "waykeep", previous |-> previous]

\* planClaudeMcp, for either name
PlannedOurs(current, i, mode) ==
  IF mode = "plugin" THEN IF References(current, i) THEN <<Removing("waykeep")>> ELSE <<>>
  ELSE IF current = Missing THEN <<Adding(Missing)>>
  ELSE IF current = Desired(i) THEN <<>>
  ELSE <<Removing("waykeep"), Adding(current)>>

PlannedLegacy(current, i) == IF References(current, i) THEN <<Removing("cairn")>> ELSE <<>>

Planned(reg, i, mode) == PlannedOurs(reg["waykeep"], i, mode) \o PlannedLegacy(reg["cairn"], i)

NamesIn(todo) == {a.name : a \in Range(todo)}

\* The CLI refuses to remove what is not there and to add what is.
Accepts(reg, a) == (a.do = "add") <=> (reg[a.name] = Missing)

Applied(reg, a, i) == [reg EXCEPT ![a.name] = IF a.do = "add" THEN Desired(i) ELSE Missing]

\* Fault: the CLI's exit status is proof enough.
VerifiedBlindly(reg, names, i, mode) == TRUE

\* verifyApplied: the last action for a name tells what to find.
Verified(reg, names, i, mode) ==
  \A n \in names : reg[n] = IF n = "waykeep" /\ mode = "full" THEN Desired(i) ELSE Missing

\* claudeMcpHealth, of the install that ran init; the plugin is what the user
\* has who runs it in plugin mode.
Health(s, reg, i, mode) ==
  LET e == reg["waykeep"]
      ours == e # Missing /\ e.at = i /\ e.form \in {"exact", "other", "linked"}
  IN IF ~LooksOurs(s.server) /\ (ours \/ (e = Missing /\ mode = "plugin")) THEN "ok" ELSE "warn"

-----------------------------------------------------------------------------
WireInit ==
  /\ settings \in Left
  /\ backup = Missing /\ written = FALSE
  /\ registry \in Registered
  /\ run = [p \in Run |-> Missing]
  /\ runs = 0 /\ edits = 0 /\ faults = 0

Stands(p, place) == run[p] # Missing /\ run[p].pc = place

GoesTo(p, place) == run' = [run EXCEPT ![p].pc = place]

files == <<settings, backup, written, registry>>
bounds == <<runs, edits, faults>>

\* settings.json is read and merged at once.
BeginRun(p) ==
  /\ run[p] = Missing /\ runs < MaxRuns /\ runs' = runs + 1
  /\ \E i \in Install, mode \in Mode :
       LET was == IF settings = Missing THEN Empty ELSE settings
       IN run' = [run EXCEPT ![p] =
            [pc |-> "backup", at |-> i, mode |-> mode, was |-> was, merged |-> Merged(was, i, mode),
             seen |-> registry, todo |-> <<>>, names |-> {}, removed |-> {},
             failed |-> FALSE, told |-> FALSE, outcome |-> Missing]]
  /\ UNCHANGED <<files, edits, faults>>

\* The file is backed up if it is there and no backup is.
Backup(p) ==
  /\ Stands(p, "backup")
  /\ GoesTo(p, IF settings # Missing /\ backup = Missing THEN "copy" ELSE "write")
  /\ UNCHANGED <<files, bounds>>

Copy(p) ==
  /\ Stands(p, "copy")
  /\ backup' = IF written THEN "init" ELSE "user"
  /\ GoesTo(p, "write")
  /\ UNCHANGED <<settings, written, registry, bounds>>

Write(p) ==
  /\ Stands(p, "write")
  /\ settings' = run[p].merged /\ written' = TRUE
  /\ GoesTo(p, "plan")
  /\ UNCHANGED <<backup, registry, bounds>>

Ends(p, r, result) == run' = [run EXCEPT ![p] = [r EXCEPT !.pc = "done", !.outcome = result]]

\* The registry is read; where the CLI is missing the commands are printed.
Plan(p) ==
  /\ Stands(p, "plan")
  /\ LET todo == Planned(registry, run[p].at, run[p].mode)
         r == [run[p] EXCEPT !.pc = "apply", !.seen = registry, !.todo = todo,
                             !.names = NamesIn(todo)]
     IN IF todo = <<>> THEN Ends(p, r, "ok")
        ELSE run' = [run EXCEPT ![p] = r] \/ Ends(p, r, "pending")
  /\ UNCHANGED <<files, bounds>>

\* After the last command.
AfterCommand(r) ==
  IF r.todo # <<>> THEN r
  ELSE IF r.failed THEN [r EXCEPT !.pc = "done", !.outcome = "failed"]
  ELSE [r EXCEPT !.pc = "verify"]

\* What the run notes of a command that fails or seems to.  After the remove
\* of a pair, a failed add prints how to restore what the remove took away.
Failing(r, a) == [r EXCEPT !.failed = TRUE, !.told = @ \/ (a.previous # Missing /\ a.name \in r.removed)]
Succeeding(r, a) == [r EXCEPT !.removed = IF a.do = "remove" THEN @ \cup {a.name} ELSE @]

\* One call of the CLI.  It may fail without effect, exceed its time after the
\* effect, or report success and have written nothing.
RunCommand(p) ==
  /\ Stands(p, "apply")
  /\ LET a == Head(run[p].todo)
         r == [run[p] EXCEPT !.todo = Tail(@)]
         Now(res) == run' = [run EXCEPT ![p] = AfterCommand(res)]
     IN \/ /\ Accepts(registry, a)
           /\ registry' = Applied(registry, a, r.at)
           /\ \/ Now(Succeeding(r, a)) /\ UNCHANGED faults
              \/ Now(Failing(r, a)) /\ faults < MaxFaults /\ faults' = faults + 1
        \/ /\ ~Accepts(registry, a)
           /\ Now(Failing(r, a)) /\ UNCHANGED <<registry, faults>>
        \/ /\ faults < MaxFaults /\ faults' = faults + 1
           /\ Now(Failing(r, a)) \/ Now(Succeeding(r, a))
           /\ UNCHANGED registry
  /\ UNCHANGED <<settings, backup, written, runs, edits>>

Verify(p) ==
  /\ Stands(p, "verify")
  /\ Ends(p, run[p], IF Verified(registry, run[p].names, run[p].at, run[p].mode) THEN "ok" ELSE "failed")
  /\ UNCHANGED <<files, bounds>>

Leave(p) ==
  /\ Stands(p, "done")
  /\ run' = [run EXCEPT ![p] = Missing]
  /\ UNCHANGED <<files, bounds>>

\* A kill, or an exception of a file operation; of the copy, in its middle.
StopRun(p) ==
  /\ run[p] # Missing /\ ~Stands(p, "done")
  /\ faults < MaxFaults /\ faults' = faults + 1
  /\ run' = [run EXCEPT ![p] = Missing]
  /\ backup' \in IF Stands(p, "copy") THEN {backup, "partial"} ELSE {backup}
  /\ UNCHANGED <<settings, written, registry, runs, edits>>

-----------------------------------------------------------------------------
(* Others                                                                  *)

EditSettings ==
  /\ edits < MaxEdits /\ edits' = edits + 1
  /\ \E ev \in Event, e \in Entries :
       settings' = [(IF settings = Missing THEN Empty ELSE settings) EXCEPT !.hooks[ev] = @ \cup {e}]
  /\ UNCHANGED <<backup, written, registry, run, runs, faults>>

EditRegistry ==
  /\ edits < MaxEdits /\ edits' = edits + 1
  /\ \E n \in Name, e \in Servers : registry' = [registry EXCEPT ![n] = e]
  /\ UNCHANGED <<settings, backup, written, run, runs, faults>>

-----------------------------------------------------------------------------
Step(p) ==
  \/ BeginRun(p) \/ Backup(p) \/ Copy(p) \/ Write(p) \/ Plan(p) \/ RunCommand(p)
  \/ Verify(p) \/ Leave(p) \/ StopRun(p)

WireNext == (\E p \in Run : Step(p)) \/ EditSettings \/ EditRegistry

WireSpec == WireInit /\ [][WireNext]_wire

-----------------------------------------------------------------------------
Registry == [Name -> Entry \cup {Missing}]

Action == [do : {"remove", "add"}, name : Name, previous : Entry \cup {Missing}]

Running == [pc : {"backup", "copy", "write", "plan", "apply", "verify", "done"}, at : Install, mode : Mode,
            was : Settings, merged : Settings, seen : Registry, todo : Seq(Action),
            names : SUBSET Name, removed : SUBSET Name, failed : BOOLEAN, told : BOOLEAN,
            outcome : {Missing, "ok", "pending", "failed"}]

WireTypeOK ==
  /\ settings \in Settings \cup {Missing}
  /\ backup \in {Missing, "user", "init", "partial"} /\ written \in BOOLEAN
  /\ registry \in Registry
  /\ run \in [Run -> Running \cup {Missing}]
  /\ \A p \in Run : Stands(p, "apply") => run[p].todo # <<>>
  /\ runs \in 0..MaxRuns /\ edits \in 0..MaxEdits /\ faults \in 0..MaxFaults

Ended(p, result) == ~Stands(p, "done") /\ Stands(p, "done")' /\ run'[p].outcome = result

\* The name is as the run wants it.
Right(n, i, mode) ==
  IF n = "waykeep" /\ mode = "full" THEN registry[n] = Desired(i) ELSE ~References(registry[n], i)

\* A run that reports success has what it wants in the registry, whatever the
\* CLI claims; a name it had found in order may have changed since.
OkIsRegistered ==
  [][\A p \in Run : Ended(p, "ok") =>
       \A n \in Name : \/ Right(n, run[p].at, run[p].mode)
                        \/ /\ n \notin run[p].names /\ run[p].pc = "verify"
                           /\ registry[n] # run[p].seen[n]]_wire

\* What a run removes launches this install's server, or bears its name in a
\* full run, or was put there after the run had looked.
OthersNeedARace ==
  [][\A p \in Run, n \in Name :
       (Stands(p, "apply") /\ run'[p] # run[p] /\ registry[n] # Missing /\ registry'[n] # registry[n]) =>
         \/ References(registry[n], run[p].at)
         \/ (n = "waykeep" /\ run[p].mode = "full")
         \/ registry[n] # run[p].seen[n]]_wire

Kept(s, ev) == (UNION s.hooks[ev]) \cap Foreign

\* A user's handler is lost to a run only if the run had not read it, or if it
\* shared an entry of a wired event with one of ours.
ForeignLossHasACause ==
  [][\A p \in Run, ev \in Event : (Stands(p, "write") /\ Stands(p, "plan")' /\ settings # Missing) =>
       \A f \in Kept(settings, ev) \ Kept(settings', ev) :
         \/ f \notin Kept(run[p].was, ev)
         \/ /\ ev = "wired" /\ run[p].mode = "full"
            /\ \A e \in run[p].was.hooks[ev] : f \in e => IsOurs(e)]_wire

\* After a run an event runs our handler once, this install's, or never where
\* the plugin runs it.
WiredOnce ==
  [][\A p \in Run : (Stands(p, "write") /\ Stands(p, "plan")') =>
       /\ (UNION settings'.hooks["wired"]) \cap Install = (IF run[p].mode = "full" THEN {run[p].at} ELSE {})
       /\ (UNION settings'.hooks["retired"]) \cap Install = {}]_wire

\* Doctor has nothing to say right after a run that reports success, unless an
\* entry was left to the user or somebody wrote in between.
DoctorAgrees ==
  [][\A p \in Run : (Ended(p, "ok") /\ settings = run[p].merged) =>
       \/ Health(settings, registry, run[p].at, run[p].mode) = "ok"
       \/ (run[p].mode = "plugin" /\ registry["waykeep"] # Missing)
       \/ /\ "waykeep" \notin run[p].names /\ run[p].pc = "verify"
          /\ registry["waykeep"] # run[p].seen["waykeep"]]_wire

\* What a run does to the registry and says of it.
RegistryIsAsReported == OkIsRegistered /\ OthersNeedARace /\ DoctorAgrees

HandlersAreKept == ForeignLossHasACause /\ WiredOnce

\* What the user and other tools put into the client's files stays there, and
\* what init says of the registry is what the registry holds.
WiringIsKept == HandlersAreKept /\ RegistryIsAsReported
=============================================================================
