----------------------------- MODULE HookRelay -----------------------------
(***************************************************************************)
(* The way of a hook event: a relay process (the compiled one, or the shell *)
(* script where that does not run) posts it to the daemon's socket and      *)
(* prints the answer, or runs the hook's own script under node.             *)
(***************************************************************************)
EXTENDS Naturals

CONSTANT Events   \* hook events, each with a relay process of its own

VARIABLES
  kind,     \* how each event is relayed
  socket,   \* the socket file is there
  daemon,   \* "down", "up", or "old": up, without the route
  pc,       \* where each relay stands
  request,  \* what has become of a request on the daemon's side
  outcome,  \* how the relay's attempt at the socket ended
  running,  \* who runs the event's handler just now
  began,    \* how often it has begun
  ended,    \* how often it has run to its end
  printed   \* what the client got: nothing, a whole output, or the part that came in time

relays == <<pc, outcome, printed>>
handlers == <<running, began, ended>>
given == <<kind, socket, daemon>>
relayVars == <<given, relays, request, handlers>>

\* Which relay; what the client registered, and how it waits; and whether the event
\* is too long for the compiled relay's buffer.
Kinds ==
  [relay : {"c", "sh"}, hook : {"sync", "async", "governance", "standalone"}, large : BOOLEAN]

Relay(e) == kind[e].relay
Hook(e) == kind[e].hook
Overflows(e) == Relay(e) = "c" /\ kind[e].large

Goes(e, to) == pc' = [pc EXCEPT ![e] = to]

-----------------------------------------------------------------------------
(* The relay                                                               *)

\* Fault: a timeout is a failure like the others.
FallsBackLate(e) ==
  IF Hook(e) = "governance" THEN {} ELSE {"large", "absent", "refused", "unsent", "missing", "failed", "late"}

\* The outcomes after which the hook's own script runs.
FallsBack(e) ==
  IF Hook(e) = "governance" THEN {}
  ELSE IF Relay(e) = "c" THEN {"large", "absent", "refused", "unsent", "missing", "failed"}
  ELSE IF Hook(e) = "async" THEN {"absent", "refused", "missing"}
  ELSE {"absent", "refused", "unsent", "missing", "failed", "lost", "cut"}

Settles(e, o) ==
  /\ outcome' = [outcome EXCEPT ![e] = o]
  /\ Goes(e, IF o \in FallsBack(e) THEN "fallback" ELSE "done")

\* Standard input is read; what does not fit is streamed to the script.
Begin(e) ==
  /\ pc[e] = "start"
  /\ \/ /\ Hook(e) = "standalone" /\ ~Overflows(e)
        /\ Goes(e, "fallback") /\ UNCHANGED outcome
     \/ Overflows(e) /\ Settles(e, "large")
     \/ /\ Hook(e) # "standalone" /\ ~Overflows(e)
        /\ Goes(e, "stat") /\ UNCHANGED outcome
  /\ UNCHANGED <<given, request, handlers, printed>>

Stat(e) ==
  /\ pc[e] = "stat"
  /\ IF socket THEN Goes(e, "connect") /\ UNCHANGED outcome ELSE Settles(e, "absent")
  /\ UNCHANGED <<given, request, handlers, printed>>

\* Accepted by the kernel.
Connect(e) ==
  /\ pc[e] = "connect"
  /\ IF socket /\ daemon # "down"
       THEN Goes(e, "send") /\ request' = [request EXCEPT ![e] = "open"] /\ UNCHANGED outcome
       ELSE Settles(e, "refused") /\ UNCHANGED request
  /\ UNCHANGED <<given, handlers, printed>>

Send(e) ==
  /\ pc[e] = "send"
  /\ IF request[e] = "lost"
       THEN Settles(e, "unsent") /\ UNCHANGED request
       ELSE Goes(e, "wait") /\ request' = [request EXCEPT ![e] = "sent"] /\ UNCHANGED outcome
  /\ UNCHANGED <<given, handlers, printed>>

\* What the client gets of an answer: the compiled relay prints what it has, but
\* for a governance check only a message and nothing else, whole.
Prints(e, whole) ==
  CASE Relay(e) = "sh" /\ Hook(e) = "async" -> {"nothing"}
    [] Hook(e) = "governance" -> IF whole THEN {"whole", "nothing"} ELSE {"nothing"}
    [] OTHER -> IF whole THEN {"whole"} ELSE IF Relay(e) = "c" THEN {"part"} ELSE {"nothing"}

\* The answer is there, or the connection is closed.
Receive(e) ==
  /\ pc[e] = "wait" /\ request[e] \in {"answered", "missing", "failed", "lost", "broken"}
  /\ Settles(e, IF request[e] = "broken" THEN "cut" ELSE request[e])
  /\ IF request[e] \in {"answered", "broken"}
       THEN \E what \in Prints(e, request[e] = "answered") : printed' = [printed EXCEPT ![e] = what]
       ELSE UNCHANGED printed
  /\ UNCHANGED <<given, request, handlers>>

\* Fault: the relay waits for its answer.
WaitOn(e) == FALSE /\ UNCHANGED relayVars

\* The deadline.
Timeout(e) ==
  /\ pc[e] = "wait" /\ request[e] \in {"sent", "run", "half"}
  /\ IF Relay(e) = "c" /\ request[e] = "half" THEN Settles(e, "cut") ELSE Settles(e, "late")
  /\ \E what \in IF request[e] = "half" THEN Prints(e, FALSE) ELSE {"nothing"} : printed' = [printed EXCEPT ![e] = what]
  /\ UNCHANGED <<given, request, handlers>>

\* A governance check has a deadline for all it does.
Watchdog(e) ==
  /\ Hook(e) = "governance" /\ Relay(e) = "c" /\ pc[e] # "done"
  /\ Settles(e, "late")
  /\ UNCHANGED <<given, request, handlers, printed>>

\* node runs the script, or cannot.
Fallback(e) ==
  /\ pc[e] = "fallback"
  /\ \/ /\ Goes(e, "node") /\ running' = [running EXCEPT ![e] = @ \cup {"node"}]
        /\ began' = [began EXCEPT ![e] = @ + 1] /\ UNCHANGED outcome
     \/ Goes(e, "done") /\ outcome' = [outcome EXCEPT ![e] = "unrun"] /\ UNCHANGED <<running, began>>
  /\ UNCHANGED <<given, request, ended, printed>>

\* The script ends, or dies on the way. The script of an async hook has no reader.
Node(e) ==
  /\ pc[e] = "node" /\ Goes(e, "done")
  /\ running' = [running EXCEPT ![e] = @ \ {"node"}]
  /\ \/ /\ ended' = [ended EXCEPT ![e] = @ + 1]
        /\ printed' = IF Relay(e) = "sh" /\ Hook(e) = "async" THEN printed ELSE [printed EXCEPT ![e] = "whole"]
     \/ UNCHANGED <<ended, printed>>
  /\ UNCHANGED <<given, outcome, request, began>>

-----------------------------------------------------------------------------
(* The daemon                                                              *)

Answers(e, what) == request' = [request EXCEPT ![e] = what]

\* The body is there: the route's handler begins, if there is one.
Route(e) ==
  /\ request[e] = "sent"
  /\ \/ /\ daemon = "up" /\ Answers(e, "run")
        /\ running' = [running EXCEPT ![e] = @ \cup {"daemon"}] /\ began' = [began EXCEPT ![e] = @ + 1]
     \/ daemon = "old" /\ Answers(e, "missing") /\ UNCHANGED <<running, began>>
  /\ UNCHANGED <<given, relays, ended>>

\* The handler ends; the answer goes out at once or in parts.
Handle(e) ==
  /\ request[e] = "run"
  /\ \E what \in {"answered", "half"} : Answers(e, what)
  /\ running' = [running EXCEPT ![e] = @ \ {"daemon"}] /\ ended' = [ended EXCEPT ![e] = @ + 1]
  /\ UNCHANGED <<given, relays, began>>

\* It throws, with what it has written so far in the store.
Throw(e) ==
  /\ request[e] = "run" /\ Answers(e, "failed")
  /\ running' = [running EXCEPT ![e] = @ \ {"daemon"}]
  /\ UNCHANGED <<given, relays, began, ended>>

Rest(e) == request[e] = "half" /\ Answers(e, "answered") /\ UNCHANGED <<given, relays, handlers>>

DaemonStarts ==
  /\ daemon = "down" /\ socket' = TRUE /\ \E d \in {"up", "old"} : daemon' = d
  /\ UNCHANGED <<kind, relays, request, handlers>>

\* It dies, or stops and takes its socket with it; what it has not answered is lost.
Die ==
  /\ daemon # "down" /\ daemon' = "down" /\ \E s \in BOOLEAN : socket' = s
  /\ request' = [e \in Events |-> CASE request[e] \in {"open", "sent", "run"} -> "lost"
                                    [] request[e] = "half" -> "broken"
                                    [] OTHER -> request[e]]
  /\ running' = [e \in Events |-> running[e] \ {"daemon"}]
  /\ UNCHANGED <<kind, relays, began, ended>>

-----------------------------------------------------------------------------

RelayInit ==
  /\ kind \in [Events -> Kinds]
  /\ socket \in BOOLEAN /\ daemon = "down"
  /\ pc = [e \in Events |-> "start"] /\ outcome = [e \in Events |-> "none"]
  /\ printed = [e \in Events |-> "nothing"] /\ request = [e \in Events |-> "none"]
  /\ running = [e \in Events |-> {}]
  /\ began = [e \in Events |-> 0] /\ ended = [e \in Events |-> 0]

RelayStep(e) == Begin(e) \/ Stat(e) \/ Connect(e) \/ Send(e) \/ Receive(e) \/ Timeout(e) \/ Fallback(e) \/ Node(e)

Serve(e) == Route(e) \/ Handle(e) \/ Throw(e) \/ Rest(e)

RelayNext == (\E e \in Events : RelayStep(e) \/ Watchdog(e) \/ Serve(e)) \/ DaemonStarts \/ Die

\* A relay's next step comes, its deadline included, and a script ends. The
\* daemon need do nothing.
RelayFairness == \A e \in Events : WF_relayVars(RelayStep(e))

RelaySpec == RelayInit /\ [][RelayNext]_relayVars /\ RelayFairness
-----------------------------------------------------------------------------

(* Every variable has its type, and the daemon runs exactly the handlers of   *)
(* requests it is at.                                                         *)
RelayTypeOK ==
  /\ kind \in [Events -> Kinds]
  /\ socket \in BOOLEAN /\ daemon \in {"down", "up", "old"}
  /\ pc \in [Events -> {"start", "stat", "connect", "send", "wait", "fallback", "node", "done"}]
  /\ request \in [Events -> {"none", "open", "sent", "run", "half", "answered", "missing", "failed", "lost", "broken"}]
  /\ outcome \in [Events -> {"none", "large", "absent", "refused", "unsent", "answered", "missing", "failed",
                             "lost", "cut", "late", "unrun"}]
  /\ printed \in [Events -> {"nothing", "whole", "part"}]
  /\ running \in [Events -> SUBSET {"daemon", "node"}] /\ began \in [Events -> 0 .. 2] /\ ended \in [Events -> 0 .. 2]
  /\ \A e \in Events : /\ "daemon" \in running[e] <=> request[e] = "run"
                       /\ "node" \in running[e] <=> pc[e] = "node"

(* An event's handler never runs in the daemon and under node at once, nor    *)
(* after the relay has given up on an answer ("a rerun double-counts          *)
(* everything", hook-relay.sh).                                               *)
NeverSideBySide ==
  \A e \in Events : /\ running[e] # {"daemon", "node"}
                    /\ outcome[e] = "late" => began[e] <= 1 /\ "node" \notin running[e]

(* An event is handled a second time only after the daemon answered with an   *)
(* error or, under the shell relay of a hook the client waits for, closed the *)
(* connection without an answer.                                              *)
TwiceNeedsAnError ==
  \A e \in Events : began[e] = 2 =>
    \/ request[e] = "failed"
    \/ Relay(e) = "sh" /\ Hook(e) = "sync" /\ request[e] \in {"lost", "broken"}

(* A relay that ends leaves an event unhandled only when node could not be    *)
(* run, or when the daemon had the request and died or did not get to it in   *)
(* time; a request the daemon has not got to may still be handled.            *)
LossNeedsTheDaemon ==
  \A e \in Events : pc[e] = "done" /\ began[e] = 0 /\ Hook(e) # "governance" =>
    outcome[e] \in {"unrun", "late"} \/ (outcome[e] \in {"lost", "unsent"} /\ request[e] = "lost")

(* What the client gets as an output is what a handler that has run to its    *)
(* end returned: never an error page.                                         *)
OutputIsOfARun == \A e \in Events : printed[e] # "nothing" => ended[e] >= 1

(* A governance check is advice: it never falls back to a script and never    *)
(* prints part of an answer.                                                  *)
GovernanceOnlyAdvises ==
  \A e \in Events : Hook(e) = "governance" => "node" \notin running[e] /\ began[e] <= 1 /\ printed[e] # "part"

(* An event is handled by one of the two, a second time only after an error,  *)
(* and the client gets what the handler returned.                             *)
HandledOnce == NeverSideBySide /\ TwiceNeedsAnError /\ OutputIsOfARun /\ GovernanceOnlyAdvises

(* Every event a client hands over is accounted for: handled by one of the    *)
(* two, or lost with the daemon.                                              *)
EventsAreAccountedFor == HandledOnce /\ LossNeedsTheDaemon

=============================================================================
