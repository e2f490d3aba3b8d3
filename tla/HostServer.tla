------------------------------- MODULE HostServer -------------------------------
(***************************************************************************)
(* `kelyfos serve-mcp` (host/servemcp*.go): one process that reads tool    *)
(* calls, runs each in a goroutine, keeps the machines they start in a     *)
(* map, holds at most one team (TeamRig), records every call in a chain of *)
(* its own, and closes everything when its input ends or a signal comes.   *)
(*                                                                         *)
(* A machine's own chain may fail at any time; the goroutine that watches  *)
(* it then takes the machine off the map and closes it, racing with        *)
(* sandbox_stop and with the end of the server.  A call's reads under the  *)
(* lock and what it does after are separate steps, as in the code.         *)
(*                                                                         *)
(* Bounds: each caller makes one call, each machine is used once, and a    *)
(* client uses one of the sets of tools in Mixes.                          *)
(***************************************************************************)
EXTENDS TeamRig

CONSTANTS
    Callers,   \* the tool calls a client may make
    Boxes,     \* identifiers of machines
    MaxBoxes,       \* [mcp] max_sandboxes
    MaxCalls,  \* maxConcurrentToolCalls
    Mixes,     \* the sets of tools a client may use
    Forks,     \* how many machines one sandbox_fork asks for
    Server,    \* the goroutine that serves and then closes everything
    Nobody     \* nobody holds the team lock

\* The file tools use a machine as sandbox_snapshot does, and are not abandoned
\* when the server stops; sandbox_list and team_ps only read.
Tools == {"run", "restore", "fork", "exec", "snapshot", "stop", "team_up", "team_down"}

\* Those that ask for room, start machines, and close what they cannot keep.
Boots == {"run", "restore", "fork"}

ASSUME HostAssumption ==
    /\ MaxBoxes \in Nat \ {0} /\ MaxCalls \in Nat \ {0} /\ Forks \in Nat \ {0}
    /\ Server \notin Callers /\ Nobody \notin Callers \cup {Server}
    /\ Mixes \subseteq SUBSET Tools
    /\ Boxes \cap (Callers \cup {Server, Nobody}) = {} /\ IsFiniteSet(Boxes)

\* Answered when the server's own recorder has failed.
unrecordedButAllowed == {"stop", "team_down"}

VARIABLES
    serve,     \* where serve, and then closeAll, has got to
    client,    \* the tools this client uses
    stopping,  \* the channel every exec listens to is closed
    pc,        \* where each call has got to
    tool,      \* the tool each call names
    arg,       \* the machine it names, when it names one
    mine,      \* the machines a call has started and not yet handed on
    boxes,     \* the server's map
    box,       \* each machine
    rec,       \* each machine's recorder, as b.rec holds it
    ends,      \* how many session.end events each machine's chain got
    closers,   \* who is inside close for each machine
    watch,     \* the goroutine that watches each machine's recorder
    audit,     \* the server's own chain
    logged,    \* what of each call that chain holds
    tmu        \* who holds the team lock

hostVars == <<serve, client, stopping, pc, tool, arg, mine, boxes, box, rec, ends, closers,
              watch, audit, logged, tmu>>
vars == <<rigVars, hostVars>>

Init ==
    /\ RigInit
    /\ serve = "serving"
    /\ client \in Mixes
    /\ stopping = FALSE
    /\ pc = [c \in Callers |-> "unsent"]
    /\ tool = [c \in Callers |-> "none"]
    /\ arg = [c \in Callers |-> Nobody]
    /\ mine = [c \in Callers |-> {}]
    /\ boxes = {}
    /\ box = [b \in Boxes |-> "none"]
    /\ rec = [b \in Boxes |-> "nil"]
    /\ ends = [b \in Boxes |-> 0]
    /\ closers = [b \in Boxes |-> {}]
    /\ watch = [b \in Boxes |-> "none"]
    /\ audit = "open"
    /\ logged = [c \in Callers |-> {}]
    /\ tmu = Nobody

--------------------------------------------------------------------------------
(* Calls                                                                        *)

InFlight == {c \in Callers : pc[c] \notin {"unsent", "answered"}}

\* The chain takes an event only while it is open; Append's error is dropped.
Logs(c, ev) == logged' = [logged EXCEPT ![c] = IF audit = "open" THEN @ \cup {ev} ELSE @]

\* The reading loop takes a slot of toolSem and starts the call's goroutine, and
\* starts nothing once stopping is closed.  The goroutine refuses the call when
\* the server's record has failed (refuseIfUnrecorded), and else records it.
Admit(c, t, b) ==
    /\ serve = "serving" /\ ~stopping
    /\ pc[c] = "unsent"
    /\ Cardinality(InFlight) < MaxCalls
    /\ IF audit = "broken" /\ t \notin unrecordedButAllowed
       THEN /\ pc' = [pc EXCEPT ![c] = "answered"]
            /\ UNCHANGED <<tool, arg, logged>>
       ELSE /\ pc' = [pc EXCEPT ![c] = "running"]
            /\ tool' = [tool EXCEPT ![c] = t]
            /\ arg' = [arg EXCEPT ![c] = b]
            /\ Logs(c, "call")
    /\ UNCHANGED <<rigVars, serve, client, stopping, mine, boxes, box, rec, ends,
                   closers, watch, audit, tmu>>

\* The deferred part of runCall, whether the tool returned, failed or panicked,
\* and the answer.
Answer(c) ==
    /\ pc[c] = "finished"
    /\ pc' = [pc EXCEPT ![c] = "answered"]
    /\ tool' = [tool EXCEPT ![c] = "none"]
    /\ arg' = [arg EXCEPT ![c] = Nobody]
    /\ Logs(c, "result")
    /\ UNCHANGED <<rigVars, serve, client, stopping, mine, boxes,
                   box, rec, ends, closers, watch, audit, tmu>>

\* A tool refuses its arguments, or panics before it has started anything.
Refuse(c) ==
    /\ pc[c] = "running" /\ tool[c] \in Boots
    /\ pc' = [pc EXCEPT ![c] = "finished"]
    /\ UNCHANGED <<rigVars, serve, client, stopping, tool, arg, mine, boxes,
                   box, rec, ends, closers, watch, audit, logged, tmu>>

--------------------------------------------------------------------------------
(* sandbox_run, sandbox_restore and sandbox_fork                                *)

Asked(c) == IF tool[c] = "fork" THEN Forks ELSE 1
Unused == {b \in Boxes : box[b] = "none"}

\* room reads the map under the lock; what it answered is stale from here on.  The
\* identifiers are new ones, whichever they are (NewID).
Fresh(n) == CHOOSE bs \in SUBSET Unused : Cardinality(bs) = n

Room(c) ==
    /\ pc[c] = "running" /\ tool[c] \in Boots
    /\ Asked(c) + Cardinality(boxes) <= MaxBoxes
    /\ Asked(c) <= Cardinality(Unused)
    /\ pc' = [pc EXCEPT ![c] = "booting"]
    /\ mine' = [mine EXCEPT ![c] = Fresh(Asked(c))]
    /\ box' = [b \in Boxes |-> IF b \in Fresh(Asked(c)) THEN "booting" ELSE box[b]]
    /\ UNCHANGED <<rigVars, serve, client, stopping, tool, arg, boxes, rec,
                   ends, closers, watch, audit, logged, tmu>>

\* boot, Restore: the machine answered and its chain is open.
BoxBoots(b) ==
    /\ box[b] = "booting"
    /\ box' = [box EXCEPT ![b] = "up"]
    /\ rec' = [rec EXCEPT ![b] = "open"]
    /\ UNCHANGED <<rigVars, serve, client, stopping, pc, tool, arg, mine,
                   boxes, ends, closers, watch, audit, logged, tmu>>

\* What was started is closed and the chain, if it was opened, is ended.
BoxFails(b) ==
    /\ box[b] = "booting"
    /\ box' = [box EXCEPT ![b] = "closed"]
    /\ mine' = [c \in Callers |-> mine[c] \ {b}]
    /\ UNCHANGED <<rigVars, serve, client, stopping, pc, tool, arg, boxes,
                   rec, ends, closers, watch, audit, logged, tmu>>

\* Every boot of a fork is awaited before the first is adopted.
Booted(c) == \A b \in mine[c] : box[b] # "booting"

\* adopt tests the bound again and starts the watcher with the lock held.
Adopt(c, b) ==
    /\ pc[c] = "booting" /\ Booted(c) /\ b \in mine[c] /\ c \notin closers[b]
    /\ Cardinality(boxes) < MaxBoxes
    /\ boxes' = boxes \cup {b}
    /\ watch' = [watch EXCEPT ![b] = "watching"]
    /\ mine' = [mine EXCEPT ![c] = @ \ {b}]
    /\ UNCHANGED <<rigVars, serve, client, stopping, pc, tool, arg, box, rec,
                   ends, closers, audit, logged, tmu>>

\* The map filled up meanwhile: the machine that just booted is closed.
AdoptRefused(c, b) ==
    /\ pc[c] = "booting" /\ Booted(c) /\ b \in mine[c] /\ c \notin closers[b]
    /\ Cardinality(boxes) >= MaxBoxes
    /\ closers' = [closers EXCEPT ![b] = @ \cup {c}]
    /\ UNCHANGED <<rigVars, serve, client, stopping, pc, tool, arg, mine,
                   boxes, box, rec, ends, watch, audit, logged, tmu>>

AdoptsDone(c) ==
    /\ pc[c] = "booting" /\ mine[c] = {}
    /\ pc' = [pc EXCEPT ![c] = "finished"]
    /\ UNCHANGED <<rigVars, serve, client, stopping, tool, arg, mine, boxes,
                   box, rec, ends, closers, watch, audit, logged, tmu>>

--------------------------------------------------------------------------------
(* Tools that use a machine                                                     *)

\* s.box finds it under the lock, or the tool fails.
Find(c) ==
    /\ pc[c] = "running" /\ tool[c] \in {"exec", "snapshot"}
    /\ pc' = [pc EXCEPT ![c] = IF arg[c] \in boxes THEN "using" ELSE "finished"]
    /\ UNCHANGED <<rigVars, serve, client, stopping, tool, arg, mine, boxes,
                   box, rec, ends, closers, watch, audit, logged, tmu>>

\* The guest answered, or the machine is gone and the exchange failed.
UseReturns(c) ==
    /\ pc[c] = "using"
    /\ pc' = [pc EXCEPT ![c] = "finished"]
    /\ UNCHANGED <<rigVars, serve, client, stopping, tool, arg, mine, boxes,
                   box, rec, ends, closers, watch, audit, logged, tmu>>

\* execUnlessStopping: a command may take a day, and the server does not wait.
Abandon(c) ==
    /\ pc[c] = "using" /\ tool[c] = "exec" /\ stopping
    /\ pc' = [pc EXCEPT ![c] = "finished"]
    /\ UNCHANGED <<rigVars, serve, client, stopping, tool, arg, mine, boxes,
                   box, rec, ends, closers, watch, audit, logged, tmu>>

\* sandbox_stop takes the machine off the map under the lock and closes it after.
StopTool(c) ==
    /\ pc[c] = "running" /\ tool[c] = "stop"
    /\ boxes' = boxes \ {arg[c]}
    /\ IF arg[c] \in boxes
       THEN /\ pc' = [pc EXCEPT ![c] = "closing"]
            /\ closers' = [closers EXCEPT ![arg[c]] = @ \cup {c}]
       ELSE /\ pc' = [pc EXCEPT ![c] = "finished"]
            /\ UNCHANGED closers
    /\ UNCHANGED <<rigVars, serve, client, stopping, tool, arg, mine, box,
                   rec, ends, watch, audit, logged, tmu>>

--------------------------------------------------------------------------------
(* servedBox.close, by whoever calls it                                         *)

\* stopWatching and the machine's shutdown; a second closer finds it down.
Shut(b) ==
    /\ closers[b] # {} /\ box[b] = "up"
    /\ box' = [box EXCEPT ![b] = "closed"]
    /\ UNCHANGED <<rigVars, serve, client, stopping, pc, tool, arg, mine,
                   boxes, rec, ends, closers, watch, audit, logged, tmu>>

\* Mutant: b.rec is left set for the next closer.
TakesRecKeeps(b) == UNCHANGED rec

\* b.rec is read and cleared in one critical section.
TakesRec(b) == rec' = [rec EXCEPT ![b] = "nil"]

\* The chain is ended by the closer that found b.rec set, and the closer goes on.
CloseEnds(b, x) ==
    /\ x \in closers[b] /\ box[b] = "closed"
    /\ ends' = [ends EXCEPT ![b] = IF rec[b] # "nil" THEN @ + 1 ELSE @]
    /\ TakesRec(b)
    /\ closers' = [closers EXCEPT ![b] = @ \ {x}]
    /\ pc' = [c \in Callers |-> IF c = x /\ pc[c] = "closing" THEN "finished" ELSE pc[c]]
    /\ mine' = [c \in Callers |-> IF c = x THEN mine[c] \ {b} ELSE mine[c]]
    /\ watch' = [watch EXCEPT ![b] = IF x = b THEN "done" ELSE @]
    /\ UNCHANGED <<rigVars, serve, client, stopping, tool, arg, boxes, box,
                   audit, logged, tmu>>

--------------------------------------------------------------------------------
(* Recorders that fail                                                          *)

\* The disk is full: the chain of a machine, or the server's own, fails for good.
RecBreaks(b) ==
    /\ rec[b] = "open" /\ box[b] = "up"
    /\ rec' = [rec EXCEPT ![b] = "broken"]
    /\ UNCHANGED <<rigVars, serve, client, stopping, pc, tool, arg, mine,
                   boxes, box, ends, closers, watch, audit, logged, tmu>>

AuditBreaks ==
    /\ audit = "open" /\ serve # "returned"
    /\ audit' = "broken"
    /\ UNCHANGED <<rigVars, serve, client, stopping, pc, tool, arg, mine,
                   boxes, box, rec, ends, closers, watch, logged, tmu>>

\* watchRecorder: the select sees the failure, or the channel close closed.
WatchFires(b) ==
    /\ watch[b] = "watching"
    /\ rec[b] = "broken"
    /\ watch' = [watch EXCEPT ![b] = "fired"]
    /\ UNCHANGED <<rigVars, serve, client, stopping, pc, tool, arg, mine,
                   boxes, box, rec, ends, closers, audit, logged, tmu>>

WatchEnds(b) ==
    /\ watch[b] = "watching"
    /\ closers[b] # {} \/ rec[b] = "nil"
    /\ watch' = [watch EXCEPT ![b] = "done"]
    /\ UNCHANGED <<rigVars, serve, client, stopping, pc, tool, arg, mine,
                   boxes, box, rec, ends, closers, audit, logged, tmu>>

\* Off the map if it is still there, then close, whoever else is closing it.
WatchRemoves(b) ==
    /\ watch[b] = "fired"
    /\ watch' = [watch EXCEPT ![b] = "closing"]
    /\ boxes' = boxes \ {b}
    /\ closers' = [closers EXCEPT ![b] = @ \cup {b}]
    /\ UNCHANGED <<rigVars, serve, client, stopping, pc, tool, arg, mine,
                   box, rec, ends, audit, logged, tmu>>

--------------------------------------------------------------------------------
(* The team tools, under the team lock                                          *)

TakeTeam(c) ==
    /\ pc[c] = "running" /\ tool[c] \in {"team_up", "team_down"}
    /\ tmu = Nobody
    /\ tmu' = c
    /\ pc' = [pc EXCEPT ![c] = "team"]
    /\ UNCHANGED <<rigVars, serve, client, stopping, tool, arg, mine, boxes,
                   box, rec, ends, closers, watch, audit, logged>>

\* Does the holder of the lock start something, or is there nothing to do?
TeamUp(c)   == /\ tmu = c /\ c \in Callers /\ tool[c] = "team_up" /\ rig = "none"
               /\ Raise \/ RaiseRefused
               /\ UNCHANGED hostVars
TeamDown(c) == /\ tmu = c
               /\ c = Server \/ (c \in Callers /\ tool[c] = "team_down")
               /\ Down
               /\ UNCHANGED hostVars

\* Where the lock's holder is done: the team is up, or down, or was never there.
TeamSettled(t) ==
    IF t = "team_up" THEN rig \in {"raised", "down"} ELSE rig \in {"none", "down"}

\* Mutant: an early return keeps the team lock.
TeamReturnsHolding(c) ==
    /\ pc[c] = "team" /\ tmu = c
    /\ TeamSettled(tool[c])
    /\ pc' = [pc EXCEPT ![c] = "finished"]
    /\ UNCHANGED <<rigVars, serve, client, stopping, tool, arg, mine, boxes, box, rec,
                   ends, closers, watch, audit, logged, tmu>>

TeamReturns(c) ==
    /\ pc[c] = "team" /\ tmu = c
    /\ TeamSettled(tool[c])
    /\ tmu' = Nobody
    /\ pc' = [pc EXCEPT ![c] = "finished"]
    /\ UNCHANGED <<rigVars, serve, client, stopping, tool, arg, mine, boxes,
                   box, rec, ends, closers, watch, audit, logged>>

--------------------------------------------------------------------------------
(* The end of the server                                                        *)

\* SIGTERM: stopping is closed before the input is.
Signal ==
    /\ serve = "serving" /\ ~stopping
    /\ stopping' = TRUE
    /\ UNCHANGED <<rigVars, serve, client, pc, tool, arg, mine, boxes, box,
                   rec, ends, closers, watch, audit, logged, tmu>>

\* The input ends, a line does not parse, or the loop sees stopping: serve's
\* deferred calls close stopping and wait for the calls.
StopReading ==
    /\ serve = "serving"
    /\ serve' = "draining"
    /\ stopping' = TRUE
    /\ UNCHANGED <<rigVars, client, pc, tool, arg, mine, boxes, box, rec,
                   ends, closers, watch, audit, logged, tmu>>

\* Mutant: closeAll starts while calls are running.
DrainedAtOnce ==
    /\ serve = "draining" /\ tmu = Nobody
    /\ serve' = "team"
    /\ tmu' = Server
    /\ UNCHANGED <<rigVars, client, stopping, pc, tool, arg, mine, boxes, box, rec, ends,
                   closers, watch, audit, logged>>

\* wg.Wait returned; closeAll takes the team lock.
Drained ==
    /\ serve = "draining" /\ InFlight = {}
    /\ tmu = Nobody
    /\ serve' = "team"
    /\ tmu' = Server
    /\ UNCHANGED <<rigVars, client, stopping, pc, tool, arg, mine, boxes,
                   box, rec, ends, closers, watch, audit, logged>>

\* The team is down: the map is emptied under the lock, its machines are closed.
CloseBoxes ==
    /\ serve = "team"
    /\ TeamSettled("team_down")
    /\ serve' = "boxes"
    /\ tmu' = Nobody
    /\ boxes' = {}
    /\ closers' = [b \in Boxes |-> closers[b] \cup (IF b \in boxes THEN {Server} ELSE {})]
    /\ UNCHANGED <<rigVars, client, stopping, pc, tool, arg, mine, box, rec,
                   ends, watch, audit, logged>>

\* The last machine of the map is closed; closeAudit ends the record.
CloseAudit ==
    /\ serve = "boxes"
    /\ \A b \in Boxes : Server \notin closers[b]
    /\ serve' = "returned"
    /\ audit' = "ended"
    /\ UNCHANGED <<rigVars, client, stopping, pc, tool, arg, mine, boxes,
                   box, rec, ends, closers, watch, logged, tmu>>

--------------------------------------------------------------------------------
BootStep(b)  == BoxBoots(b) \/ BoxFails(b)
AdoptStep(c) == \/ \E b \in Boxes : Adopt(c, b) \/ AdoptRefused(c, b)
                \/ AdoptsDone(c)
CallStep(c) ==
    \/ Answer(c) \/ Refuse(c) \/ AdoptStep(c) \/ Find(c) \/ UseReturns(c)
    \/ Abandon(c) \/ StopTool(c) \/ TakeTeam(c) \/ TeamReturns(c)
    \/ Room(c)
CloseStep(b) == Shut(b) \/ \E x \in Callers \cup Boxes \cup {Server} : CloseEnds(b, x)
WatchStep(b) == WatchFires(b) \/ WatchEnds(b) \/ WatchRemoves(b)
TeamStep(c)  == TeamUp(c) \/ TeamDown(c)
ServerStep   == Drained \/ CloseBoxes \/ CloseAudit

Needs(t) == IF t \in {"exec", "snapshot", "stop"} THEN Boxes ELSE {Nobody}

Next ==
    \/ RigStep /\ UNCHANGED hostVars
    \/ \E c \in Callers : \E t \in client : \E b \in Needs(t) : Admit(c, t, b)
    \/ \E c \in Callers : CallStep(c)
    \/ \E c \in Callers \cup {Server} : TeamStep(c)
    \/ \E b \in Boxes : BootStep(b) \/ CloseStep(b) \/ WatchStep(b) \/ RecBreaks(b)
    \/ AuditBreaks \/ Signal \/ StopReading \/ ServerStep

\* Goroutines run; boots, shutdowns and the guest's answers end (module Machine);
\* a command's own end is not assumed, only that a stopping server abandons it.
Progress ==
    \/ RigProgress /\ UNCHANGED hostVars
    \/ \E c \in Callers :
         \/ Answer(c) \/ Refuse(c) \/ AdoptStep(c) \/ Find(c) \/ Abandon(c)
         \/ StopTool(c) \/ TakeTeam(c) \/ TeamReturns(c)
         \/ UseReturns(c) /\ tool[c] = "snapshot"
    \/ \E c \in Callers \cup {Server} : TeamStep(c)
    \/ \E b \in Boxes : BootStep(b) \/ CloseStep(b) \/ WatchStep(b)
    \/ StopReading /\ stopping
    \/ ServerStep

\* Within the bounds every step happens finitely often, so that fairness to their
\* disjunction is fairness to each.
Fairness == WF_vars(Progress)

Spec == Init /\ [][Next]_vars /\ Fairness

--------------------------------------------------------------------------------
HostTypeOK ==
    /\ serve \in {"serving", "draining", "team", "boxes", "returned"}
    /\ client \in Mixes /\ stopping \in BOOLEAN
    /\ pc \in [Callers -> {"unsent", "running", "booting", "using", "closing",
                           "team", "finished", "answered"}]
    /\ tool \in [Callers -> Tools \cup {"none"}]
    /\ arg \in [Callers -> Boxes \cup {Nobody}]
    /\ mine \in [Callers -> SUBSET Boxes]
    /\ boxes \subseteq Boxes
    /\ box \in [Boxes -> {"none", "booting", "up", "closed"}]
    /\ rec \in [Boxes -> {"nil", "open", "broken"}]
    /\ ends \in [Boxes -> Nat]
    /\ closers \in [Boxes -> SUBSET (Callers \cup Boxes \cup {Server})]
    /\ watch \in [Boxes -> {"none", "watching", "fired", "closing", "done"}]
    /\ audit \in {"open", "broken", "ended"}
    /\ logged \in [Callers -> SUBSET {"call", "result"}]
    /\ tmu \in Callers \cup {Server, Nobody}

\* The map never holds more machines than the policy allows, however many calls
\* read room before any of them adopted (servemcpstate.go:580-606).
WithinMax == Cardinality(boxes) <= MaxBoxes

\* A machine that runs is always somebody's: in the map, in the hands of the call
\* that started it, or in the hands of whoever took it off the map.
NoOrphan ==
    \A b \in Boxes : box[b] \in {"booting", "up"} =>
        \/ b \in boxes
        \/ closers[b] # {}
        \/ \E c \in Callers : b \in mine[c] /\ pc[c] = "booting"

\* Whichever of sandbox_stop, the watcher and the end of the server meet on one
\* machine, its chain gets one session.end, and gets it before the last of them
\* leaves close (servemcp.go:395-401).
EndedOnce ==
    \A b \in Boxes :
        /\ ends[b] <= 1
        /\ (box[b] = "closed" /\ closers[b] = {} /\ watch[b] # "none") => ends[b] = 1

\* No call runs a tool unrecorded unless the record had already failed: one that
\* was answered has both its events or the chain broke (servemcp.go:704-728).
CallsRecorded ==
    \A c \in Callers :
        /\ "result" \in logged[c] => "call" \in logged[c]
        /\ (pc[c] = "answered" /\ audit = "open") => logged[c] = {"call", "result"}

\* When serve-mcp returns, every call it admitted has been answered, its own record
\* is ended, its team is down, and no machine runs except one whose recorder failed
\* and whose watcher is still closing it (closeAll, servemcp.go:506-527).
ReturnedClean ==
    serve = "returned" =>
        /\ InFlight = {} /\ boxes = {}
        /\ audit = "ended" /\ tmu = Nobody
        /\ rig \in {"none", "down"}
        /\ \A b \in Boxes : box[b] \in {"booting", "up"} => b \in closers[b]

\* Never more machines than the limit, none without an owner, one end to a record, and
\* nothing behind when the server is done (servemcp.go, servemcpstate.go).
HostSafe == HostTypeOK /\ WithinMax /\ NoOrphan /\ EndedOnce /\ CallsRecorded /\ ReturnedClean

\* A server told to stop returns, whatever the guests, the recorders and the team
\* are doing; commands still running do not keep it (servemcp.go:716).
Drains == stopping ~> serve = "returned"

\* What the comment on serve promises (servemcp.go:593) and does not hold: that
\* nothing it owns is left running.  The watcher is not waited for.
NothingLeftRunning ==
    serve = "returned" => \A b \in Boxes : box[b] \notin {"booting", "up"}

--------------------------------------------------------------------------------
(* Inductive strengthenings, for HostServerProofs.                              *)

\* The machines of the map run and nobody closes them yet; those in a call's hands are
\* its own, and a machine the map had full is in its closing hands.
Held(b) ==
    /\ b \in boxes => box[b] = "up" /\ closers[b] = {} /\ watch[b] # "none"
    /\ \A c \in Callers : b \in mine[c] =>
         /\ pc[c] = "booting" /\ b \notin boxes /\ watch[b] = "none"
         /\ box[b] # "none" /\ closers[b] \subseteq {c}
         /\ box[b] = "closed" => c \in closers[b]
    /\ \A c, d \in Callers : b \in mine[c] /\ b \in mine[d] => c = d

\* Who closes a machine: the call that could not keep it, the one that stops it, its
\* own watcher, or the server.
Closing(b) ==
    /\ closers[b] \cap Boxes \subseteq {b}
    /\ \A c \in Callers : c \in closers[b] =>
         \/ pc[c] = "booting" /\ b \in mine[c]
         \/ pc[c] = "closing" /\ arg[c] = b

\* A machine's chain is open from its boot to its first closer.
Chained(b) ==
    /\ box[b] \in {"none", "booting"} =>
         rec[b] = "nil" /\ ends[b] = 0 /\ watch[b] = "none" /\ closers[b] = {}
    /\ box[b] = "up" => rec[b] # "nil" /\ ends[b] = 0
    /\ box[b] = "closed" =>
         \/ rec[b] # "nil" /\ ends[b] = 0 /\ closers[b] # {}
         \/ rec[b] = "nil" /\ ends[b] = 1
         \/ rec[b] = "nil" /\ ends[b] = 0 /\ watch[b] = "none" /\ closers[b] = {}

Owned == \A b \in Boxes : Held(b) /\ Closing(b) /\ Chained(b)

\* A call in flight is in the chain if the chain still holds.
InChain ==
    \A c \in Callers :
        audit = "open" /\ pc[c] \notin {"unsent", "answered"} => "call" \in logged[c]

\* What each stage of the end of the server has seen to.
Stages ==
    /\ \A c \in Callers : pc[c] = "team" <=> tmu = c
    /\ tmu = Server <=> serve = "team"
    /\ serve \in {"team", "boxes", "returned"} => InFlight = {}
    /\ serve \in {"boxes", "returned"} => boxes = {} /\ rig \in {"none", "down"}
    /\ serve = "returned" => /\ audit = "ended"
                             /\ \A b \in Boxes : Server \notin closers[b]
================================================================================
