---------------------------------- MODULE Guest ----------------------------------
(***************************************************************************)
(* Inside the guest: the host of one plugin (supervisor/pluginhost.go) and *)
(* the pump that carries guest events to the host (supervisor/main.go),    *)
(* with the host's end of the events channel (internal/sandbox).           *)
(*                                                                         *)
(* A tool call locks the plugin, writes its request, and waits for its     *)
(* answer or the timeout; the goroutine that scans the plugin's output for *)
(* it is left behind by a timeout.  Two of them scan one bufio.Scanner,    *)
(* which is a data race: a line then goes to either, or comes out torn.    *)
(*                                                                         *)
(* A restored snapshot severs the connection and gives the host a new      *)
(* credential, which the guest learns of later.                            *)
(*                                                                         *)
(* Bounds: each call is made once; a member of Mixes bounds the lines      *)
(* nobody asked for that the plugin writes and the snapshots restored.     *)
(***************************************************************************)
EXTENDS Integers, Sequences, FiniteSets, Functions, SequencesExt, Lists

CONSTANTS
    Calls,     \* tools/call requests, each from a session of its own
    Cap,       \* the length of the event queue
    Pipe,      \* requests the plugin's standard input holds
    Mixes,     \* what is explored together: lines the plugin writes that answer
               \* nothing, snapshots restored, whether the machine is just up
    None

\* Who may hold the plugin's lock besides a call, the event it reports, and the two
\* kinds of line that answer nothing.
Watcher == "watcher"
Crash == "crash"
Progress == "progress"
Garbage == "garbage"

ASSUME GuestAssumption ==
    /\ Cap \in Nat \ {0} /\ Pipe \in Nat \ {0} /\ Mixes \subseteq Nat \X Nat \X BOOLEAN
    /\ Calls \cap {Watcher, Crash, Progress, Garbage, None} = {}
    /\ None \notin {Watcher, Crash, Progress, Garbage}

VARIABLES
    proc,      \* the plugin's process
    stdin,     \* requests written and not read by the plugin
    asked,     \* requests the plugin has read and not answered
    stdout,    \* lines the plugin wrote
    noise,     \* how many lines it may still write of its own accord
    mu,        \* who holds the plugin's lock
    dead,      \* p.dead is set
    watch,     \* where the goroutine that waits for the process has got to
    halting,   \* the machine is shutting down
    call,      \* where each call has got to
    readers,   \* the calls whose goroutine still scans the output
    done,      \* what that goroutine found
    answer,    \* what each call answered its session
    raced,     \* two goroutines have scanned at once
    queue,     \* events waiting
    pump,      \* where pumpEvents has got to
    held,      \* the event it has taken and not delivered
    hello,     \* the credential it presented on its connection
    peer,      \* the host's end of that connection
    wire,      \* events written to it and not read by the host
    mine,      \* the guest's credential
    theirs,    \* the host's credential
    restores,  \* how many restores are still to come
    reported,  \* every event the queue took, in order
    recorded,  \* every event the host got, in order
    burned     \* events lost with a connection

pluginVars == <<proc, stdin, asked, stdout, noise, mu, dead, watch, halting, call,
                readers, done, answer, raced>>
pumpVars == <<queue, pump, held, hello, peer, wire, mine, theirs, restores, reported,
              recorded, burned>>
vars == <<pluginVars, pumpVars>>

\* The plugin is up; the pump is about to start, or has been connected for long.
Init ==
    /\ proc = "up" /\ stdin = <<>> /\ asked = {} /\ stdout = <<>>
    /\ \E mix \in Mixes :
           /\ noise = mix[1] /\ restores = mix[2]
           /\ IF mix[3] THEN pump = "waiting" /\ peer = "none" /\ mine = 0
                        ELSE pump = "connected" /\ peer = "accepted" /\ mine = 1
    /\ mu = None /\ dead = FALSE /\ watch = "waiting" /\ halting = FALSE
    /\ call = [c \in Calls |-> "locking"]
    /\ readers = {}
    /\ done = [c \in Calls |-> None]
    /\ answer = [c \in Calls |-> None]
    /\ raced = FALSE
    /\ queue = <<>> /\ held = None /\ wire = <<>> /\ hello = 0 /\ theirs = 1
    /\ reported = <<>> /\ recorded = <<>> /\ burned = {}

\* reportGuestEvent: an event that finds the queue full is dropped.
Report(ev) ==
    /\ IF Len(queue) < Cap
       THEN queue' = Append(queue, ev) /\ reported' = Append(reported, ev)
       ELSE UNCHANGED <<queue, reported>>
    /\ UNCHANGED <<restores, pump, held, hello, peer, wire, mine, theirs,
                   recorded, burned>>

--------------------------------------------------------------------------------
(* The plugin's process, which does as it likes                                 *)

PluginReads ==
    /\ proc = "up" /\ stdin # <<>>
    /\ asked' = asked \cup {Head(stdin)} /\ stdin' = Tail(stdin)
    /\ UNCHANGED <<proc, stdout, noise, mu, dead, watch, halting, call,
                   readers, done, answer, raced, pumpVars>>

PluginAnswers(c) ==
    /\ proc = "up" /\ c \in asked
    /\ stdout' = Append(stdout, c) /\ asked' = asked \ {c}
    /\ UNCHANGED <<proc, stdin, noise, mu, dead, watch, halting, call,
                   readers, done, answer, raced, pumpVars>>

PluginSays(line) ==
    /\ proc = "up" /\ noise > 0
    /\ stdout' = Append(stdout, line) /\ noise' = noise - 1
    /\ UNCHANGED <<proc, stdin, asked, mu, dead, watch, halting, call,
                   readers, done, answer, raced, pumpVars>>

\* The plugin ends, and with it its ends of the pipes: nothing it started holds them.
PluginExits ==
    /\ proc = "up"
    /\ proc' = "gone" /\ stdin' = <<>> /\ asked' = {}
    /\ UNCHANGED <<stdout, noise, mu, dead, watch, halting, call, readers,
                   done, answer, raced, pumpVars>>

--------------------------------------------------------------------------------
(* callPluginTool and call                                                      *)

LockPlugin(c) ==
    /\ call[c] = "locking" /\ mu = None
    /\ IF dead
       THEN /\ answer' = [answer EXCEPT ![c] = "dead"]
            /\ call' = [call EXCEPT ![c] = "done"]
            /\ UNCHANGED mu
       ELSE /\ call' = [call EXCEPT ![c] = "writing"]
            /\ mu' = c
            /\ UNCHANGED answer
    /\ UNCHANGED <<proc, stdin, asked, stdout, noise, dead, watch, halting,
                   readers, done, raced, pumpVars>>

\* The request is written; while the pipe is full the write waits, under no timer.
WriteRequest(c) ==
    /\ call[c] = "writing" /\ proc = "up" /\ Len(stdin) < Pipe
    /\ stdin' = Append(stdin, c)
    /\ call' = [call EXCEPT ![c] = "waiting"]
    /\ readers' = readers \cup {c}
    /\ raced' = (raced \/ readers # {})
    /\ UNCHANGED <<proc, asked, stdout, noise, mu, dead, watch, halting,
                   done, answer, pumpVars>>

WriteFails(c) ==
    /\ call[c] = "writing" /\ proc = "gone"
    /\ call' = [call EXCEPT ![c] = "reporting"]
    /\ answer' = [answer EXCEPT ![c] = "error"]
    /\ UNCHANGED <<proc, stdin, asked, stdout, noise, mu, dead, watch,
                   halting, readers, done, raced, pumpVars>>

\* Mutant: the first line that parses is the answer.
FoundAny(c, line) == CASE line = Garbage -> [stops |-> TRUE, with |-> "error"]
                       [] OTHER -> [stops |-> TRUE, with |-> line]

\* What scanning one line does for the goroutine of call c: skip what is not its
\* answer, stop at what it cannot parse.
Found(c, line) == CASE line = c -> [stops |-> TRUE, with |-> c]
                    [] line = Garbage -> [stops |-> TRUE, with |-> "error"]
                    [] OTHER -> [stops |-> FALSE, with |-> None]

Reads(c, found) ==
    /\ stdout' = Tail(stdout)
    /\ readers' = IF found.stops THEN readers \ {c} ELSE readers
    /\ done' = [done EXCEPT ![c] = found.with]
    /\ UNCHANGED <<proc, stdin, asked, noise, mu, dead, watch, halting, call,
                   answer, raced, pumpVars>>

ScanLine(c) == c \in readers /\ stdout # <<>> /\ Reads(c, Found(c, Head(stdout)))

\* The shared scanner's buffer is overwritten while a line in it is looked at.
ScanTorn(c) ==
    /\ c \in readers /\ Cardinality(readers) > 1 /\ stdout # <<>>
    /\ \E with \in Range(stdout) \cup {"error"} : Reads(c, [stops |-> TRUE, with |-> with])

ScanEnds(c) ==
    /\ c \in readers /\ proc = "gone" /\ stdout = <<>>
    /\ readers' = readers \ {c}
    /\ done' = [done EXCEPT ![c] = "error"]
    /\ UNCHANGED <<proc, stdin, asked, stdout, noise, mu, dead, watch,
                   halting, call, answer, raced, pumpVars>>

\* The call takes what its goroutine found, or gives up on it.
TakeAnswer(c) ==
    /\ call[c] = "waiting" /\ done[c] # None
    /\ answer' = [answer EXCEPT ![c] = done[c]]
    /\ call' = [call EXCEPT ![c] = "reporting"]
    /\ UNCHANGED <<proc, stdin, asked, stdout, noise, mu, dead, watch,
                   halting, readers, done, raced, pumpVars>>

CallTimesOut(c) ==
    /\ call[c] = "waiting"
    /\ answer' = [answer EXCEPT ![c] = "error"]
    /\ call' = [call EXCEPT ![c] = "reporting"]
    /\ UNCHANGED <<proc, stdin, asked, stdout, noise, mu, dead, watch,
                   halting, readers, done, raced, pumpVars>>

\* Mutant: only a call that was answered gives the lock back.
FinishKeepsLock(c) ==
    /\ call[c] = "reporting"
    /\ Report(c)
    /\ call' = [call EXCEPT ![c] = "done"]
    /\ mu' = IF answer[c] = "error" THEN mu ELSE None
    /\ UNCHANGED <<proc, stdin, asked, stdout, noise, dead, watch, halting,
                   readers, done, answer, raced>>

\* The event is queued before the lock is given back.
FinishCall(c) ==
    /\ call[c] = "reporting"
    /\ Report(c)
    /\ call' = [call EXCEPT ![c] = "done"]
    /\ mu' = None
    /\ UNCHANGED <<proc, stdin, asked, stdout, noise, dead, watch, halting,
                   readers, done, answer, raced>>

--------------------------------------------------------------------------------
(* watch, and the end of the machine                                            *)

WatchLocks ==
    /\ watch = "waiting" /\ proc = "gone" /\ mu = None
    /\ watch' = "closed" /\ dead' = TRUE
    /\ stdout' = <<>>
    /\ UNCHANGED <<proc, stdin, asked, noise, mu, halting, call, readers,
                   done, answer, raced, pumpVars>>

WatchReports ==
    /\ watch = "closed"
    /\ watch' = "reported"
    /\ IF halting THEN UNCHANGED pumpVars ELSE Report(Crash)
    /\ UNCHANGED <<proc, stdin, asked, stdout, noise, mu, dead, halting,
                   call, readers, done, answer, raced>>

\* halt: stopping is set before anything is killed; only watch looks at it.
Halt ==
    /\ ~halting /\ watch # "reported"
    /\ halting' = TRUE
    /\ UNCHANGED <<proc, stdin, asked, stdout, noise, mu, dead, watch, call,
                   readers, done, answer, raced, pumpVars>>

--------------------------------------------------------------------------------
(* pumpEvents, and the events channel                                           *)

\* The host's credential arrives on the control channel, at boot and after a restore.
CredentialArrives ==
    /\ mine # theirs
    /\ mine' = theirs
    /\ UNCHANGED <<pluginVars, restores, queue, pump, held, hello, peer,
                   wire, theirs, reported, recorded, burned>>

\* The first dial waits for the credential, but not for ever.
PumpStarts ==
    /\ pump = "waiting"
    /\ pump' = "dialing"
    /\ UNCHANGED <<pluginVars, restores, queue, held, hello, peer, wire,
                   mine, theirs, reported, recorded, burned>>

\* The connection is made and the credential written; nothing is read back.
Dial ==
    /\ pump = "dialing"
    /\ pump' = "connected"
    /\ hello' = mine /\ peer' = "new" /\ wire' = <<>>
    /\ UNCHANGED <<pluginVars, restores, queue, held, mine, theirs, reported,
                   recorded, burned>>

\* authenticate: the host closes a connection that presents another credential.
Authenticate ==
    /\ peer = "new" /\ hello' = 0
    /\ IF hello = theirs
       THEN peer' = "accepted" /\ UNCHANGED <<wire, burned>>
       ELSE peer' = "closed" /\ wire' = <<>> /\ burned' = burned \cup Range(wire)
    /\ UNCHANGED <<pluginVars, restores, queue, pump, held, mine, theirs,
                   reported, recorded>>

PumpTakes ==
    /\ pump = "connected" /\ held = None /\ queue # <<>>
    /\ held' = Head(queue) /\ queue' = Tail(queue)
    /\ UNCHANGED <<pluginVars, restores, pump, hello, peer, wire, mine,
                   theirs, reported, recorded, burned>>

\* The write succeeds: also into a connection the host has closed, while the guest
\* has not heard of it yet.
PumpWrites ==
    /\ pump = "connected" /\ held # None
    /\ held' = None
    /\ IF peer = "closed"
       THEN burned' = burned \cup {held} /\ UNCHANGED wire
       ELSE wire' = Append(wire, held) /\ UNCHANGED burned
    /\ UNCHANGED <<pluginVars, restores, queue, pump, hello, peer, mine,
                   theirs, reported, recorded>>

\* Mutant: an event whose write failed is not kept.
PumpWriteDrops ==
    /\ pump = "connected" /\ held # None /\ peer = "closed"
    /\ pump' = "dialing" /\ peer' = "none" /\ held' = None
    /\ UNCHANGED <<pluginVars, restores, queue, hello, wire, mine, theirs,
                   reported, recorded, burned>>

\* The write fails, and the event is kept for the next connection.
PumpWriteFails ==
    /\ pump = "connected" /\ held # None /\ peer = "closed"
    /\ pump' = "dialing" /\ peer' = "none"
    /\ UNCHANGED <<pluginVars, restores, queue, held, hello, wire, mine,
                   theirs, reported, recorded, burned>>

HostReads ==
    /\ peer = "accepted" /\ wire # <<>>
    /\ recorded' = Append(recorded, Head(wire)) /\ wire' = Tail(wire)
    /\ UNCHANGED <<pluginVars, restores, queue, pump, held, hello, peer,
                   mine, theirs, reported, burned>>

\* The machine is restored from a snapshot: its connections are gone, and the new
\* host process has a credential of its own.
Restore ==
    /\ restores > 0 /\ restores' = restores - 1
    /\ theirs' = theirs + 1
    /\ peer' = IF peer = "none" THEN "none" ELSE "closed"
    /\ wire' = <<>> /\ burned' = burned \cup Range(wire)
    /\ UNCHANGED <<pluginVars, queue, pump, held, hello, mine, reported,
                   recorded>>

--------------------------------------------------------------------------------

CallStep(c) ==
    \/ LockPlugin(c) \/ WriteRequest(c) \/ WriteFails(c) \/ TakeAnswer(c)
    \/ CallTimesOut(c) \/ FinishCall(c)
ScanStep(c) == ScanLine(c) \/ ScanTorn(c) \/ ScanEnds(c)
PumpStep == PumpStarts \/ Dial \/ PumpTakes \/ PumpWrites \/ PumpWriteFails

Next ==
    \/ \E c \in Calls : CallStep(c) \/ ScanStep(c) \/ PluginAnswers(c)
    \/ \E line \in {Progress, Garbage} : PluginSays(line)
    \/ PluginReads \/ PluginExits \/ WatchLocks \/ WatchReports \/ Halt
    \/ PumpStep \/ CredentialArrives \/ Authenticate \/ HostReads \/ Restore

\* The guest's goroutines and the host's end of the channel run; the plugin owes
\* nobody anything.
Fairness ==
    /\ \A c \in Calls : WF_vars(CallStep(c)) /\ SF_vars(LockPlugin(c)) /\ WF_vars(ScanStep(c))
    /\ SF_vars(WatchLocks) /\ WF_vars(WatchReports)
    /\ WF_vars(PumpStep) /\ WF_vars(CredentialArrives) /\ WF_vars(Authenticate)
    /\ WF_vars(HostReads)

Spec == Init /\ [][Next]_vars /\ Fairness

--------------------------------------------------------------------------------

Events == Calls \cup {Crash}

TypeOK ==
    /\ proc \in {"up", "gone"} /\ stdin \in Seq(Calls) /\ asked \subseteq Calls
    /\ stdout \in Seq(Calls \cup {Progress, Garbage}) /\ noise \in Nat /\ restores \in Nat
    /\ mu \in Calls \cup {None} /\ {dead, halting, raced} \subseteq BOOLEAN
    /\ watch \in {"waiting", "closed", "reported"}
    /\ call \in [Calls -> {"locking", "writing", "waiting", "reporting", "done"}]
    /\ readers \subseteq Calls
    /\ done \in [Calls -> Calls \cup {Progress, Garbage, None, "error"}]
    /\ answer \in [Calls -> Calls \cup {Progress, Garbage, None, "error", "dead"}]
    /\ queue \in Seq(Events) /\ wire \in Seq(Events) /\ held \in Events \cup {None}
    /\ pump \in {"waiting", "dialing", "connected"}
    /\ peer \in {"none", "new", "accepted", "closed"}
    /\ {hello, mine, theirs} \subseteq Nat
    /\ reported \in Seq(Events) /\ recorded \in Seq(Events)

\* A session is given its own call's answer, as long as no timeout has left a reader
\* behind that scans beside another (call, pluginhost.go).
AnswerIsOwn == raced \/ \A c \in Calls : answer[c] \in {None, c, "error", "dead"}

\* One call at a time is between its lock and its answer.
OneAtATime ==
    \A c \in Calls : call[c] \in {"writing", "waiting", "reporting"} <=> mu = c

\* The host gets events in the order they were reported, each once, and every event
\* that was reported is somewhere: waiting, held, written, got, or burned with a
\* connection the host had closed (pumpEvents, serveEvents).
EventsInOrder ==
    LET where == recorded \o wire \o (IF held = None THEN <<>> ELSE <<held>>) \o queue
    IN  /\ where = Kept(reported, Events \ burned)
        /\ burned \subseteq Range(reported)

\* An answer goes to its call, and events keep their order and number, across timeouts,
\* crashes and lost connections (pluginhost.go, pumpEvents).
GuestSafe == TypeOK /\ AnswerIsOwn /\ OneAtATime /\ EventsInOrder

\* Every tool call returns, unless a call is held for ever in the write of its request
\* by a plugin that neither reads nor exits; and a plugin that exits is found out
\* (call's timeout; watch).
CallsReturn ==
    /\ \A c \in Calls :
           (<>[](call[c] # "done")) => \E k \in Calls : <>[](call[k] = "writing")
    /\ proc = "gone" ~> dead

\* What pumpEvents says: "An event taken off the queue while the connection is down is
\* held rather than dropped, so a reconnect does not cost the report that provoked it."
\* A write into a connection the host refuses succeeds, and the event is gone.
HeldNotDropped == burned = {}

\* What pluginCallTimeout says: it "bounds one forwarded call, so a plugin that stops
\* answering costs its caller a clear error rather than a session that never returns."
\* The write of the request is outside the timeout.
AlwaysReturns == \A c \in Calls : call[c] = "locking" ~> call[c] = "done"

\* What call says: it "reads its answer, skipping anything that is not it".  After a
\* timeout the goroutine left behind may take, and skip, the next call's answer.
AlwaysOwnAnswer == \A c \in Calls : answer[c] \in {None, c, "error", "dead"}

--------------------------------------------------------------------------------
(* Inductive strengthenings, for GuestProofs.                                   *)

\* Until two goroutines have scanned at once there is one of them, and it has found
\* nothing but its own call's answer.
ScansAlone ==
    \/ raced
    \/ /\ \A c, d \in readers : c = d
       /\ \A c \in Calls : done[c] \in {None, c, "error"}

\* Each event is reported once: a call's when it is done, the crash by watch.
ReportedOnce ==
    /\ IsInjective(reported)
    /\ \A ev \in Range(reported) :
          \/ ev \in Calls /\ call[ev] = "done"
          \/ ev = Crash /\ watch = "reported"

\* Nothing is on its way through a connection that is gone or was never made.
WireLive ==
    /\ peer \in {"none", "closed"} => wire = <<>>
    /\ pump # "connected" <=> peer = "none"
====
