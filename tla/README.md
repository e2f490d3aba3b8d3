# KelyfOS in TLA+

A verification development for KelyfOS: TLA+ modules that model parts of the Go
program, TLC configurations that check them on small instances, and TLAPS proofs of
what matters most for every value of the constants. Paths are relative to the
repository; line numbers are in `PROJECT.json` (`map`, `hazards`, `findings`).

## 1. The system

KelyfOS runs agents in Firecracker microVMs and keeps a tamper-evident record of what
they did. One binary on the host (`host/`) boots machines (`internal/sandbox`), serves
an MCP endpoint, raises agent teams (`internal/team`), proxies their egress
(`internal/egress`) and appends to a session's flight recorder (`internal/recorder`).
PID 1 of each guest (`supervisor/`) runs commands and plugins for the host.

| Part | State | Operations | Hard because |
|---|---|---|---|
| Flight recorder (`internal/recorder/recorder.go`, `erase.go`) | `events.jsonl`, `head.json`; per handle: `seq`, `prev`, `off`, latch | `Open`, `Append`, `EndBroken`, `Erase`, `ReadSnapshot`, `Verify`, `CheckAnchor` | several processes append to one file with only a `flock` between them; short writes, deaths between two files, rewriting in place |
| Team broker (`broker.go`, `spawn.go`, `topology.go`) | topology, mailboxes, outstanding questions, budgets | send, ask, reply, recv, spawn, despawn | one goroutine per request; several mutexes, none held across an operation; timeouts racing replies |
| Team store (`store.go`) | values, byte count, rules | get, put, remove | four limits on one running count; order of rules |
| Team rig (`host/team*.go`) | roster, machines, lifetime timers | raise, spawn, expire, tear down | boots that take seconds, teardown meanwhile |
| Guest exec and reaper (`supervisor/exec.go`, `reaper.go`, `control.go`) | waiters by process number | start, reap, forget, timeout, halt | numbers are reused, signals are merged, one `wait` for all |
| Host MCP server (`host/servemcp*.go`) | live boxes, their recorders | launch, fork, restore, stop, close | limits tested before and after a boot |
| Sandbox lifecycle (`internal/sandbox`) | run directory, credential, VMM, watchdog | boot, authenticate, pause, snapshot, stop | retries against a booting guest; owner dies |
| Session commands (`host/run.go`, `sessions.go`, ...) | session directories | run, pause, resume, prune, erase | several processes, one directory |
| Egress proxy (`internal/egress`) | slots, policy, idle budgets | accept, decide, tunnel, record | connections at their limit |
| Plugins and guest events (`supervisor/pluginhost.go`, `main.go`) | a pipe per plugin, an event queue | call, time out, crash, report | late answers, bounded queues, reconnects |

How they interact: everything a machine, a team or an MCP client does is an `Append` on
some recorder. Those handles live in different processes (`kelyfos run`, `exec`,
`shell`, `mcp`, `snapshot`, `fork`, `sessions` and the MCP server all call
`recorder.Open` on a session), which is why the recorder is modelled with several. A
guest's team requests reach `Broker.Serve`, which calls back into the rig (`OnSpawn`) to
boot a worker; the rig's lifetime timer calls back into `Despawn`. A guest's commands
reach `runCommand`, which meets the reaper through one mutex and one map.

What makes each part correct: the record is a chain that verifies, grows only at its
end, never continues after damage and never calls an honest session tampered with; a
question gets one answer and both sides agree on it; messages go only where the
topology lets them; budgets and limits hold; a command gets its own status, and every
request is answered; a machine in use is never taken away and one that ended leaves
nothing behind; a person's work is always somewhere and an edit is not overwritten
unseen; a credential goes only where it is bound; a restriction is as narrow on the
machine as it is in the file that asks for it.

## 2. Modules

| Module | Models |
|---|---|
| `Chain` | the file format as pure definitions: digests, verification, the anchor's verdicts, redaction and rechaining |
| `AuditLog` | abstract: what the flight recorder promises |
| `FlightRecorder` | `recorder.go`, `erase.go`: handles, lock, file, anchor, latch, eraser, reader |
| `FlightRecorderProofs` | theorems about `FlightRecorder` |
| `Exchange` | abstract: a question and its answer |
| `Team` | the constants the broker and the store share |
| `TeamBroker` | `broker.go`, `spawn.go`, `topology.go`, and `OnSpawn`/the lifetime timer of `host/team.go` |
| `TeamStore` | `store.go` |
| `TeamBrokerProofs` | theorems about `TeamBroker` and `TeamStore` |
| `Reaper` | `supervisor/reaper.go`, `exec.go`, `halt` of `control.go` |
| `ReaperProofs` | theorems about `Reaper` |
| `Machine` | one microVM: `internal/sandbox/sandbox.go`, `channelauth.go`, `watchdog.go`, `network.go`, `host/orphan.go` |
| `Session` | a workspace and its record: `host/run.go`, `sessions.go`, `review.go`, `internal/sandbox/workspace.go` |
| `SessionProofs` | theorems about `Session` and `Policy` |
| `TeamRig` | raising and retiring a team: `host/team.go`, `teamtemplate.go` |
| `HostServer` | the MCP server, with `TeamRig` inside it: `host/servemcp*.go` |
| `HostServerProofs` | theorems about `TeamRig` and `HostServer` |
| `Egress` | the proxy's connections and clocks: `internal/egress` |
| `EgressProofs` | theorems about `Egress`, `Grants` and `Credentials` |
| `Guest` | plugin calls and the event pump: `supervisor/pluginhost.go`, `main.go` |
| `GuestProofs` | theorems about `Guest`, `Machine` and `Confine` |
| `Lists` | loops: one that keeps some elements of a list, one of so many turns, lists joined, and a cleaned path |
| `ListProofs` | lemmas on lists, loops, finite sets and least elements that the proof modules share |
| `Inputs` | the one variable of the pure modules: the input a rule is asked about |
| `Confine` | what a guest's command may touch: the seccomp filter, Landlock, the wrapper of a command; where the guest's file tools write, and `os.Root` under them (`supervisor`) |
| `Grants` | what a machine may reach and how large it is, by every door (`host`, `internal/egress`) |
| `Credentials` | bindings, scopes, scrubbing (`internal/egress`) |
| `Extract` | reading back a file system the guest wrote, and the comparison (`extract.go`, `diff.go`) |
| `Policy` | reading `kelyfos.toml`, believing it, its directories, forwards and budgets (`internal/config`, `host`) |
| `TeamPlan` | from a `[team]` to machines, edges and the graph (`host/teamplan.go`, `internal/graph`) |
| `Records` | clipping an event and redacting a line (`recorder.go`, `erase.go`) |
| `Reading` | frames, the MCP bridge's observer, the live views, the digest (`internal/proto`, `host`, `internal/digest`) |
| `MC...` | instances for TLC; `MCPure` holds the inputs of the eight pure modules |

A definition named `X_Something` next to `X`, or one under a comment that begins
"Mutant:", is a mutant: the code with a plausible bug. Each property of each passing run
has one under which TLC reports it violated. The properties a run lists that end in
`Safe` or `Held` are conjunctions of the named parts above them, one hazard each.

### FlightRecorder

State: the whole lines of the file, what follows them (`tail`: nothing, part of a line,
a line without its newline, bytes an erasure has yet to cut off, bytes glued to any of
those), the size as `Stat` reports it, the anchor, the exclusive and the shared lock, a
place and the `Recorder` fields per handle. A handle's methods run under its own mutex,
so a handle is a sequential process; a process that opens the session again is another
member of `Recorders`. There is one action per system call: lock, `catchUp`, `write`,
the anchor's rename, and for `Erase` the lock with its tests, `WriteAt`, `Truncate` and
the anchor; a process may die between any two and inside `write`.

SHA-256 is a free function (the digest of a line is the history that was hashed), so the
"modified line" test of `Verify` is what it would be with a collision-free hash. Event
content is `content`, `erased` or `none`. A line either fits or is refused: the clipping
of oversized events is left out. A corrupt anchor counts as missing, as in the code.
`WriteAt` failing part-way, flock and stat errors, and the refusal of newer record
versions are left out. `acked`, `unanchored` and `rewritten` are history variables.

### TeamBroker

Every request is a goroutine and a member of `Calls`, with one op, made once. `deliver`
is four actions because it holds no lock across them; `Claim` is one because `Reply`
finds, checks and claims a tag in one critical section; each append to the record is an
action. A worker's name is its sequence number, which is what makes minted names unique
(`NewTopology` refuses a declared name of that form, so Spawn's `name_taken` cannot be
reached). Any agent may use any tag some agent has received: an agent can pass a tag on.
Left out: payload capture, `team_peers`, a guest whose channel dies before its answer.

### TeamStore

Tests, access and record of each request; rules as the sets of keys and agents their
globs match, chosen freely in `Init`; values by their sizes. That the running count is right
(`Accounting`) is said of the set of bytes held, one for each byte of each key's value,
whose size the count is.

### Reaper

Each exec request is a process with a place in `runCommand`; a command may leave one
descendant, in its process group or in a session of its own, that holds its output open.
The kernel is modelled from how the code uses it (external in the map): a number is free
when no process and no group has it; `SIGCHLD` is one pending bit; orphans become
children of PID 1. Numbers come round, so what the code promises by number is stated for
commands whose number no other process has had (`Unique`), and `StatusIsOwn`, which the
mutex and `deliverLocked`'s delete are for, without that condition. The timer's function
runs on its own goroutine, so firing and killing are two actions. `halt` is modelled with
its grace period; statuses taken by `anyChildren` end the promises of the reaper.

### Machine

State: where the owner (the command that asked for the machine) is, the goroutine that
waits for the child, the credential push, the sockets; the kernel's and the disk's pieces
(run directory, pid file, state record, TAP, nft table, slice); the guest and the
credential it holds; the watchdog; the stage of a `doctor --reap-orphaned`, the processes it
has read and the residue it has found. The doctor's names in `/proc`, its reading of each
process, its listing of the TAPs and then of the tables (either may fail and name nothing), and
its removals are separate steps (`ReadDir`, `ReadGone`, `ListTAPs`, `ListTables`,
`ReapOrphans`); what was read is kept while everybody else goes on. The owner may be killed
and the VMM may end at any step. `missed`, a history variable, says that the machine was begun
while a scan was under way. All names carry a random id, so machines share nothing and
one machine is the whole state. `Init` leaves open whether it boots or restores, is
jailed, has a network, or has `KELYFOS_CACHE` set, which is what lets a doctor see its
claim before its state record exists. The guest's side of the handshake is an external part.

### Session

Directories, images and page caches are sets of pieces of work, so losing, overwriting
and duplicating are set inclusions. Actions: the person edits, the agent writes, the
guest flushes; each command of a run and of one resume in its own order (pack, boot, mark,
shut down, stage, compare, commit by two renames, clean); pause with its move of the image;
`sessions rm`, prune (list first, look at each record later) and erase. Any command may be
killed between two steps. One resume is enough for the questions asked: the second
write-back is where a manifest or a fingerprint is missing. Forks of a stored session are
left out.

### TeamRig and HostServer

Every `go` statement is a process: a boot, a spawn run by a guest's request, a timer, the
template build, a tool call, the goroutine that watches a machine's recorder. What is read
under a lock and what is done after it are separate actions, so `room` and `adopt` are
apart by a boot, and `teardown` works through a snapshot of a roster that still grows.
A write of the state file takes the roster under the lock and may fail; raising a team fails with it, a
later add or timer drops its error. `unwritten`, a history variable, says that the last write failed.
`HostServer` extends `TeamRig`: `team_up` and `team_down` start its actions, and
`closeAll` takes the team down. Boots and stops are one step in here, in `Machine`
they are many; the broker that grants a spawn is `TeamBroker`. Left out: tool
arguments and results, uploads and downloads, forwards.

### Egress

A connection goes through accept, header, decision, and one of three ways to be served.
Time is a tick that is taken only when no deadline has run out; a deadline is what is left
until it, and a wait for which the code sets none is `Never`. So "is held for at most" is
a state property (`age`), and a path without a clock is visible as such. The guest and
the origin may send, stall, refuse, answer or end at any time. History variables: the
age, what was carried and reported, and whether an origin kept a connection in a wait
begun before its ceiling.

### Guest

A tool call is a process that takes the plugin's lock, writes, and waits for the answer
or the timeout; the goroutine that scans for it may outlive it, and two scanners of one
`bufio.Scanner` race: a line goes to either or comes out torn. The event pump has its
queue, the event it holds, the connection and both ends' credentials; a restore severs
the connection and renews the host's credential at once, the guest's later.

### The pure modules

`Confine`, `Grants`, `Credentials`, `Extract`, `Policy`, `TeamPlan`, `Records` and `Reading` are
functions of the code written as operators, each followed by what it must amount to,
stated without it: the first rule that decides an address against the set of addresses,
the parser's array against the list that was printed, a path walked link by link against
the tree it may not leave, a clip against the budget, an erased line against its members, the
digest of a sequence of events against counts over it. `MCPure` picks one input of the bounded
sets and judges it, so a state is an input. Text is a sequence over an alphabet with one
character of each kind the code distinguishes; names are sequences of their labels or
parts. A loop whose next step depends on what it reads is `Looped` where a theorem is about
it (the filter's run, `os.Root`'s walk, `Clean`, the scrubber's search and its reader), and `OverList` when it
runs over a list (the parser's lines and characters, the ticks of a budget); else RECURSIVE. A read of a scrubbed body is a turn, and whoever copies the body takes as many turns as it
has pieces and bytes: a turn hands on a byte at least or takes a piece, which the theorem shows. `os.Root` follows a name a turn, at
most `MaxTurns` of them (12 in the run, more than any path of it needs; a walk that is not done
by then is an error, as one over too many links is). A file system is a tree: what has a
name has a directory above it. The observer of `Reading` takes the steps of its goroutines in
every order.

## 3. What is checked

Every bound is a constant; deadlock is off because in every instance the work may be
finished (handles closed or dead, requests all made, the machine or the server gone).

| Run | Instance | Shows |
|---|---|---|
| `recorder_core` | 2 handles, 3 lines, 1 erasure, 2 faults; redaction lengthens a line | type, chain, `RecordSafe` (nothing after damage, what was acknowledged is in the record), latch, epitaph, anchor, reader, refinement of `AuditLog` |
| `recorder_shrink` | 2 handles, 2 lines, 1 fault, an erasure that shortens the file to no size it had before; fair | the chain again; every `Append` returns |
| `broker_exchange` | 4 requests of 2 agents, one edge, mailbox of 1 | one answer; `ExchangeSafe` (by the agent that was asked, along the edges, delivered once); refinement of `Exchange` |
| `broker_spawn` | 3 requests, 2 workers one at a time; fair | `SpawnSafe` (budget, topology, mailboxes behind names, delivery once); every request returns |
| `store_access` | 3 accesses of 2 agents, 4 keys, values at and over the limits, no rule or one of two | `StoreSafe`: accounting, permissions, order of rules |
| `reaper_reap` | 2 commands, one of which may fork, share 2 numbers; shutdown; fair | `ReaperSafe` (own status, none dropped, own processes killed); requests answered |
| `machine_life` | every kind of machine, owner, watchdog, doctor that reads, lists and reaps in separate steps (1.8 million states) | `MachineSafe` (nothing left behind, up means authenticated), `InUseIntact` (unless begun within such a scan), `NoteTruthful`; what a killed owner leaves is reclaimed |
| `session_keep` | 1 edit, 1 write, a run and a resume (2.2 million) | `WorkKept`, `EditsStay`, `SessionSafe` (an empty image is refused, a prune takes nothing live) |
| `host_serve` | 2 callers, 3 machines under a limit of 2, forks of 2; a team of 2 agents and a timed worker, every write of its state file may fail (1.0 million) | `HostSafe` (limit, owners, one end to a record, nothing behind), `RigSafe`; the server drains |
| `egress_clock` | 2 connections, 2 slots, 2 secrets, deadlines of 1 to 3 ticks (1.0 million) | `EgressSafe` (slots, entitlement, credentials, reports), `Timely`; `Close` ends |
| `guest_plugin` | 2 calls, queue and pipe of 1, one restore (362,000) | `GuestSafe` (own answer, order and number of events); calls return |
| `pure_rules` | 271,000 inputs of the pure modules | `Confined`, `GrantsHeld`, `CredentialsHeld`, `PolicyHeld`, `PlanHeld` (team plans and graphs), `ReadBack` (write-back, clipped and erased records, frames, digests) |

Why the bounds are enough to be interesting. Two handles and an eraser are every kind of
interference the lock allows; three lines leave room for a line before, during and after
it, and two faults for a failure and the failure of its epitaph. Four requests are a
question, a receive and two competing replies. A mailbox of one is full after one message
(64 in the code). Two numbers for three processes make a number come round while a request
that had it is still waiting for its output. Three machines and forks of two under a limit
of two are the least in which a fork that had room finds none at `adopt`. The tools are tried in
two sets (`Mixes`), those that handle machines and those that handle teams, each with the
server's stop: the two meet in the server's record, its count of calls and its stop. Two
connections suffice for the proxy because handlers meet only in the slots, the record and the
count `Close` waits for, and two for two slots let the loop find the pool full. A ceiling of three ticks over
an idle budget of two and an idle clock of one keeps the order of the code's constants. Two
calls are a late answer and its victim; a queue and a pipe of one are full at once. One edit and
one write tell every merge of two directories apart, since the model only takes unions
and replacements of them. In `MCPure` the sizes (frames of 3, drains of 4, images of 5
entries, budgets of 60) put values below, at and above each limit.
Symmetry is used only in runs without liveness, over sets whose
members the specification never distinguishes.

`HonestVerdict` and `NoFalseTamper` allow a mismatch only when two events in a row went
unanchored or an erasure stopped before its anchor (both happen: section 4). `Timely`
excepts an origin that keeps a connection in a wait, `InUseIntact` a machine begun while a
doctor's scan was under way, `FileIsRoster` a write that failed last, `CloseEnds` and
`CallsReturn` of `Guest` the peer that holds them for ever, for the reasons in section 4.

Fairness. `FlightRecorder`: a process that holds the lock goes on to its next system
call (it may still die), and the kernel serves the waiters of a `flock`, hence strong
fairness of `Lock`. `TeamBroker`: a goroutine that can take its next step does; nothing
is assumed of workers' lifetimes. `Reaper`: the supervisor's goroutines run; nothing is
assumed of the guest's processes, which may run for ever, and nothing makes a new request
begin. `Machine`: a shutdown that was begun goes on, a signal sent is delivered, and the
watchdog's process runs; the guest need not answer. `HostServer`: some step of the
server's own goroutines is taken when one can be (one weak fairness of their disjunction,
weaker than one for each); no guest command need end. `Egress`: the accept loop, `Close`,
time, and a handler whose deadline has run out; neither the guest nor the origin need act.
`Guest`: calls, scanners and the pump go on, and a mutex that is free again and again
is got (strong fairness of the two `Lock`s: Go's mutex hands over to a starving waiter);
the plugin need not answer. `Session` and `TeamStore` state safety only.

## 4. Where the code and its documentation disagree

Each is a definition that says what the documentation says; TLC refutes it when a cfg
lists it. `PROJECT.json` quotes the lines. The first six have a cfg of their own
that ends in the counterexample.

1. `NeverStale` (`MCFlightRecorder_stale.cfg`). `catchUp` skips a file whose size has not
   changed. After an erasure that leaves exactly the old size, a live handle appends with a
   number and a `prev` of the replaced chain, and the file no longer verifies. "can never
   go stale" (`recorder.go:833`). The theorems about the chain therefore assume `SizeOnlyGrows`.
2. `InterruptedIsNotTampering` (`MCFlightRecorder_interrupted.cfg`). Two processes that die
   in a row between line and anchor leave a verdict of tampering (`recorder.go:644-648`).
3. `MachinesWithinBudget` (`MCTeamBroker_machines.cfg`). A worker's place is given back
   before its machine is stopped, so `max` machines "at any one time"
   (`docs/teams.md:527`) may be one more.
4. `RuleNarrows` (`MCTeamStore_widens.cfg`). The first matching rule decides, so a rule put
   before another can let in an agent the other would refuse (`store.go:43`,
   `docs/teams.md:409`). One put after it cannot (`LastRuleNarrows`).
5. `NeverDropped` (`MCReaper_forgets.cfg`). `forget` deletes by number: a request that
   waited long for its output may delete the waiter of a newer command with the same
   number, which then blocks for ever (`reaper.go:69-74`).
6. `TimeoutAnswers` (`MCReaper_hangs.cfg`). A descendant in its own session keeps the
   caller waiting past its timeout (`docs/protocol.md:342`).

In the recorder, the broker and the reaper also: `EpitaphTakesItsPlace` (another process may
take the number of the lost event before its epitaph is written, `recorder.go:1108`),
`ErasureIsNotTampering` (an erasure killed before its anchor, `erase.go:355-357`),
`UnreachableMeansFull` (a worker that left between the topology's tests and the look-up,
`docs/teams.md:371`), `KillsItsGroup` (a late timeout and a number that came round,
`docs/protocol.md:342`), `ReaperOwnsWait` (`anyChildren`, `reaper.go:13`).

| Definition | What happens |
|---|---|
| `Machine!NeverMissed` | a `kelyfos run` that begins after the doctor has read `/proc` and before it lists TAPs or tables has its network listed as residue and removed (`orphan.go:283`, `333`, `463`) |
| `Machine!MidBootClaimed` | only `kelyfos run` claims its directory before its network exists; another command's TAP may be taken for an orphan's (`orphan.go:43`) |
| `Machine!NoteMeansFlushed` | the note is nil when the VMM had already died, although nothing was flushed (`sandbox.go:1612`) |
| `Machine!ShutdownReturns` | a jailed boot whose pid file does not appear waits on a channel nobody will close (`sandbox.go:802`) |
| `Session!NeverEmptied` | the manifest is copied only where the image's copy failed, so a resume may write an emptied image back (`diff.go:89`) |
| `Session!PausedEditsStay` | a resume fingerprints the directory when it ends, so an edit made while it was paused is overwritten (`workspace.go:99`) |
| `TeamRig!EveryAgentStopped`, `NoStaleFile` | `teardown` stops a snapshot of the roster; a worker still booting runs on and writes the state file again (`team.go:384`) |
| `TeamRig!FileAlwaysRoster` | a failed write of the state file goes unnoticed when a worker joins or a member is retired; the old file stays until the next write (`team.go:1285`, `1306`) |
| `TeamRig!EveryWorkspaceBack` | a failed write-back is followed by the removal of the image (`team.go:385`) |
| `HostServer!NothingLeftRunning` | the watcher of a failed recorder is waited for by nobody (`servemcp.go:593`) |
| `Egress!CeilingHolds` | an origin that stalls in a terminated response is read without a deadline (`terminate.go:483`) |
| `Egress!NothingAfterClose` | `Close` may return between an accept and its count (`proxy.go:735`) |
| `Guest!HeldNotDropped` | a write into a refused connection succeeds and the event is gone (`main.go:268`) |
| `Guest!AlwaysReturns` | the write of a request is outside the timeout (`pluginhost.go:52`) |
| `Guest!AlwaysOwnAnswer` | a scanner left behind takes the next call's answer; the call then times out (`pluginhost.go:252`) |
| `Grants!SameRule` | the commands match addresses by suffix, the proxy does not (`run.go:1155`) |
| `Credentials!EveryByteReplaced` | of two overlapping values the rest of the second stays (`scrub.go:98`) |
| `Extract!EveryChangeShown` | a retargeted link is not reported (`docs/qol.md:172`) |
| `Records!AlwaysFits` | an event over its line by escaping alone is refused, and the recorder latches (`recorder.go:1363`) |
| `Records!NothingLeft` | a member written twice keeps its first value through an erasure (`erase.go:537`) |
| `Reading!CleanBoundary` | frames behind an overlong line in the same read are lost (`proto.go:749`) |
| `Reading!EveryEventShown` | a live view takes a half-written line for a line (`watch.go:314`) |
| `Reading!AnsweredOnce`, `StartsFirst` | the bridge relays a request before it notes it (`mcp.go:118`, `mcpobserve.go:219`) |
| `Reading!AlwaysAttributed` | two agents with the same call ids share an open command in the digest (`digest.go:996`) |

Two more are seen by reading an action and have no definition: `doctor` deletes what it
reports as "nothing signalled or deleted" (`orphan.go:443`), and a template's machine may
outlive the process that `down` says it cannot (`team.go:393`).

## 5. What is proved

Every theorem holds for every value of the constants that meets the named assumption of
its module (`ConstantsAssumption`, `TeamAssumption`, `ReaperAssumption`,
`StoreAssumption`, `SessionAssumption`, `RigAssumption`, `HostAssumption`, `EgressAssumption`,
`GuestAssumption`, `GrantsAssumption`, `CredentialsAssumption`, `ConfineAssumption`, `PolicyAssumption`). All are about safety; those about a specification rest on an inductive invariant, written in
the component's module under "Inductive strengthenings" and checked by TLC on the run's
instance before it was proved. The proofs have one shape: `Init` gives the invariant,
every action keeps it (one step per action; what an action leaves alone is settled once,
by a frame lemma), and the invariant gives the property. Those about the rules of a pure
module hold for every input of the kinds the code can be given; that the inputs TLC checks
are of those kinds is an assumption TLC evaluates (`GrantItems`, `CredentialItems`, `ConfineItems`, `PolicyItems` in `MCPure`).

### The flight recorder (`FlightRecorderProofs`)

- `TypeCorrect`: `Spec => []TypeOK`.
- `LatchHolds`: `Spec => []NothingAfterEpitaph`. The property is not inductive: a handle
  about to write must be known to have written no epitaph. `EventInv` ties what a handle
  is writing to its latch, and `LatchInv` says the author of an epitaph is finished, or
  between its line and its anchor, or dead, or behind a file that takes no more lines.
- `ChainHolds`: `SizeOnlyGrows` implies `ChainVerifies` and `NothingAfterDamage`. `ChainInv` is the argument
  for the size test of `catchUp`: offsets never exceed the size, and a handle whose
  offset is the size knows the file's end. `MutexInv` ties the lock to the places.
- `RecordHolds`: `SizeOnlyGrows` implies `RecordSafe`. `AckInv` counts: the lines of a handle
  are as many as its answered events, one more while it is between a line and its anchor,
  and one more at most for good once it failed or died.
- `AnchorHolds`: `NoFalseTamper` and the action property `HonestVerdict` (with `AnchorInv`: the anchor is the head of the prefix it counts) and
  `EpitaphHolds`, under the same hypothesis.
- `RecorderImplementsAuditLog`: `Spec => Implements`, every step a step of `AuditLog` or
  a stutter, without hypothesis on sizes.

`SizeOnlyGrows` is a hypothesis on the constants: no redaction makes a line shorter, or
nothing is erased. Without it the code does lose the chain (section 4, 1); the run
`recorder_shrink` checks an instance where lines shrink and sizes still never meet.

### The team broker (`TeamBrokerProofs`)

- `TypeCorrect`, the mailbox bound included.
- `OneAnswer`: `Spec => []OneAnswerLogged`, and `BrokerImplementsExchange`: `Spec => Implements`.
  They rest on `CallInv` (where a request is and what it
  is), `MessageInv` (only accepted messages travel), `QuestionInv` (a question is
  outstanding, answered or over, never two), `AnswerInv` (an answer and its reply agree),
  `LogInv` (the record says what happened) and `SpawnInv`.
- `ExchangeIsSafe`: `OnlyAlongEdges` and `DeliveredOnce`. `DeliveryInv` says a message is
  in one mailbox or with one reader, at the agent it was for; `EdgeInv` says that what
  passed the topology's tests had an edge, declared or between a worker and the agent
  that spawned it, and no other worker ever has that worker's number; `GivenInv` says who is given anything.
- `SpawnIsSafe`: `WithinBudget`, `FixedTopology`, `MailboxBehindName`. A worker's place,
  mailbox, name and edge are each given and taken back by another step; `WorkerInv` ties
  each to the stages of the one request that minted it (`MintedInv`), so the budget is the
  number of requests between two stages.

### The team store (`TeamBrokerProofs`)

- `StoreIsSafe`: `StoreSpec => []StoreSafe`, for every set of agents, keys, rules and sizes.
  `AccessInv` says how far each access is and what it was allowed, `EntryInv` that a key that
  is held was put there by an access the rules let through, `StoreInv` that the running count
  is the number of bytes held. A sum over the keys would need an induction over a fold; the
  bytes as a set need only cardinalities (`BytesSplit`, `BytesTaken`, `BytesPut`). The order of the
  rules (`LastRuleNarrows`) is the least index that matches, with a rule added last
  (`AddedLast`). `RuleNarrows` stays refuted (section 4, 4).

### The guest's reaper (`ReaperProofs`)

- `ReaperIsSafe`: `StatusIsOwn`, `NoStatusDropped`, `OnlyOwnKilled`, with process numbers that come round.
  `Numbered`: a number belongs to one process from its birth until it is reaped;
  `Started`: how far a request is says whether its command exists; `Expected`: while no
  shutdown reaps beside the reaper, a command still to be reaped whose number is its own
  has its waiter, and a waiter is that of such a command. The properties say nothing of a
  request whose number is not unique, or after a halt, as in the run.

### A session and its directory (`SessionProofs`)

- `SessionIsSafe`, `WorkIsKept`, `EditsDoStay`. `Counted` counts the write-backs that replaced the directory;
  `Arranged` says what a stage and an absent directory hold; `WorkTraced` follows the
  agent's work (an image is removed only when the work it held is elsewhere);
  `EditsTraced` follows the person's edits through a write-back's comparison;
  `Witnessed` keeps the run's manifest with its image; `YoungWhenUsed` says a record in
  use is too young for the prune that listed it before.

### The policy file (`SessionProofs`)

- `PolicyIsHeld`: `PolicyInput(item) => PolicyHeld`, one lemma for each part.
  *Text* (`ArrayIsRead`): inside its quotes a value passes `stripComment` and `splitTopLevel` whole
  (`StripInside`, `SplitInside`), so a list printed with commas and hashes in its values and
  a comment behind it is read back as it was.
  *Sections* (`KeysDoBelong`): an invariant of the parser's loop says that the blocks are as many as the
  array headers so far (`Numbered`), that the section is the last block's or an agent's (`Headed`),
  and that every key lies in the block above it (`Belonging`).
  *Sizes* (`SizeIsExact`): a product that passes the test before it is what its word holds.
  *Trust* (`TrustIsHeld`).
  *Directories* (`DirectoryIsHeld`): the longest part of a path that exists is the path itself
  when it exists (`ResolvedIs`), so what is judged to be in the tree is where the path leads,
  in any file system.
  *Forwards* (`ForwardsAreHeld`): pairwise different ports are as many as the list is long.
  *Budgets* (`BudgetIsKept`): an invariant of the watch, a tick at a time (`TickKeeps`), relates its
  last change to the ticks at which the record grew or the proxy carried something, whence
  a run is ended for being idle exactly when it was.
  *Outcome* (`OutcomeIsHeld`).
- `PolicyInput` has the hypotheses. A value holds no quote and no backslash, since `parseString` takes
  nothing back; a number is what its word holds; a private group has no member but the
  caller and root, which `privateGroup` infers from the group's name and says so; links
  name paths (a walk of more than 20 turns counts as one that does not exist, of which nothing
  is promised); the proxy's last activity is
  not ahead of the clock and does not move back.

### The host's server and its team (`HostServerProofs`)

- `RigIsSafe`: in every state of the server, the roster, the machines and the workspaces of the
  team agree, and the state file names the roster when no write is under way and the last one
  did not fail (`FileIsRoster`), and never anybody who did not boot, whichever writes failed
  (`FileBooted`). `RosterGrows`, `Rostered` and `Retired` say where a
  running machine is known: in the boots not yet collected, on the roster, with its
  timer, or, during teardown, in what is left to stop. The roster is filtered by loops over
  lists: `KeptTurns` and the lemmas after it in `ListProofs` say what such a loop returns.
- `HostIsSafe`: `WithinMax`, `NoOrphan`, `EndedOnce`, `CallsRecorded`, `ReturnedClean`. `WithinMax` is kept because `room` and `adopt` test
  under one mutex; `Owned` says who has each machine (the map, one call, or its closers)
  and how far its chain is; `InChain` and `Stages` say what the end of the server has
  already waited for. The rig is composed with the server in one specification, so both theorems
  share one invariant, `RigInv /\ HostInv`.

### The proxy (`EgressProofs`)

- `EgressIsSafe`: `SlotsExact`, `OnlyEntitled`, `SecretsAccounted`, and the report at the end of a handler. `HandHeld`
  counts the connection between the accept loop and its goroutine; `Told` says at which
  stages a credential is on a request and when anything was carried.
- `EgressIsTimely`: `Timely`. `Clocked` bounds each remaining wait by the age of its connection: a
  deadline lies within the ceiling, or within one dial, or one answer after it; and a
  direction of a tunnel is never given less than the stall unless the ceiling cuts it.

### What a machine is granted (`EgressProofs`)

- `GrantsAreHeld`: `item \in GrantInputs => GrantsHeld`: however a machine is made (file,
  snapshot, flag), it reaches no host, has no size and gets no port beyond what bounds it,
  for every list, host and size. The lists of a file and of a snapshot have passed
  `CheckAllowList`, as they have in the code, and a host has a name. The argument is on
  suffixes (`SuffixIs`): an entry that another covers covers nothing the other does not
  (`CoverPasses`), and an address is nobody's suffix (`NoTail`).

### Where a credential goes, and that it does not come back (`EgressProofs`)

- `CredentialsAreHeld`: `CredentialInput(item) => CredentialsHeld`, for every binding, path, set of
  values, body and way to cut and read it. *Scope* (`ScopeIsHeld`): a path that passes
  `literalAndNormal` is read alike by every origin (`ReadLiterally`), and a clean path has no empty
  name, so one that `covered` accepts is routed beneath the scope. *Binding* (`BindingIsHeld`).
  *Echo* (`EchoHolds`): a star never makes a value that was not there (`MaskKeeps`), so one pass per
  value leaves none (`ScrubIs`); `Passed` is the invariant of the reader: what was handed on
  and what is held back, joined, is the body read so far with only values starred; no value
  begins in what was handed on, even one that ends in what is held back; and while there is
  more to come, at least `Hold` bytes are held back, so that a value cut in two is found
  (`TakesOn`). Every turn hands on a byte or takes a piece, so the turns suffice (`DeliveryIs`).
- Two hypotheses are in `CredentialInput`. A reader has room for a byte, as `io.Reader` asks. And no
  value contains the byte that replaces, a star: with the values `ab*` and `xy` (shortened), in that order, the
  body `abxy` becomes `ab**`, which the first value now matches and is not looked for
  again. The code states no such restriction on values; what is proved is the rest.
  `EveryByteReplaced` stays refuted (section 4).

### The guest's plugins and events (`GuestProofs`)

- `GuestIsSafe`: `AnswerIsOwn`, `OneAtATime`, `EventsInOrder`. `ScansAlone`: until two goroutines have scanned at once,
  there is one of them and it has found its own call's answer. `ReportedOnce` and
  `WireLive` carry the order of events over failed dials and writes: record, wire, the event
  held back and the queue, joined, are what was reported without what was lost.

### A machine's life (`GuestProofs`)

- `MachineIsSafe`, `InUseStaysIntact`, `NoteIsTruthful`. `Machine` has no constants and TLC's
  run of it is exhaustive; the proofs say why it holds: `NotYet` (what does not exist before a stage
  of the boot), `Minted` (a credential is the host's, the guest's, or on its way), `ScanKept`
  (the processes a doctor has read include the live owner of a VMM among them, and the owner of
  any machine it did not miss; so it lists the VMM of a dead owner only, and nothing of a machine it
  can see), `ScanStages` (when it keeps what), `Holds` (who answers for each piece), `EndKnown` (the note of a shutdown says what the guest did).

### What the guest confines (`GuestProofs`)

- `GuestIsConfined`: `ConfineInput(item) => Confined`, for every profile, command, path and
  file system.
  The filter refuses exactly what the profile denies: `FilterSound` is the invariant of its
  run (on its way through the chain, sent to the refusal, or answered), and a jump fits its byte as
  long as at most `ByteMax - 3` calls are denied, the bound `seccompProgram` names. Landlock
  grants exactly the subtrees that exist of those listed. A command is wrapped, unless it is
  the helper itself (`ParsesBack`; the first argument is the name the command was given, as
  `exec.Command` has it, so that only the helper can carry the marker). A write is in a writable
  tree: `Clean` leaves no dots (`CleanIs`), a path judged to be beneath a directory is (`BeneathIs`), `os.Root`
  stays in its tree in any file system, one that changed since the check included
  (`FollowStays`), and where nothing changed a write goes to the path it names
  (`FollowStraight`). The inductions are on the turns of a loop (`LoopKeeps`).

### Assumptions on constants

They are as weak as the proofs allow; each states what Go gives for nothing: `None` (a nil
pointer, an empty name) is not a value of the set it is added to; a list of agents has
no name twice (`teamplan.go:116` refuses it); secrets are a list; the identifiers of machines are
finitely many (four random bytes); limits are positive; an empty label is a label and no
number; the writable directories and devices are lists and sets of absolute paths.

### How the models are written for it

- `CASE` expressions of the proved modules all have an `OTHER` arm; the prover's encoding
  of one without it is not to be relied on.
- Loops over lists are the recursive functions `Kept`, `Looped` and `OverList` of `Lists`: the prover has no
  encoding of `SelectSeq` or of a fold, whose arguments are operators.
- A proof module may be about several components: the broker and the store take their common
  constants from `Team`, and the names of `Machine` differ from those of `Guest`.
- An empty string is a named constant (`NoLabel`, `NoName`), which the SMT backend can read.
- Induction over a list is done on its set of positions: the first position at which a
  loop would go wrong is a least element (`LeastOf`), and the turn before it contradicts it
  (`LoopEnds`, `ListRule`).

### Only model-checked

- Liveness under fairness, out of this prover's reach: `AppendReturns`, `CallsReturn` (of
  the broker and of the guest), `ExecReturns`, `Reclaimed`, `Drains`, `CloseEnds`.
- `PlanHeld` and `ReadBack`, the pure modules of `MCPure` but for `Grants`, `Credentials`, `Confine`
  and `Policy`: they compute over data of any length by folds and `RECURSIVE` operators; what they
  compute for every input needs induction over data, which no installed backend can
  instantiate. The proved four had their loops rewritten as turns; these are
  checked over bounded inputs only.

## 6. Not modelled, and the plan

Not modelled:

- The shim (`shim/`, `host/shim.go`): a JSON service in front of `internal/sandbox` whose machines,
  limit and close follow those of the MCP server.
- The table of event types and the team record's translation: data and copies.
- What is formatting or a terminal: views, reports, exports, `watch`'s screen, generated
  documents.
- What is set-up by the kernel or by a tool: cgroup, jail directory, seccomp profile of the
  VMM, image builds, TLS and HTTP syntax, certificates. Their failure is a step that fails.
- A plugin's start-up handshake and its list of tools; the guest's terminals and forwarder;
  the clock's resync and the trust anchors; `fork` and `snapshot` as commands of the host.
- In `Machine`, process numbers that come round: a number in the pid file, in the state record or in
  a watchdog's arguments names the process it was written for (the doctor compares start times before
  it signals, the watchdog does not, `watchdog.go:95`), and no number is used twice while `/proc` is
  listed. What one doctor removes from its list, and what one watchdog does, is one step.
- In `Guest`, a plugin's descendants: its pipes close when the plugin ends (`PluginExits`), as they
  do unless a process it left behind holds them.
- In `policytrust.go`, two processes that write the record of trusted files at once.

The plan, in order:

1. Theorems for the other pure modules, as `Grants`, `Credentials`, `Confine` and `Policy` have them:
   the plans of `TeamPlan`, the walks of `Extract` and the clips of `Records`, each with its loops as
   `Looped` and its inputs described by a predicate.
2. A `Shim` module beside `HostServer`, and an abstract pool of machines that both
   implement.
