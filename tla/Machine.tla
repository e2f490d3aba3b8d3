------------------------------ MODULE Machine ------------------------------
(***************************************************************************)
(* One microVM, from the command that asks for it to the last piece of it   *)
(* on the host: internal/sandbox/sandbox.go and the files it drives         *)
(* (channelauth.go, watchdog.go, jail.go, network.go, cgroup.go,            *)
(* seccomp.go), with the part of host/run.go and host/snapshot.go that      *)
(* prepares a boot or a restore, and the orphan reaper of host/orphan.go.   *)
(*                                                                          *)
(* Four processes touch a machine: its owner (the kelyfos command), the     *)
(* VMM with the guest in it, the watchdog, and `kelyfos doctor              *)
(* --reap-orphaned` run by anybody at any time.  Every name a machine owns  *)
(* (run directory, TAP, nft table, pid file) carries its random id, so two  *)
(* machines share none of it and one machine is the whole state.            *)
(***************************************************************************)
EXTENDS FiniteSets

VARIABLES
    \* What this machine was asked to be, fixed at the start.
    kind,      \* "boot" (kelyfos run) or "restore" (resume, restore, fork)
    jailed,    \* the VMM runs under sudo and the jailer
    wantNet,   \* it has an allow list, hence a TAP and an nft table
    cacheEnv,  \* KELYFOS_CACHE is set in the owner's environment
    \* The owner.
    owner,     \* where the owning process is
    waiter,    \* the goroutine that waits for the child and closes done exists
    note,      \* shutdownRefused is set
    push,      \* the credential push: idle, trying, done, unsupported, failed
    readyCh,   \* the ready channel holds a message
    listening, \* the ready, events and team sockets are bound
    \* The kernel and the disk.
    vmm,       \* none, up, dead
    pidFile, dir, record, tap, table, slice,
    \* The guest.
    guest,     \* off, booting, listening, old, halting
    cred,      \* the credential the guest holds: none, frozen, current
    flushed,   \* the guest flushed its workspace for a shutdown
    \* The others.
    watchdog,  \* none, watching, gone
    crashed,   \* the VMM ended without anybody on the host asking
    \* A doctor that looks for orphans, and what it has read so far.
    scan,      \* off, reading (/proc), tables (the TAPs are listed), listed
    seen,      \* the machine's processes it goes by
    found,     \* what it listed and has not acted on
    missed     \* history: the owner began while a scan was under way

order  == <<kind, jailed, wantNet, cacheEnv>>
kernel == <<pidFile, dir, record, tap, table, slice>>
guests == <<guest, cred, flushed>>
doctor == <<scan, seen, found, missed>>
machineVars   == <<order, owner, waiter, note, push, readyCh, listening, vmm, kernel,
            guests, watchdog, doctor, crashed>>

\* The owner's program counter, in the order a boot passes through it.
Booting  == {"claimed", "netted", "fenced", "made", "piping", "piped",
             "waiting", "handing"}
Stopping == {"asking", "handshake", "term", "kill", "last", "closing"}
Live     == Booting \cup {"up", "closed"} \cup Stopping
Over     == {"idle", "refused", "ended", "dead"}

ScanTypeOK ==
    /\ scan \in {"off", "reading", "tables", "listed"}
    /\ seen \subseteq {"owner", "vmm"}
    /\ found \subseteq {"vmm", "tap", "table"}
    /\ missed \in BOOLEAN

MachineTypeOK ==
    /\ kind \in {"boot", "restore"}
    /\ {jailed, wantNet, cacheEnv, waiter, note, readyCh, listening, pidFile,
        dir, record, tap, table, slice, flushed, crashed} \subseteq BOOLEAN
    /\ owner \in Live \cup Over
    /\ push \in {"idle", "trying", "done", "unsupported", "failed"}
    /\ vmm \in {"none", "up", "dead"}
    /\ guest \in {"off", "booting", "listening", "old", "halting"}
    /\ cred \in {"none", "frozen", "current"}
    /\ watchdog \in {"none", "watching", "gone"}
    /\ ScanTypeOK

MachineInit ==
    /\ kind \in {"boot", "restore"}
    /\ jailed \in BOOLEAN /\ wantNet \in BOOLEAN /\ cacheEnv \in BOOLEAN
    /\ owner = "idle" /\ push = "idle" /\ vmm = "none" /\ guest = "off"
    /\ cred = "none" /\ watchdog = "none" /\ missed = FALSE
    /\ scan = "off" /\ seen = {} /\ found = {}
    /\ waiter = FALSE /\ note = FALSE /\ readyCh = FALSE /\ listening = FALSE
    /\ pidFile = FALSE /\ dir = FALSE /\ record = FALSE /\ tap = FALSE
    /\ table = FALSE /\ slice = FALSE /\ flushed = FALSE /\ crashed = FALSE

\* done is closed: the child was waited for.
Done == waiter /\ vmm = "dead"

---------------------------------------------------------------------------
(* The owner prepares: its CPU slice, its claim on the run directory (a     *)
(* boot only: no restore makes the directory before its network), then the  *)
(* TAP and the firewall.                                                    *)

Claim ==
    /\ owner = "idle"
    /\ owner' = "claimed" /\ dir' = (kind = "boot") /\ slice' \in BOOLEAN
    /\ missed' = (scan # "off")
    /\ UNCHANGED <<order, waiter, note, push, readyCh, listening, vmm, pidFile,
                   record, tap, table, guests, watchdog, scan, seen, found,
                   crashed>>

\* An early return runs the deferred Net.Down and Slice.Close; the claimed
\* directory has no defer of its own.
Refuse(removeDir) ==
    /\ owner' = "refused" /\ listening' = FALSE
    /\ tap' = FALSE /\ table' = FALSE /\ slice' = FALSE
    /\ dir' = (dir /\ ~removeDir)
    /\ UNCHANGED <<order, waiter, note, push, readyCh, vmm, pidFile, record,
                   guests, watchdog, doctor, crashed>>

NetUp ==
    /\ owner = "claimed"
    /\ \/ /\ owner' = "netted" /\ tap' = wantNet
          /\ UNCHANGED <<order, waiter, note, push, readyCh, listening, vmm,
                         pidFile, dir, record, table, slice, guests, watchdog,
                         doctor, crashed>>
       \/ wantNet /\ Refuse(FALSE)

RestrictNet ==
    /\ owner = "netted"
    /\ \/ /\ owner' = "fenced" /\ table' = wantNet
          /\ UNCHANGED <<order, waiter, note, push, readyCh, listening, vmm,
                         pidFile, dir, record, tap, slice, guests, watchdog,
                         doctor, crashed>>
       \/ wantNet /\ Refuse(FALSE)

\* New, and the first half of Restore: refused before the directory is made
\* (a missing artifact, no jailer), or after it, with cleanup; or bound.
NewMachine ==
    /\ owner = "fenced"
    /\ \/ \E removeDir \in BOOLEAN : Refuse(removeDir)
       \/ /\ owner' = "made" /\ dir' = TRUE /\ listening' = TRUE
          /\ UNCHANGED <<order, waiter, note, push, readyCh, vmm, pidFile,
                         record, tap, table, slice, guests, watchdog, doctor,
                         crashed>>

---------------------------------------------------------------------------
(* Start, and the middle of Restore.                                        *)

\* The child is running: an unjailed boot writes the pid file itself, a
\* jailed one waits for the jailer's; a restore outside the jail writes none.
\* The waiting goroutine exists once the pid is known.
Spawned ==
    /\ vmm' = "up"
    /\ watchdog' \in {"watching", "none"}
    /\ IF jailed
       THEN owner' = "piping" /\ UNCHANGED <<pidFile, waiter, push>>
       ELSE /\ owner' = "piped" /\ waiter' = TRUE
            /\ pidFile' = (kind = "boot")
            /\ push' = IF kind = "boot" THEN "trying" ELSE "idle"
    /\ guest' = IF kind = "boot" THEN "booting" ELSE "off"
    /\ UNCHANGED <<order, note, readyCh, listening, dir, record, tap, table,
                   slice, cred, flushed, doctor, crashed>>

\* cmd.Start fails: a restore cleans up and returns; a boot returns to run,
\* whose deferred Shutdown has no child to stop.
SpawnFails ==
    \/ kind = "restore" /\ Refuse(TRUE)
    \/ /\ kind = "boot" /\ owner' = "closing"
       /\ UNCHANGED <<order, waiter, note, push, readyCh, listening, vmm,
                      kernel, guests, watchdog, doctor, crashed>>

Start == owner = "made" /\ (Spawned \/ SpawnFails)

\* Every error after the child runs ends in Shutdown.
ToShutdown ==
    /\ owner' = "asking"
    /\ UNCHANGED <<order, waiter, note, push, readyCh, listening, vmm, kernel,
                   guests, watchdog, doctor, crashed>>

\* jailedPID: the number the jailer wrote, or five seconds without one.
JailedPID ==
    /\ owner = "piping"
    /\ \/ /\ pidFile
          /\ owner' = "piped" /\ waiter' = TRUE
          /\ push' = IF kind = "boot" THEN "trying" ELSE "idle"
          /\ UNCHANGED <<order, note, readyCh, listening, vmm, kernel, guests,
                         watchdog, doctor, crashed>>
       \/ ~pidFile /\ ToShutdown

\* A boot confirms its slice and writes sandbox.json; a restore waits for the
\* API socket, confirms the slice, stages and loads the snapshot and resumes
\* it: the guest is up at once and holds the credential it was frozen with.
Confirmed ==
    /\ owner = "piped"
    /\ \/ /\ kind = "boot" /\ owner' = "waiting" /\ record' = TRUE
          /\ UNCHANGED <<guest, cred, push>>
       \/ /\ kind = "restore" /\ vmm = "up" /\ owner' = "handing"
          /\ guest' \in {"listening", "old"} /\ cred' = "frozen"
          /\ push' = "trying" /\ UNCHANGED record
    /\ UNCHANGED <<order, waiter, note, readyCh, listening, vmm, pidFile, dir,
                   tap, table, slice, flushed, watchdog, doctor, crashed>>

ConfirmFails == owner = "piped" /\ ToShutdown

---------------------------------------------------------------------------
(* The channel credential.                                                  *)

Pushed(result, held) ==
    /\ push' = result /\ cred' = held
    /\ UNCHANGED <<order, owner, waiter, note, readyCh, listening, vmm, kernel,
                   guest, flushed, watchdog, doctor, crashed>>

\* One attempt that reaches the guest: it stores the value, and the answer
\* arrives or is lost, in which case the loop tries again.
TryPushCredential ==
    /\ push = "trying" /\ vmm = "up" /\ guest = "listening"
    /\ Pushed("done", "current") \/ Pushed("trying", "current")

\* A supervisor that does not know the op: the channel is closed once.
PushUnsupported ==
    push = "trying" /\ vmm = "up" /\ guest = "old" /\ Pushed("unsupported", cred)

\* The machine ended, or the time given to the loop passed.
PushGivesUp == push = "trying" /\ Pushed("failed", cred)

\* The first frame of a connection is this session's credential.
Authentic == cred = "current"

\* The guest's ready pump: the host takes the message only on a connection
\* whose first frame is this session's credential.
GuestReady ==
    /\ vmm = "up" /\ guest = "listening" /\ listening /\ Authentic
    /\ ~readyCh /\ readyCh' = TRUE
    /\ UNCHANGED <<order, owner, waiter, note, push, listening, vmm, kernel,
                   guests, watchdog, doctor, crashed>>

\* WaitReady: the ready message with the filter and the profile in force; or
\* any of the four ways it ends in Shutdown (by itself or by run's defer).
WaitReady ==
    /\ owner = "waiting"
    /\ \/ /\ readyCh /\ owner' = "up" /\ readyCh' = FALSE /\ record' = TRUE
          /\ UNCHANGED <<order, waiter, note, push, listening, vmm, pidFile,
                         dir, tap, table, slice, guests, watchdog, doctor,
                         crashed>>
       \/ ToShutdown

\* The end of Restore: the credential was taken, the guest resynced and the
\* filter confirmed, which is when the state record is written; or Shutdown.
RestoreDone ==
    /\ owner = "handing" /\ push # "trying"
    /\ \/ /\ push = "done" /\ vmm = "up" /\ owner' = "up" /\ record' = TRUE
          /\ UNCHANGED <<order, waiter, note, push, readyCh, listening, vmm,
                         pidFile, dir, tap, table, slice, guests, watchdog,
                         doctor, crashed>>
       \/ ToShutdown

\* The run is over: its command ended, its budget, a signal, a broken record,
\* the machine's own end.
EndRun == owner = "up" /\ ToShutdown

---------------------------------------------------------------------------
(* Shutdown.                                                                *)

\* The jail directory, with the state record and the pid file in it.
JailRemoved == dir' = FALSE /\ record' = FALSE /\ pidFile' = FALSE

Stop(step, refused) ==
    /\ owner' = step /\ note' = (note \/ refused)
    /\ UNCHANGED <<order, waiter, push, readyCh, listening, vmm, kernel,
                   guests, watchdog, doctor, crashed>>

\* Mutant: a handshake that could not be made leaves no note.
AskForgetsNote ==
    /\ owner = "asking"
    /\ IF Done THEN Stop("closing", FALSE)
       ELSE Stop("handshake", FALSE) \/ Stop("term", FALSE)

\* The child has ended already, or the guest is asked, or cannot be.
Ask ==
    /\ owner = "asking"
    /\ IF Done THEN Stop("closing", FALSE)
       ELSE Stop("handshake", FALSE) \/ Stop("term", TRUE)

\* requestShutdown: an OK and then the end of the VMM within the grace, or an
\* error of any kind, after which the VMM is signalled.
RequestShutdown ==
    /\ owner = "handshake"
    /\ \/ guest = "halting" /\ Done /\ Stop("closing", FALSE)
       \/ Stop("term", TRUE)

\* The two graces and the last wait, which has no timer.
AwaitExit ==
    \/ owner \in {"term", "kill", "last"} /\ Done /\ Stop("closing", FALSE)
    \/ owner = "term" /\ ~Done /\ Stop("kill", FALSE)
    \/ owner = "kill" /\ ~Done /\ Stop("last", FALSE)

\* Mutant: the teardown leaves the watchdog polling.
CleanUpLeavesWatchdog ==
    /\ owner = "closing"
    /\ owner' = "closed" /\ listening' = FALSE
    /\ tap' = FALSE /\ table' = FALSE
    /\ JailRemoved
    /\ UNCHANGED <<order, waiter, note, push, readyCh, vmm, slice, guests,
                   watchdog, doctor, crashed>>

\* After the child: the workspace leaves the jail, the listeners, the network
\* and the watchdog go, and the jail directory with all it holds.
CleanUp ==
    /\ owner = "closing"
    /\ owner' = "closed" /\ listening' = FALSE
    /\ tap' = FALSE /\ table' = FALSE
    /\ watchdog' = IF watchdog = "watching" THEN "gone" ELSE watchdog
    /\ JailRemoved
    /\ UNCHANGED <<order, waiter, note, push, readyCh, vmm, slice, guests,
                   doctor, crashed>>

\* The command returns: the slice is closed and the process exits.
RunReturns ==
    /\ owner = "closed"
    /\ owner' = "ended" /\ slice' = FALSE
    /\ UNCHANGED <<order, waiter, note, push, readyCh, listening, vmm, pidFile,
                   dir, record, tap, table, guests, watchdog, doctor, crashed>>

---------------------------------------------------------------------------
(* The VMM and the guest.                                                   *)

JailerWritesPid ==
    /\ jailed /\ vmm = "up" /\ dir /\ ~pidFile /\ pidFile' = TRUE
    /\ UNCHANGED <<order, owner, waiter, note, push, readyCh, listening, vmm,
                   dir, record, tap, table, slice, guests, watchdog, doctor,
                   crashed>>

GuestBoots ==
    /\ vmm = "up" /\ guest = "booting" /\ guest' \in {"listening", "old"}
    /\ UNCHANGED <<order, owner, waiter, note, push, readyCh, listening, vmm,
                   kernel, cred, flushed, watchdog, doctor, crashed>>

\* The control channel's shutdown: the workspace is flushed before the
\* answer, and a flush that fails is refused (the host's error branch).
GuestFlushes ==
    /\ owner = "handshake" /\ vmm = "up" /\ guest \in {"listening", "old"}
    /\ guest' = "halting" /\ flushed' = TRUE
    /\ UNCHANGED <<order, owner, waiter, note, push, readyCh, listening, vmm,
                   kernel, cred, watchdog, doctor, crashed>>

Ends(own) ==
    /\ vmm = "up" /\ vmm' = "dead" /\ crashed' = (crashed \/ own)
    /\ UNCHANGED <<order, owner, waiter, note, push, readyCh, listening, kernel,
                   guests, watchdog, doctor>>

\* The guest's halt, the host's signals (SIGKILL is not refused), or the
\* machine's own end.
Halts     == guest = "halting" /\ Ends(FALSE)
Signalled == owner \in {"term", "kill", "last"} /\ Ends(FALSE)
Crashes   == Ends(TRUE)

---------------------------------------------------------------------------
(* The owner is killed: no defer runs.  The parent-death signal takes an    *)
(* unjailed VMM with it; a jailed one survives its wrapper.                 *)

KillOwner ==
    /\ owner \in Live
    /\ owner' = "dead" /\ waiter' = FALSE /\ listening' = FALSE
    /\ vmm' = IF vmm = "up" /\ ~jailed THEN "dead" ELSE vmm
    /\ push' = IF push = "trying" THEN "failed" ELSE push
    /\ UNCHANGED <<order, note, readyCh, kernel, guests, watchdog, doctor, crashed>>

\* Mutant: the watchdog kills the VMM and forgets the network.
WatchdogKillsOnly ==
    /\ watchdog = "watching" /\ owner \notin Live
    /\ watchdog' = "gone"
    /\ vmm' = IF pidFile /\ vmm = "up" THEN "dead" ELSE vmm
    /\ JailRemoved
    /\ UNCHANGED <<order, owner, waiter, note, push, readyCh, listening, slice,
                   tap, table, guests, doctor, crashed>>

\* The watchdog's loop: its parent is gone, so the machine it can name by its
\* pid file is killed and its network and directory removed; or the VMM is
\* gone under a live parent, and the watchdog leaves.
WatchdogCleans ==
    /\ watchdog = "watching" /\ owner \notin Live
    /\ watchdog' = "gone"
    /\ vmm' = IF pidFile /\ vmm = "up" THEN "dead" ELSE vmm
    /\ tap' = FALSE /\ table' = FALSE
    /\ JailRemoved
    /\ UNCHANGED <<order, owner, waiter, note, push, readyCh, listening, slice,
                   guests, doctor, crashed>>

WatchdogLeaves ==
    /\ watchdog = "watching" /\ owner \in Live /\ pidFile /\ vmm = "dead"
    /\ watchdog' = "gone"
    /\ UNCHANGED <<order, owner, waiter, note, push, readyCh, listening, vmm,
                   kernel, guests, doctor, crashed>>

---------------------------------------------------------------------------
(* kelyfos doctor --reap-orphaned, which looks at a host that goes on: it    *)
(* reads the process table, then lists the TAPs and then the tables, judging *)
(* each by the processes it read, and acts on what it listed later still.    *)

\* The processes of this machine that /proc shows now.
Present == {p \in {"owner", "vmm"} :
               \/ p = "owner" /\ owner \in Live
               \/ p = "vmm" /\ vmm = "up"}

Looks(stage, read, list) ==
    /\ scan' = stage /\ seen' = read /\ found' = list
    /\ UNCHANGED <<order, owner, waiter, note, push, readyCh, listening, vmm,
                   kernel, guests, watchdog, missed, crashed>>

\* The names in /proc; then each process is read by itself, and one that has
\* ended by then is left out, as one that ended after it was read is not.
ReadDir     == scan = "off" /\ Looks("reading", Present, {})
ReadGone(p) == scan = "reading" /\ p \in seen \ Present /\ Looks("reading", seen \ {p}, {})

\* Mutant: only a VMM claims network residue.
ClaimedByVMM == "vmm" \in seen

\* Network residue is claimed by a VMM of that id that was read, orphaned or
\* not, or by a kelyfos that was read, is still there, and has a KELYFOS_CACHE
\* that now holds the run directory.
Claimed == "vmm" \in seen \/ ("owner" \in seen \cap Present /\ cacheEnv /\ dir)

\* A VMM of ours, by its chroot or its argv, with no kelyfos above it in what
\* was read.
OrphanedVMM == "vmm" \in seen /\ "owner" \notin seen

\* A listing (ip, or nft under sudo) that fails names nothing.
Residue(name, there) == {{}, IF there /\ ~Claimed THEN {name} ELSE {}}

ListTAPs ==
    /\ scan = "reading"
    /\ \E taps \in Residue("tap", tap) :
          Looks("tables", seen, taps \cup (IF OrphanedVMM THEN {"vmm"} ELSE {}))

ListTables ==
    /\ scan = "tables"
    /\ \E tables \in Residue("table", table) :
          LET list == found \cup tables
          IN  Looks(IF list = {} THEN "off" ELSE "listed", {}, list)

\* Nobody asked to reap, or doctor is interrupted.
DoctorEnds == scan # "off" /\ Looks("off", {}, {})

\* The state record names the process the scan saw.
Corroborated == record /\ vmm = "up"

\* A listed VMM is stopped if the state record names it; the network of the
\* id goes in any case, without another look at who uses it, the directory
\* when a VMM told where it is.
ReapOrphans ==
    /\ scan = "listed"
    /\ scan' = "off" /\ found' = {}
    /\ vmm' = IF "vmm" \in found /\ Corroborated THEN "dead" ELSE vmm
    /\ tap' = FALSE /\ table' = FALSE
    /\ dir' = (dir /\ "vmm" \notin found)
    /\ record' = (record /\ "vmm" \notin found)
    /\ pidFile' = (pidFile /\ "vmm" \notin found)
    /\ UNCHANGED <<order, owner, waiter, note, push, readyCh, listening, slice,
                   guests, watchdog, seen, missed, crashed>>

---------------------------------------------------------------------------
PrepareStep  == Claim \/ NetUp \/ RestrictNet \/ NewMachine \/ Start
BootStep     == JailedPID \/ Confirmed \/ ConfirmFails \/ WaitReady \/ RestoreDone \/ EndRun
ShutdownStep == Ask \/ RequestShutdown \/ AwaitExit \/ CleanUp \/ RunReturns
PushStep     == TryPushCredential \/ PushUnsupported \/ PushGivesUp \/ GuestReady
GuestStep    == JailerWritesPid \/ GuestBoots \/ GuestFlushes \/ Halts \/ Signalled \/ Crashes
KillStep     == KillOwner \/ WatchdogCleans \/ WatchdogLeaves
DoctorStep   == \/ ReadDir \/ (\E p \in {"owner", "vmm"} : ReadGone(p)) \/ ListTAPs
                \/ ListTables \/ DoctorEnds \/ ReapOrphans

MachineNext ==
    \/ PrepareStep \/ BootStep \/ ShutdownStep
    \/ PushStep \/ GuestStep \/ KillStep \/ DoctorStep

\* Shutdown runs on timers and SIGKILL is delivered; the watchdog polls and
\* is signalled; nothing obliges a run to end, a guest to answer or anybody
\* to run doctor.
MachineFair ==
    /\ WF_machineVars(ShutdownStep) /\ WF_machineVars(Signalled) /\ WF_machineVars(WatchdogCleans)

MachineSpec == MachineInit /\ [][MachineNext]_machineVars /\ MachineFair

---------------------------------------------------------------------------
(* Properties.                                                              *)

\* Two named resources of a machine: what a teardown or a watchdog frees.
Freed == vmm # "up" /\ ~tap /\ ~table /\ ~dir

\* A machine that was begun keeps its run directory, and its network from New on.
Whole ==
    /\ owner \in Live \ {"closed"} => dir
    /\ owner \in Live \ {"claimed", "netted", "closed"} =>
           tap = wantNet /\ table = wantNet

\* A booting or running machine whose claim doctor can see keeps its run
\* directory and its network whatever doctor and the watchdog do meanwhile,
\* whenever /proc is read, the TAPs and tables are listed and the list acted
\* on (run.go:323, orphan.go:177): unless it began while a scan was under way.
InUseIntact == (kind = "boot" /\ cacheEnv /\ ~missed) => Whole

\* Once Shutdown has returned nothing the machine made is left on the host
\* (sandbox.go:1617 "removes everything it created"), unless it was killed.
NothingLeft ==
    owner \in {"closed", "ended"} => /\ Freed /\ ~record /\ ~pidFile
                                     /\ ~listening /\ watchdog # "watching"

\* A machine handed to its caller holds the credential minted for it, so its
\* channels are accepted; a restored one never keeps the frozen value.
UpIsAuthenticated == owner = "up" => cred = "current" /\ dir

\* The run may write the workspace back when Shutdown left no note: then the
\* guest flushed it, unless the VMM had ended on its own (sandbox.go:1612).
NoteTruthful ==
    (owner \in {"closed", "ended"} /\ ~note /\ cred = "current" /\ ~crashed)
        => flushed

\* A machine is called up only when its guest holds this session's credential, and one
\* that ended, or was never made, leaves nothing behind (Shutdown, cleanup, WaitReady).
MachineSafe == MachineTypeOK /\ NothingLeft /\ UpIsAuthenticated

\* What the proof adds to them.  Before its child runs a machine has nothing to lose:
\* no VMM, no credential, no push.  The boot's last step, Shutdown's, is reached without a VMM.
BeforeStart == {"idle", "claimed", "netted", "fenced", "made"}
NotYet ==
    /\ owner \in BeforeStart \cup {"refused"} => vmm = "none"
    /\ owner \in {"closing", "closed", "ended"} => vmm # "up"
    /\ owner \in BeforeStart \cup (IF kind = "restore" THEN {"piping", "piped"} ELSE {}) =>
           cred = "none" /\ push = "idle"
    /\ owner = "idle" => ~tap /\ ~table /\ found = {}

\* What was pushed, or said, was pushed or said with this session's credential.
Minted == (readyCh \/ push = "done") => cred = "current"

\* The stages of a scan: it has found nothing while it reads, and something when it has
\* listed; processes are kept only in between.
ScanStages ==
    /\ scan \in {"off", "listed"} => seen = {}
    /\ scan \in {"off", "reading"} => found = {}
    /\ scan = "listed" => found # {}

\* What a scan goes by: no VMM without the live owner above it, and, once the
\* owner has begun, the owner itself unless the scan missed its beginning.  It lists the VMM
\* of a dead owner only, and nothing of a machine doctor can see.
ScanKept ==
    /\ "vmm" \in seen /\ owner \in Live => "owner" \in seen
    /\ scan \in {"reading", "tables"} /\ owner \in Live /\ ~missed => "owner" \in seen
    /\ "vmm" \in seen => owner \notin BeforeStart
    /\ "vmm" \in found => owner \notin Live \cup {"idle"}
    /\ kind = "boot" /\ cacheEnv /\ ~missed /\ owner \in Live \ {"closed"} => found = {}

\* A machine keeps its directory from its claim on, or from New; and its TAP.
Holds ==
    /\ owner \in Live \ {"claimed", "netted", "fenced", "closed"} => dir
    /\ kind = "boot" /\ owner \in Live \ {"closed"} => dir
    /\ kind = "boot" /\ cacheEnv /\ ~missed /\ owner = "netted" => tap = wantNet

\* A VMM that is gone before anybody signalled it flushed, or crashed; one that was
\* signalled left a note.
EndKnown ==
    /\ guest = "halting" => flushed
    /\ owner \in Live \ {"term", "kill", "last", "closing", "closed"} /\ vmm = "dead" =>
           crashed \/ flushed
    /\ owner \in {"term", "kill", "last"} => note
    /\ owner \in {"closing", "closed", "ended"} =>
           note \/ cred # "current" \/ crashed \/ flushed

MachineInv == MachineSafe /\ InUseIntact /\ NoteTruthful
              /\ NotYet /\ Minted /\ ScanStages /\ ScanKept /\ Holds /\ EndKnown

\* An owner killed beside its watchdog, once the pid file and the state record
\* are written, leaves nothing, whoever of the watchdog and doctor acts first;
\* and every Shutdown that has a waiting goroutine ends (watchdog.go:76,
\* sandbox.go:1626).
Reclaimed ==
    /\ (/\ owner = "dead" /\ watchdog = "watching"
        /\ vmm = "up" => pidFile /\ record) ~> Freed
    /\ (owner \in Stopping /\ waiter) ~> (owner \in {"ended", "dead"})

\* What the comments promise beyond that: orphan.go:43 of any machine that is
\* booting, with or without a cache that doctor can read, or whenever it began;
\* sandbox.go:1612 of any nil note, sandbox.go:1617 of any Shutdown.
NeverMissed == (kind = "boot" /\ cacheEnv) => Whole
MidBootClaimed == owner \in Live \ {"claimed", "netted", "closed"} => tap = wantNet
NoteMeansFlushed == (owner = "ended" /\ ~note /\ cred = "current") => flushed
ShutdownReturns == (owner \in Stopping) ~> (owner \in {"ended", "dead"})
=============================================================================
