-------------------------------- MODULE TeamRig --------------------------------
(***************************************************************************)
(* A team raised and retired by one process (host/team.go): raiseTeam,     *)
(* the agents and workers it boots, the roster and the state file other    *)
(* commands read, the timers of max_runtime and lifetime, the fork         *)
(* template built behind the team, and teardown.                           *)
(*                                                                         *)
(* Every `go` statement of the code is a process here: a boot, a spawn     *)
(* (run by the guest's request), a timer and the template build interleave *)
(* with the goroutine that raises the team and takes it down.  What a      *)
(* machine does while it boots or stops is module Machine; the broker that *)
(* grants a spawn is module TeamBroker.                                    *)
(*                                                                         *)
(* Bound: a behaviour raises one team, and a worker's name is used once.   *)
(***************************************************************************)
EXTENDS FiniteSets, Integers, Sequences, SequencesExt, Lists

CONSTANTS
    Agents,      \* the declared agents, as a sequence in declared order
    Workers,     \* names the broker may grant to spawned workers
    Timed,       \* members with a max_runtime or a lifetime
    Workspaces,  \* agents with a workspace
    NoFile       \* there is no state file

Declared == Range(Agents)
Members  == Declared \cup Workers

ASSUME RigAssumption ==
    /\ Agents \in Seq(Declared) /\ IsInjective(Agents)
    /\ Declared \cap Workers = {}
    /\ Timed \subseteq Members
    /\ Workspaces \subseteq Declared

VARIABLES
    rig,        \* where raiseTeam, or down, has got to
    cancelled,  \* the team's context is cancelled
    member,     \* each member's machine
    listed,     \* the roster: members in the order they were added
    started,    \* roster.started is set: the state file has been written once
    adding,     \* workers added to the roster whose write is still to come
    timer,      \* each member's timer goroutine
    todo,       \* the snapshot teardown is working through
    file,       \* the members named by the state file, or NoFile
    unwritten,  \* the last write of the state file failed, and it was not removed since
    chain,      \* the team's record
    work,       \* what became of each workspace
    template,   \* the machine of the fork template
    late        \* workers that were not in the roster when teardown read it

rigVars == <<rig, cancelled, member, listed, started, adding, timer, todo, file,
             unwritten, chain, work, template, late>>

RigInit ==
    /\ rig = "none"
    /\ cancelled = FALSE
    /\ member = [m \in Members |-> "none"]
    /\ listed = <<>>
    /\ started = FALSE
    /\ adding = {}
    /\ timer = [m \in Members |-> "off"]
    /\ todo = <<>>
    /\ file = NoFile
    /\ unwritten = FALSE
    /\ chain = "none"
    /\ work = [m \in Workspaces |-> "host"]
    /\ template = "none"
    /\ late = {}

--------------------------------------------------------------------------------
(* Raising the team                                                             *)

\* raiseTeam up to the boots: the plan is good, the record is open, and every
\* declared agent is booted in a goroutine of its own, cold or from a template.
\* An agent's workspace is packed into an image first.
Raise ==
    /\ rig = "none"
    /\ rig' = "booting"
    /\ chain' = "open"
    /\ member' = [m \in Members |-> IF m \in Declared THEN "booting" ELSE "none"]
    /\ work' = [m \in Workspaces |-> "image"]
    /\ UNCHANGED <<cancelled, listed, started, adding, timer, todo, file, unwritten,
                   template, late>>

\* The store or the cgroup cannot be made: nothing has booted, and the record
\* that was opened is ended.
RaiseRefused ==
    /\ rig = "none"
    /\ rig' = "down"
    /\ chain' = "ended"
    /\ cancelled' = TRUE
    /\ UNCHANGED <<member, listed, started, adding, timer, todo, file, unwritten, work,
                   template, late>>

\* bootAgent and forkAgent return a machine that answered.
BootSucceeds(m) ==
    /\ member[m] = "booting"
    /\ member' = [member EXCEPT ![m] = "up"]
    /\ UNCHANGED <<rig, cancelled, listed, started, adding, timer, todo,
                   file, unwritten, chain, work, template, late>>

\* bootAgent fails, for any reason or because the context was cancelled: its
\* deferred call stops what had started and removes the packed image.
BootFails(m) ==
    /\ member[m] = "booting"
    /\ member' = [member EXCEPT ![m] = "failed"]
    /\ work' = [a \in Workspaces |-> IF a = m THEN "host" ELSE work[a]]
    /\ UNCHANGED <<rig, cancelled, listed, started, adding, timer, todo,
                   file, unwritten, chain, template, late>>

Up(m) == member[m] = "up"

\* All boots have returned: the machines that are up join the roster in declared
\* order, and one that failed fails the team.
Collect ==
    /\ rig = "booting"
    /\ \A a \in Declared : member[a] # "booting"
    /\ listed' = listed \o Kept(Agents, {a \in Declared : Up(a)})
    /\ rig' = IF \A a \in Declared : Up(a) THEN "collected" ELSE "ending"
    /\ UNCHANGED <<cancelled, member, started, adding, timer, todo, file, unwritten,
                   chain, work, template, late>>

\* The team's cgroup does not hold its budget.
ConfirmFails ==
    /\ rig = "collected"
    /\ rig' = "ending"
    /\ UNCHANGED <<cancelled, member, listed, started, adding, timer, todo,
                   file, unwritten, chain, work, template, late>>

\* roster.write: the file names the roster as it is when the lock is held, or
\* any of its steps fails and the file stays what it was.  It dates the team first.
WriteState(ok) ==
    /\ started' = TRUE
    /\ file' = IF ok THEN Range(listed) ELSE file
    /\ unwritten' = ~ok

\* Timers are armed, a missing template is built behind the team, and the
\* roster is written for the other commands to read.
Publish(builds, written) ==
    /\ rig = "collected"
    /\ timer' = [m \in Members |-> IF m \in Declared \cap Timed THEN "armed"
                                   ELSE timer[m]]
    /\ template' = IF builds THEN "building" ELSE "none"
    /\ WriteState(written)
    /\ rig' = IF written THEN "raised" ELSE "ending"
    /\ UNCHANGED <<cancelled, member, listed, adding, todo, chain, work,
                   late>>

--------------------------------------------------------------------------------
(* Workers                                                                      *)

\* The broker grants a worker to an agent whose machine is up and OnSpawn boots
\* it.  A boot under a cancelled context fails before there is a machine.
Spawn(w) ==
    /\ member[w] = "none"
    /\ ~cancelled
    /\ \E a \in Declared : Up(a)
    /\ member' = [member EXCEPT ![w] = "booting"]
    /\ late' = IF rig \in {"stopping", "removed"} THEN late \cup {w} ELSE late
    /\ UNCHANGED <<rig, cancelled, listed, started, adding, timer, todo,
                   file, unwritten, chain, work, template>>

\* crew.add: the worker joins the roster; whether the file is written again was
\* read under the same lock.
Add(w) ==
    /\ Up(w) /\ w \notin Range(listed) /\ timer[w] = "off"
    /\ listed' = Append(listed, w)
    /\ adding' = IF started THEN adding \cup {w} ELSE adding
    /\ timer' = [timer EXCEPT ![w] = IF started THEN "adding"
                                     ELSE IF w \in Timed THEN "armed" ELSE "done"]
    /\ UNCHANGED <<rig, cancelled, member, started, todo, file, unwritten, chain, work,
                   template, late>>

\* The second half of crew.add, and of roster.remove below: both drop the error
\* of the write.
AddWrites(w, ok) ==
    /\ w \in adding
    /\ adding' = adding \ {w}
    /\ WriteState(ok)
    /\ timer' = [timer EXCEPT ![w] = IF w \in Timed THEN "armed" ELSE "done"]
    /\ UNCHANGED <<rig, cancelled, member, listed, todo, chain, work, template,
                   late>>

--------------------------------------------------------------------------------
(* Timers: the member leaves the roster, the file is written, the machine stops *)

Without(m) == Kept(listed, Members \ {m})

TimerFires(m) ==
    /\ timer[m] = "armed"
    /\ timer' = [timer EXCEPT ![m] = "removed"]
    /\ listed' = Without(m)
    /\ UNCHANGED <<rig, cancelled, member, started, adding, todo, file, unwritten,
                   chain, work, template, late>>

TimerWrites(m, ok) ==
    /\ timer[m] = "removed"
    /\ timer' = [timer EXCEPT ![m] = "stopping"]
    /\ WriteState(ok)
    /\ UNCHANGED <<rig, cancelled, member, listed, adding, todo, chain, work,
                   template, late>>

\* The timer's select sees the cancelled context first.
TimerQuits(m) ==
    /\ timer[m] = "armed" /\ cancelled
    /\ timer' = [timer EXCEPT ![m] = "done"]
    /\ UNCHANGED <<rig, cancelled, member, listed, started, adding, todo,
                   file, unwritten, chain, work, template, late>>

--------------------------------------------------------------------------------
(* Stopping a member: agentRig.stop, once whoever calls it                      *)

CallsStop(m) ==
    \/ timer[m] = "stopping"
    \/ rig = "stopping" /\ todo # <<>> /\ Last(todo) = m

\* once.Do: the first caller shuts the machine down.
StopBegins(m) ==
    /\ CallsStop(m)
    /\ Up(m)
    /\ member' = [member EXCEPT ![m] = "stopping"]
    /\ UNCHANGED <<rig, cancelled, listed, started, adding, timer, todo,
                   file, unwritten, chain, work, template, late>>

\* The machine is gone; its workspace is written back and the image removed,
\* whether or not the write-back succeeded.
StopEnds(m, synced) ==
    /\ member[m] = "stopping"
    /\ member' = [member EXCEPT ![m] = "stopped"]
    /\ work' = [a \in Workspaces |-> IF a # m THEN work[a]
                                     ELSE IF synced THEN "back" ELSE "lost"]
    /\ UNCHANGED <<rig, cancelled, listed, started, adding, timer, todo,
                   file, unwritten, chain, template, late>>

\* Both callers return when the one stop has.
TimerDone(m) ==
    /\ timer[m] = "stopping" /\ member[m] = "stopped"
    /\ timer' = [timer EXCEPT ![m] = "done"]
    /\ UNCHANGED <<rig, cancelled, member, listed, started, adding, todo,
                   file, unwritten, chain, work, template, late>>

--------------------------------------------------------------------------------
(* The fork template                                                            *)

\* bootTemplate fails and has stopped its machine, or the template was stored
\* meanwhile by another team.
TemplateFails ==
    /\ template = "building"
    /\ template' = "gone"
    /\ UNCHANGED <<rig, cancelled, member, listed, started, adding, timer,
                   todo, file, unwritten, chain, work, late>>

\* storeTemplate has a snapshot, which it renames into the cache, or removes when
\* the team is coming down; the goroutine that stops the machine is not awaited.
StoreTemplate ==
    /\ template = "building"
    /\ template' = "stopping"
    /\ UNCHANGED <<rig, cancelled, member, listed, started, adding, timer,
                   todo, file, unwritten, chain, work, late>>

TemplateGone ==
    /\ template = "stopping"
    /\ template' = "gone"
    /\ UNCHANGED <<rig, cancelled, member, listed, started, adding, timer,
                   todo, file, unwritten, chain, work, late>>

--------------------------------------------------------------------------------
(* Taking the team down                                                         *)

\* teamRig.down: the context is cancelled before anything is stopped.
Down ==
    /\ rig = "raised"
    /\ rig' = "ending"
    /\ cancelled' = TRUE
    /\ UNCHANGED <<member, listed, started, adding, timer, todo, file, unwritten, chain,
                   work, template, late>>

\* Mutant: teardown stops the declared agents and forgets the workers.
SnapshotOfAgents ==
    /\ rig = "ending"
    /\ rig' = "stopping"
    /\ todo' = Kept(listed, Declared)
    /\ late' = {w \in Workers : member[w] \in {"booting", "up"}} \ Range(listed)
    /\ UNCHANGED <<cancelled, member, listed, started, adding, timer, file,
                   unwritten, chain, work, template>>

\* teardown reads the roster once.
Snapshot ==
    /\ rig = "ending"
    /\ rig' = "stopping"
    /\ todo' = listed
    /\ late' = {w \in Workers : member[w] \in {"booting", "up"}} \ Range(listed)
    /\ UNCHANGED <<cancelled, member, listed, started, adding, timer, file, unwritten,
                   chain, work, template>>

\* Stopped in reverse order, each before the next.
StopNext ==
    /\ rig = "stopping" /\ todo # <<>>
    /\ member[Last(todo)] = "stopped"
    /\ todo' = Front(todo)
    /\ UNCHANGED <<rig, cancelled, member, listed, started, adding, timer,
                   file, unwritten, chain, work, template, late>>

\* templates.Wait, the cgroup closed, the state file removed.
RemoveState ==
    /\ rig = "stopping" /\ todo = <<>>
    /\ template # "building"
    /\ rig' = "removed"
    /\ file' = NoFile /\ unwritten' = FALSE
    /\ UNCHANGED <<cancelled, member, listed, started, adding, timer, todo,
                   chain, work, template, late>>

\* endRecord; a team that never came up cancels its context only now.
EndRecord ==
    /\ rig = "removed"
    /\ rig' = "down"
    /\ chain' = "ended"
    /\ cancelled' = TRUE
    /\ UNCHANGED <<member, listed, started, adding, timer, todo, file, unwritten, work,
                   template, late>>

--------------------------------------------------------------------------------
\* What the goroutines of the rig do on their own.
RaiseSteps == Collect \/ ConfirmFails
              \/ \E b, ok \in BOOLEAN : Publish(b, ok)
DownSteps  == Snapshot \/ StopNext \/ RemoveState \/ EndRecord
MemberStep(m) ==
    \/ BootSucceeds(m) \/ BootFails(m)
    \/ StopBegins(m) \/ \E ok \in BOOLEAN : StopEnds(m, ok)
    \/ TimerFires(m) \/ TimerQuits(m) \/ TimerDone(m)
    \/ \E ok \in BOOLEAN : TimerWrites(m, ok)
WorkerStep(w) == Spawn(w) \/ Add(w) \/ \E ok \in BOOLEAN : AddWrites(w, ok)
TemplateStep  == TemplateFails \/ StoreTemplate \/ TemplateGone

RigStep ==
    \/ RaiseSteps \/ DownSteps \/ TemplateStep
    \/ \E m \in Members : MemberStep(m)
    \/ \E w \in Workers : WorkerStep(w)

\* What must go on happening: goroutines run, machines boot or fail within their
\* timeout, and a stop ends (Machine); a timer need not fire and an agent need not
\* spawn.
RigProgress ==
    \/ RaiseSteps \/ DownSteps \/ TemplateStep
    \/ \E m \in Members :
         \/ BootSucceeds(m) \/ BootFails(m) \/ StopBegins(m)
         \/ \E ok \in BOOLEAN : StopEnds(m, ok) \/ TimerWrites(m, ok)
         \/ TimerDone(m)
    \/ \E w \in Workers : Add(w) \/ \E ok \in BOOLEAN : AddWrites(w, ok)

--------------------------------------------------------------------------------
RigTypeOK ==
    /\ rig \in {"none", "booting", "collected", "ending", "raised", "stopping",
                "removed", "down"}
    /\ cancelled \in BOOLEAN /\ started \in BOOLEAN /\ unwritten \in BOOLEAN
    /\ member \in [Members -> {"none", "booting", "up", "failed", "stopping", "stopped"}]
    /\ Range(listed) \subseteq Members /\ Range(todo) \subseteq Members
    /\ adding \subseteq Workers /\ late \subseteq Workers
    /\ timer \in [Members -> {"off", "adding", "armed", "removed", "stopping", "done"}]
    /\ file = NoFile \/ file \subseteq Members
    /\ chain \in {"none", "open", "ended"}
    /\ work \in [Workspaces -> {"host", "image", "back", "lost"}]
    /\ template \in {"none", "building", "stopping", "gone"}

\* In the hands of a timer that took it off the roster.
InTimer(m) == timer[m] \in {"removed", "stopping"}

\* Once the team is down no machine of it is left running by those who were to
\* stop it: every agent failed to boot, is stopped, or is in the hands of its own
\* timer, and so is every worker the roster named when teardown read it.
\* (agentRig.stop and teardown, host/team.go:380-403.)
DownMeansStopped ==
    rig = "down" =>
        \A m \in Members \ late :
            member[m] \in {"none", "failed", "stopped"} \/ InTimer(m)

\* No write of the state file is under way.
Quiet == adding = {} /\ \A m \in Members : timer[m] # "removed"

\* While the team is up and no write is under way, the state file names exactly
\* the members on the roster, whichever adds and timers raced for it
\* (roster.write takes the roster under the lock, host/team.go:1315), if the last
\* write did not fail.
FileIsRoster == rig = "raised" /\ Quiet /\ ~unwritten => file = Range(listed)

\* Whichever writes failed, and whenever they were made, the file names nobody who
\* is not a machine that booted (what team ps and team down go by).
FileBooted ==
    file # NoFile => \A m \in file : member[m] \in {"up", "stopping", "stopped"}

\* The roster names a member once, and only one that booted.
RosterSound ==
    /\ IsInjective(listed)
    /\ \A m \in Range(listed) : member[m] \in {"up", "stopping", "stopped"}

\* A workspace is in an image exactly while its agent's machine exists or is being
\* made, and it is written back at most once, when that machine is gone
\* (agentRig.stop runs once, host/team.go:773).
WorkFollowsMachine ==
    \A a \in Workspaces :
        /\ work[a] = "image" => member[a] \in {"booting", "up", "stopping"}
        /\ work[a] \in {"back", "lost"} => member[a] = "stopped"

\* The roster, the state file, the machines and the workspaces of a team agree, while it
\* is up and when it is down (raiseTeam, roster, agentRig.stop, teardown).
RigSafe == RigTypeOK /\ DownMeansStopped /\ FileIsRoster /\ FileBooted
           /\ RosterSound /\ WorkFollowsMachine

\* What the comment on teardown (host/team.go:380) and the answer of team_down
\* promise, and the code does not: every machine of the team is gone.  A worker
\* still booting when the roster was read, or in a timer's hands, runs on.
EveryAgentStopped ==
    rig = "down" => \A m \in Members : member[m] \notin {"booting", "up", "stopping"}

\* And that every workspace has been written back.
EveryWorkspaceBack == rig = "down" => \A a \in Workspaces : work[a] # "lost"

\* And that a team that is up is the one its state file names (host/team.go:1258):
\* the errors of the later writes are dropped.
FileAlwaysRoster == rig = "raised" /\ Quiet => file = Range(listed)

\* A state file never outlives its team; a late add or timer writes it again.
NoStaleFile == rig = "down" => file = NoFile

--------------------------------------------------------------------------------
(* Inductive strengthenings, for HostServerProofs.                              *)

Early == {"none", "booting", "collected"}

\* The roster before the boots are collected, and the timers before it is published.
RosterGrows ==
    /\ listed \in Seq(Members) /\ todo \in Seq(Members)
    /\ rig \in {"none", "booting"} => Range(listed) \subseteq Workers
    /\ rig \in Early => \A a \in Declared : timer[a] = "off"
    /\ rig = "raised" => started
    /\ \A w \in adding : timer[w] = "adding"
    /\ rig # "stopping" => todo = <<>>
    /\ rig = "none" => \A m \in Members : member[m] = "none"
    /\ rig # "booting" => \A a \in Declared : member[a] # "booting"
    /\ rig = "down" => cancelled

\* Until teardown has read the roster, a machine that is up is on it or in its timer's
\* hands, and only timers stop machines.
Rostered ==
    rig \notin {"stopping", "removed", "down"} =>
        /\ \A m \in Members : member[m] = "stopping" => InTimer(m)
        /\ rig \notin {"none", "booting"} =>
             \A a \in Declared : Up(a) => a \in Range(listed) \/ InTimer(a)

\* From then on each is gone, late, in its timer's hands, or still to be stopped.
Retired ==
    rig \in {"stopping", "removed", "down"} =>
        \A m \in Members \ late :
            \/ member[m] \in {"none", "failed", "stopped"} \/ InTimer(m)
            \/ m \in Range(todo)
================================================================================
