------------------------------- MODULE Reaper -------------------------------
(***************************************************************************)
(* PID 1 of a guest and the commands it runs (supervisor/reaper.go,        *)
(* exec.go, halt in control.go): the one goroutine that waits for every    *)
(* child, the requests that start a child and wait for its status, their   *)
(* timeouts, and the shutdown that waits beside the reaper.                *)
(*                                                                         *)
(* The kernel is modelled as far as they depend on it.  A command may      *)
(* leave a descendant behind that holds its output open, in its process    *)
(* group or in a session of its own; a number is free again once no        *)
(* process and no process group has it.  SIGCHLD is not queued.            *)
(***************************************************************************)
EXTENDS Naturals, FiniteSets

CONSTANTS
  Cmds,      \* the exec requests
  Forkers,   \* those whose command may leave a process behind
  Pids,      \* the numbers the kernel hands out
  None,
  MayHalt    \* whether the host asks for a shutdown

ASSUME ReaperAssumption ==
  /\ None \notin Cmds \cup Pids \cup (Cmds \X {"child", "descendant"})
  /\ "reaper" \notin Cmds
  /\ Forkers \subseteq Cmds /\ MayHalt \in BOOLEAN

Procs == (Cmds \X {"child"}) \cup (Forkers \X {"descendant"})
Child(c) == <<c, "child">>
Descendant(c) == <<c, "descendant">>
Family(c) == {p \in Procs : p[1] = c}

VARIABLES
  state, pid, group, \* the kernel's table: each process, its number, its group
  chld,              \* SIGCHLD is pending
  mu, waiters,       \* reaper.mu, reaper.waiters: number -> whose channel
  status,            \* whose exit status was sent on each request's channel
  pc, timer,         \* where each request is; its time.AfterFunc
  victims,           \* whom each request's timeout killed
  halting            \* halt: "no", "grace", "off"

kernel == <<state, pid, group>>
vars == <<kernel, chld, mu, waiters, status, pc, timer, victims, halting>>

Init ==
  /\ state = [p \in Procs |-> "unborn"]
  /\ pid = [p \in Procs |-> None] /\ group = [p \in Procs |-> None]
  /\ chld = FALSE /\ mu = None /\ waiters = [n \in Pids |-> None]
  /\ status = [c \in Cmds |-> None]
  /\ pc = [c \in Cmds |-> "new"] /\ timer = [c \in Cmds |-> "none"]
  /\ victims = [c \in Cmds |-> {}] /\ halting = "no"

---------------------------------------------------------------------------
Exists(p) == state[p] \in {"running", "zombie"}
Free(n) == \A p \in Procs : Exists(p) => pid[p] # n /\ group[p] # n

Start(p, n, g) ==
  /\ state[p] = "unborn" /\ Free(n)
  /\ state' = [state EXCEPT ![p] = "running"]
  /\ pid' = [pid EXCEPT ![p] = n] /\ group' = [group EXCEPT ![p] = g]

\* A process whose parent is PID 1: a command, or what a command that has ended
\* left behind.
Ours(p) == p[2] = "child" \/ state[Child(p[1])] # "running"
Zombies == {p \in Procs : state[p] = "zombie" /\ Ours(p)}

Ends(ps) ==
  /\ state' = [p \in Procs |-> IF p \in ps THEN "zombie" ELSE state[p]]
  /\ chld' = (chld \/ \E p \in ps : Ours(p))

Fork(c, own) == \E n \in Pids :
  /\ c \in Forkers /\ halting # "off" /\ state[Child(c)] = "running"
  /\ Start(Descendant(c), n, IF own THEN n ELSE group[Child(c)])
  /\ UNCHANGED <<chld, mu, waiters, status, pc, timer, victims, halting>>

Exit(p) ==
  /\ halting # "off" /\ state[p] = "running"
  /\ Ends({p})
  /\ UNCHANGED <<pid, group, mu, waiters, status, pc, timer, victims, halting>>

---------------------------------------------------------------------------
At(c, place, next) ==
  /\ halting # "off" /\ pc[c] = place /\ pc' = [pc EXCEPT ![c] = next]

\* startAndRegister: the mutex, the fork and the waiter.
Lock(c) ==
  /\ At(c, "new", "forking")
  /\ mu = None /\ mu' = c
  /\ UNCHANGED <<kernel, chld, waiters, status, timer, victims, halting>>

\* Mutant: the mutex is dropped between the fork and the registration.
StartChild_Unlocked(c) == \E n \in Pids :
  /\ At(c, "forking", "registering")
  /\ Start(Child(c), n, n)
  /\ mu' = None
  /\ UNCHANGED <<chld, waiters, status, timer, victims, halting>>

StartChild(c) == \E n \in Pids :
  /\ At(c, "forking", "registering")
  /\ Start(Child(c), n, n)
  /\ UNCHANGED <<chld, mu, waiters, status, timer, victims, halting>>

\* Mutant: the return on an error leaves the mutex locked.
StartFails_Locked(c) ==
  /\ At(c, "forking", "done")
  /\ UNCHANGED <<kernel, chld, mu, waiters, status, timer, victims, halting>>

StartFails(c) ==
  /\ At(c, "forking", "done")
  /\ mu' = None
  /\ UNCHANGED <<kernel, chld, waiters, status, timer, victims, halting>>

Register(c) ==
  /\ At(c, "registering", "pumping")
  /\ waiters' = [waiters EXCEPT ![pid[Child(c)]] = c]
  /\ mu' = None
  /\ timer' \in {[timer EXCEPT ![c] = t] : t \in {"none", "armed"}}
  /\ UNCHANGED <<kernel, chld, status, victims, halting>>

\* Both streams reach EOF when nobody holds their other ends any more.
OutputEnds(c) ==
  /\ \A p \in Family(c) : state[p] # "running"
  /\ At(c, "pumping", "taking")
  /\ UNCHANGED <<kernel, chld, mu, waiters, status, timer, victims, halting>>

Take(c) ==
  /\ status[c] # None
  /\ At(c, "taking", "forgetting")
  /\ timer' = [timer EXCEPT ![c] = IF @ = "armed" THEN "stopped" ELSE @]
  /\ UNCHANGED <<kernel, chld, mu, waiters, status, victims, halting>>

\* The deferred forget, by number.
Forget(c) ==
  /\ mu = None
  /\ At(c, "forgetting", "done")
  /\ waiters' = [waiters EXCEPT ![pid[Child(c)]] = None]
  /\ UNCHANGED <<kernel, chld, mu, status, timer, victims, halting>>

\* Mutant: kill(-1).
Killed_Everyone(c) == {p \in Procs : Exists(p)}

\* killGroup: the group of that number, or the process if there is no such group.
Killed(c) ==
  LET n == pid[Child(c)]
      g == {p \in Procs : Exists(p) /\ group[p] = n}
  IN  IF g # {} THEN g ELSE {p \in Procs : Exists(p) /\ pid[p] = n}

\* The timer runs until the status has been taken.  Its function has the goroutine
\* to itself, and Stop does not wait for it.
Timeout(c) ==
  /\ halting # "off" /\ timer[c] = "armed"
  /\ timer' = [timer EXCEPT ![c] = "firing"]
  /\ UNCHANGED <<kernel, chld, mu, waiters, status, pc, victims, halting>>

Kill(c) ==
  /\ halting # "off" /\ timer[c] = "firing"
  /\ timer' = [timer EXCEPT ![c] = "fired"]
  /\ victims' = [victims EXCEPT ![c] = {p \in Killed(c) : state[p] = "running"}]
  /\ Ends(Killed(c))
  /\ UNCHANGED <<pid, group, mu, waiters, status, pc, halting>>

---------------------------------------------------------------------------
\* The reaper: each wake-up drains every zombie, under the mutex.
Wake ==
  /\ halting # "off" /\ chld /\ mu = None
  /\ chld' = FALSE /\ mu' = "reaper"
  /\ UNCHANGED <<kernel, waiters, status, pc, timer, victims, halting>>

\* Mutant: one child per signal.
Reap_One(p) ==
  /\ halting # "off" /\ mu = "reaper" /\ p \in Zombies
  /\ state' = [state EXCEPT ![p] = "gone"]
  /\ LET c == waiters[pid[p]] IN
     IF c = None THEN UNCHANGED <<waiters, status>>
     ELSE /\ waiters' = [waiters EXCEPT ![pid[p]] = None]
          /\ status' = [status EXCEPT ![c] = p]
  /\ mu' = None
  /\ UNCHANGED <<pid, group, chld, pc, timer, victims, halting>>
\* Mutant: the waiter stays registered.
Reap_Kept(p) ==
  /\ halting # "off" /\ mu = "reaper" /\ p \in Zombies
  /\ state' = [state EXCEPT ![p] = "gone"]
  /\ LET c == waiters[pid[p]] IN
     status' = IF c = None THEN status ELSE [status EXCEPT ![c] = p]
  /\ UNCHANGED <<pid, group, chld, mu, waiters, pc, timer, victims, halting>>

\* wait4, and deliverLocked: the status goes to the waiter of that number.
Reap(p) ==
  /\ halting # "off" /\ mu = "reaper" /\ p \in Zombies
  /\ state' = [state EXCEPT ![p] = "gone"]
  /\ LET c == waiters[pid[p]] IN
     IF c = None THEN UNCHANGED <<waiters, status>>
     ELSE /\ waiters' = [waiters EXCEPT ![pid[p]] = None]
          /\ status' = [status EXCEPT ![c] = p]
  /\ UNCHANGED <<pid, group, chld, mu, pc, timer, victims, halting>>

Drained ==
  /\ halting # "off" /\ mu = "reaper" /\ Zombies = {}
  /\ mu' = None
  /\ UNCHANGED <<kernel, chld, waiters, status, pc, timer, victims, halting>>

---------------------------------------------------------------------------
\* halt: SIGTERM to all, a grace period in which anyChildren waits for children
\* of its own accord, SIGKILL to all, and the machine is off.
Halt ==
  /\ MayHalt /\ halting = "no" /\ halting' = "grace"
  /\ UNCHANGED <<kernel, chld, mu, waiters, status, pc, timer, victims>>

AnyChildren(p) ==
  /\ halting = "grace" /\ p \in Zombies
  /\ state' = [state EXCEPT ![p] = "gone"]
  /\ UNCHANGED <<pid, group, chld, mu, waiters, status, pc, timer, victims, halting>>

Off ==
  /\ halting = "grace" /\ halting' = "off"
  /\ Ends({p \in Procs : Exists(p)})
  /\ UNCHANGED <<pid, group, mu, waiters, status, pc, timer, victims>>

---------------------------------------------------------------------------
Request(c) ==
  \/ StartChild(c) \/ StartFails(c) \/ Register(c) \/ OutputEnds(c) \/ Take(c) \/ Forget(c)

Drain == Wake \/ (\E p \in Procs : Reap(p)) \/ Drained

Next ==
  \/ \E c \in Cmds :
       Lock(c) \/ Request(c) \/ Timeout(c) \/ Kill(c) \/ \E own \in BOOLEAN : Fork(c, own)
  \/ \E p \in Procs : Exit(p) \/ AnyChildren(p)
  \/ Drain \/ Halt \/ Off

Spec == Init /\ [][Next]_vars

\* The supervisor's goroutines are scheduled and there are finitely many requests,
\* so whoever waits for the mutex gets it.  Nothing makes a process of the guest
\* exit.
Fairness ==
  /\ WF_vars(Drain)
  /\ \A c \in Cmds : WF_vars(Request(c)) /\ WF_vars(Timeout(c)) /\ WF_vars(Kill(c))

FairSpec == Spec /\ Fairness

---------------------------------------------------------------------------
\* Every variable has its type, and the mutex is held exactly across
\* startAndRegister and the reaper's drain.
TypeOK ==
  /\ \A c \in Cmds : mu = c <=> pc[c] \in {"forking", "registering"}
  /\ state \in [Procs -> {"unborn", "running", "zombie", "gone"}]
  /\ pid \in [Procs -> Pids \cup {None}] /\ group \in [Procs -> Pids \cup {None}]
  /\ chld \in BOOLEAN /\ mu \in Cmds \cup {"reaper", None}
  /\ waiters \in [Pids -> Cmds \cup {None}]
  /\ status \in [Cmds -> Procs \cup {None}]
  /\ pc \in [Cmds -> {"new", "forking", "registering", "pumping", "taking",
                      "forgetting", "done"}]
  /\ timer \in [Cmds -> {"none", "armed", "firing", "fired", "stopped"}]
  /\ victims \in [Cmds -> SUBSET Procs] /\ halting \in {"no", "grace", "off"}

\* The status a request is given is that of the command it started, even when the
\* number of a command that has ended is given to another process (deliverLocked's
\* delete, under the mutex the fork was made under).
StatusIsOwn ==
  halting = "no" => \A c \in Cmds : status[c] # None => status[c] = Child(c)

\* No other process has had the number of the command.
Unique(c) == \A p \in Procs \ {Child(c)} : pid[p] # pid[Child(c)]

\* No status is dropped on the floor: once a command whose number is its own has
\* been reaped, the request that started it has its status (startAndRegister).
NoStatusDropped ==
  halting = "no" => \A c \in Cmds :
    state[Child(c)] = "gone" /\ Unique(c) => status[c] # None

\* The timeout of a command whose number is its own kills its processes only
\* (killGroup, by number).
OnlyOwnKilled ==
  \A c \in Cmds : Unique(c) => victims[c] \subseteq Family(c)

\* A status goes to its request and a kill to its command, as long as numbers
\* tell processes apart (deliverLocked, startAndRegister, killGroup).
ReaperSafe == TypeOK /\ StatusIsOwn /\ NoStatusDropped /\ OnlyOwnKilled

\* A request whose processes have all ended is answered, however the signals of
\* their deaths were merged (start's loop, drainLocked's).
Over(c) == pc[c] \in {"pumping", "taking"} /\
           \A p \in Family(c) : state[p] # "running"
ExecReturns ==
  \A c \in Cmds : Over(c) ~> pc[c] = "done" \/ ~Unique(c) \/ halting # "no"

---------------------------------------------------------------------------
\* Claims the code does not keep; see the README.

\* Otherwise "the caller would then block forever on a channel nobody will ever
\* write to"; the lock "closes the window" (startAndRegister).
NeverDropped ==
  halting = "no" => \A c \in Cmds : state[Child(c)] = "gone" => status[c] # None

\* "On expiry the guest sends SIGKILL to the process group" (docs/protocol.md).
KillsItsGroup == \A c \in Cmds : victims[c] \subseteq Family(c)

\* "reaper owns every wait(2) in this process" (reaper.go).
ReaperOwnsWait ==
  [][\A p \in Procs : state[p] = "zombie" /\ state'[p] = "gone" => mu = "reaper"]_vars

\* "On expiry the guest ... terminates with error.kind = timeout" (docs/protocol.md).
TimeoutAnswers == \A c \in Cmds : timer[c] = "fired" ~> pc[c] = "done"

---------------------------------------------------------------------------
\* Inductive strengthenings, proved in ReaperProofs.

\* A number belongs to one process at a time, from its birth until it is reaped, and a
\* process is in its own group or in its command's.
Numbered ==
  /\ \A p \in Procs : state[p] = "unborn" <=> pid[p] = None
  /\ \A p, q \in Procs : Exists(p) /\ Exists(q) /\ pid[p] = pid[q] => p = q
  /\ \A c \in Cmds : group[Child(c)] = pid[Child(c)]
  /\ \A c \in Forkers :
       /\ group[Descendant(c)] \in {pid[Descendant(c)], pid[Child(c)]}
       /\ state[Child(c)] = "unborn" => state[Descendant(c)] = "unborn"
                                        /\ group[Descendant(c)] = None

\* How far a request is says whether its command was started; only a timeout that was
\* armed kills.
Started ==
  \A c \in Cmds :
    /\ pc[c] \in {"new", "forking"} => state[Child(c)] = "unborn"
    /\ pc[c] \in {"registering", "pumping", "taking", "forgetting"}
         => state[Child(c)] # "unborn"
    /\ timer[c] # "none" \/ victims[c] # {} => state[Child(c)] # "unborn"

\* While no shutdown reaps beside the reaper: a waiter is that of a command that is still
\* there to be reaped, and a command that is there and whose number is its own has one.
Expected ==
  halting = "no" =>
    /\ \A n \in Pids : waiters[n] # None =>
         Exists(Child(waiters[n])) /\ pid[Child(waiters[n])] = n
         /\ pc[waiters[n]] # "registering"
    /\ \A c \in Cmds :
         /\ pc[c] = "registering" => Exists(Child(c))
         /\ status[c] # None => status[c] = Child(c) /\ state[Child(c)] = "gone"
         /\ pc[c] = "forgetting" => status[c] # None
         /\ pc[c] = "done" /\ state[Child(c)] # "unborn" => status[c] # None
         /\ Exists(Child(c)) /\ Unique(c) /\ pc[c] # "registering"
              => waiters[pid[Child(c)]] = c
         /\ state[Child(c)] = "gone" /\ Unique(c) => status[c] # None
=============================================================================
