----------------------------- MODULE TeamBroker -----------------------------
(***************************************************************************)
(* The broker of one agent team (internal/team: broker.go, spawn.go,       *)
(* topology.go) and the host's side of a spawned worker's life             *)
(* (host/team.go, OnSpawn and its lifetime timer).                         *)
(*                                                                         *)
(* Every request an agent makes is a goroutine of its own, so each member  *)
(* of Calls is one request: one op, made once.  The broker's mutex and the *)
(* topology's own protect single steps only; every stretch between two of  *)
(* them, and every append to the flight recorder, is an action.            *)
(*                                                                         *)
(* A call is also the message it sends and, when it asks, the correlation  *)
(* tag it mints: tags are random and never collide.  A worker's minted     *)
(* name <spawner>-spawn-<n> is the number n, which alone makes it unique;  *)
(* NewTopology refuses a declared agent such a name.                       *)
(***************************************************************************)
EXTENDS Team, Integers, Sequences, FiniteSets

CONSTANTS
  Edges,     \* the declared edges, resolved: who may initiate to whom
  MaxLive,   \* budgets: of each agent that has one, Budget.Max
  Mailbox,   \* capacity of a mailbox (64 in the code)
  MaxSpawns  \* bound: workers minted in a run

Spawners == DOMAIN MaxLive
Workers  == 1..MaxSpawns
Names    == Agents \cup Workers

ASSUME TeamAssumption ==
  /\ None \notin Calls /\ None \notin Names
  /\ Agents \cap Nat = {} /\ Calls \cap Nat = {}
  /\ Edges \subseteq Agents \X Agents
  /\ Spawners \subseteq Agents /\ MaxLive \in [Spawners -> Nat]
  /\ Mailbox \in Nat /\ Mailbox > 0 /\ MaxSpawns \in Nat

VARIABLES
  agents, allowed,       \* Topology: who is in the team, who may initiate to whom
  boxes, queue,          \* Broker.boxes: who has a mailbox; what each mailbox holds
  pending, reply,        \* Broker.pending: outstanding tags; ask.reply, the one-slot
                         \* channel of each
  spawnSeq, spawnedBy,   \* Broker.spawnSeq, Broker.spawnedBy
  machines, term,        \* workers whose machine is up; the lifetime timer of each
  call, pc,              \* what each request is, and where its goroutine is
  outcome, told, got,    \* what became of it, what its caller was told and given
  seen,                  \* tags some agent has received
  transcript             \* what reached the flight recorder

topology == <<agents, allowed>>
mail     == <<boxes, queue>>
asks     == <<pending, reply>>
spawns   == <<spawnSeq, spawnedBy>>
host     == <<machines, term>>
answers  == <<told, got>>
vars == <<topology, mail, asks, spawns, host, call, pc, outcome, answers, seen,
          transcript>>

NoCall == [op |-> "none", by |-> None, to |-> None, tag |-> None]

Init ==
  /\ agents = Agents /\ allowed = Edges
  /\ boxes = Agents /\ queue = [n \in Names |-> <<>>]
  /\ pending = {} /\ reply = [c \in Calls |-> None]
  /\ spawnSeq = 0 /\ spawnedBy = [s \in Agents |-> {}]
  /\ machines = {} /\ term = [w \in Workers |-> "none"]
  /\ call = [c \in Calls |-> NoCall] /\ pc = [c \in Calls |-> "new"]
  /\ outcome = [c \in Calls |-> "none"]
  /\ told = [c \in Calls |-> "nothing"] /\ got = [c \in Calls |-> None]
  /\ seen = {} /\ transcript = {}

---------------------------------------------------------------------------
\* The name of a call's maker is the host's: that of the machine it came from.
Callers == Agents \cup machines

Begin(c, op, n, to, tag, at) ==
  /\ pc[c] = "new" /\ n \in Callers
  /\ call' = [call EXCEPT ![c] = [op |-> op, by |-> n, to |-> to, tag |-> tag]]
  /\ pc' = [pc EXCEPT ![c] = at]

Goto(c, from, at) == pc[c] = from /\ pc' = [pc EXCEPT ![c] = at]

\* Serve answers the guest.
Return(c, what) ==
  /\ pc' = [pc EXCEPT ![c] = "done"]
  /\ told' = [told EXCEPT ![c] = what]

---------------------------------------------------------------------------
\* Send and Ask.  A question is outstanding before it is delivered.
BeginSend(c, n, to) ==
  /\ Begin(c, "send", n, to, None, "exists")
  /\ UNCHANGED <<topology, mail, asks, spawns, host, outcome, answers, seen, transcript>>

BeginAsk(c, n, to) ==
  /\ Begin(c, "ask", n, to, None, "exists")
  /\ pending' = pending \cup {c}
  /\ UNCHANGED <<topology, mail, reply, spawns, host, outcome, answers, seen, transcript>>

Decide(c, what) == outcome' = [outcome EXCEPT ![c] = what]

\* deliver: the two questions to the topology, the look-up of the mailbox and
\* the send are four steps under three different acquisitions.
Exists(c) ==
  /\ IF call[c].to \in agents
     THEN Goto(c, "exists", "allows") /\ UNCHANGED outcome
     ELSE Goto(c, "exists", "record") /\ Decide(c, "no_such_agent")
  /\ UNCHANGED <<topology, mail, asks, spawns, host, call, answers, seen, transcript>>

Allows(c) ==
  /\ IF <<call[c].by, call[c].to>> \in allowed
     THEN Goto(c, "allows", "lookup") /\ UNCHANGED outcome
     ELSE Goto(c, "allows", "record") /\ Decide(c, "no_edge")
  /\ UNCHANGED <<topology, mail, asks, spawns, host, call, answers, seen, transcript>>

\* A mailbox that has gone meanwhile is a nil channel, which takes nothing.
Lookup(c) ==
  /\ IF call[c].to \in boxes
     THEN Goto(c, "lookup", "enqueue") /\ UNCHANGED outcome
     ELSE Goto(c, "lookup", "record") /\ Decide(c, "unreachable")
  /\ UNCHANGED <<topology, mail, asks, spawns, host, call, answers, seen, transcript>>

\* Mutants: one message more than the mailbox holds; a full mailbox drops the
\* message and says nothing.
Enqueue_Unbounded(c) ==
  /\ Goto(c, "enqueue", "record")
  /\ LET to == call[c].to IN
     IF Len(queue[to]) <= Mailbox
     THEN queue' = [queue EXCEPT ![to] = Append(@, c)] /\ Decide(c, "delivered")
     ELSE UNCHANGED queue /\ Decide(c, "unreachable")
  /\ UNCHANGED <<topology, boxes, asks, spawns, host, call, answers, seen, transcript>>
Enqueue_Dropped(c) ==
  /\ Goto(c, "enqueue", "record")
  /\ LET to == call[c].to IN
     IF Len(queue[to]) < Mailbox
     THEN queue' = [queue EXCEPT ![to] = Append(@, c)]
     ELSE UNCHANGED queue
  /\ Decide(c, "delivered")
  /\ UNCHANGED <<topology, boxes, asks, spawns, host, call, answers, seen, transcript>>

\* The mailbox found above is sent to whether or not the broker still holds it.
Enqueue(c) ==
  /\ Goto(c, "enqueue", "record")
  /\ LET to == call[c].to IN
     IF Len(queue[to]) < Mailbox
     THEN queue' = [queue EXCEPT ![to] = Append(@, c)] /\ Decide(c, "delivered")
     ELSE UNCHANGED queue /\ Decide(c, "unreachable")
  /\ UNCHANGED <<topology, boxes, asks, spawns, host, call, answers, seen, transcript>>

---------------------------------------------------------------------------
\* The wait of Ask.
TakeAnswer(c) ==
  /\ got' = [got EXCEPT ![c] = reply[c]]
  /\ reply' = [reply EXCEPT ![c] = None]
  /\ Decide(c, "answered")

AskAnswered(c) ==
  /\ reply[c] # None
  /\ Goto(c, "waiting", "undo")
  /\ TakeAnswer(c)
  /\ UNCHANGED <<topology, mail, pending, spawns, host, call, told, seen, transcript>>

\* Mutants: the question stays outstanding until the deferred delete; the clock
\* of a question starts when it is read.
AskTimesOut_Late(c) ==
  /\ Goto(c, "waiting", "record") /\ Decide(c, "timeout")
  /\ UNCHANGED <<topology, mail, asks, spawns, host, call, answers, seen, transcript>>
AskTimesOut_OnceRead(c) ==
  /\ c \in seen
  /\ pending' = pending \ {c}
  /\ IF c \notin pending /\ reply[c] # None
     THEN Goto(c, "waiting", "undo") /\ TakeAnswer(c)
     ELSE /\ Goto(c, "waiting", "record") /\ Decide(c, "timeout")
          /\ UNCHANGED <<got, reply>>
  /\ UNCHANGED <<topology, mail, spawns, host, call, told, seen, transcript>>

\* The timer takes the question back; if a reply took it first, its answer is
\* in the channel and is the answer.
AskTimesOut(c) ==
  /\ pending' = pending \ {c}
  /\ IF c \notin pending /\ reply[c] # None
     THEN Goto(c, "waiting", "undo") /\ TakeAnswer(c)
     ELSE /\ Goto(c, "waiting", "record") /\ Decide(c, "timeout")
          /\ UNCHANGED <<got, reply>>
  /\ UNCHANGED <<topology, mail, spawns, host, call, told, seen, transcript>>

\* Ask's deferred delete, and its return.
Undo(c) ==
  /\ pc[c] = "undo"
  /\ pending' = pending \ {c}
  /\ Return(c, CASE outcome[c] = "answered" -> "ok"
                 [] outcome[c] = "timeout" -> "timeout"
                 [] OTHER -> "refused")
  /\ UNCHANGED <<topology, mail, reply, spawns, host, call, outcome, got, seen, transcript>>

---------------------------------------------------------------------------
\* Recv; the caller keeps the mailbox it found.
BeginRecv(c, n) ==
  /\ n \in boxes
  /\ Begin(c, "recv", n, None, None, "receiving")
  /\ UNCHANGED <<topology, mail, asks, spawns, host, outcome, answers, seen, transcript>>

RecvNobody(c, n) ==
  /\ pc[c] = "new" /\ n \in Callers \ boxes
  /\ call' = [call EXCEPT ![c] = [op |-> "recv", by |-> n, to |-> None, tag |-> None]]
  /\ Return(c, "refused")
  /\ UNCHANGED <<topology, mail, asks, spawns, host, outcome, got, seen, transcript>>

Receive(c) ==
  LET box == queue[call[c].by] IN
  /\ pc[c] = "receiving" /\ box # <<>>
  /\ queue' = [queue EXCEPT ![call[c].by] = Tail(box)]
  /\ got' = [got EXCEPT ![c] = Head(box)]
  /\ seen' = IF call[Head(box)].op = "ask" THEN seen \cup {Head(box)} ELSE seen
  /\ Return(c, "ok")
  /\ UNCHANGED <<topology, boxes, asks, spawns, host, call, outcome, transcript>>

RecvTimesOut(c) ==
  /\ pc[c] = "receiving"
  /\ Return(c, "timeout")
  /\ UNCHANGED <<topology, mail, asks, spawns, host, call, outcome, got, seen, transcript>>

---------------------------------------------------------------------------
\* Reply.  The tag an agent has may be one another agent passed on to it.
BeginReply(c, n, tag) ==
  /\ Begin(c, "reply", n, None, tag, IF tag = None THEN "record" ELSE "claim")
  /\ IF tag = None THEN Decide(c, "missing_correlation") ELSE UNCHANGED outcome
  /\ UNCHANGED <<topology, mail, asks, spawns, host, answers, seen, transcript>>

\* Mutants: the tag is left for Ask to delete; whoever holds it may answer.
Claim_Left(c) ==
  LET q == call[c].tag IN
  /\ Goto(c, "claim", "record")
  /\ IF q \in pending /\ call[q].to = call[c].by /\ reply[q] = None
     THEN reply' = [reply EXCEPT ![q] = c] /\ Decide(c, "delivered")
     ELSE UNCHANGED reply /\ Decide(c, "unknown_correlation")
  /\ UNCHANGED <<topology, mail, pending, spawns, host, call, answers, seen, transcript>>
Claim_Anyone(c) ==
  LET q == call[c].tag IN
  /\ Goto(c, "claim", "record")
  /\ IF q \in pending
     THEN /\ pending' = pending \ {q}
          /\ reply' = [reply EXCEPT ![q] = c] /\ Decide(c, "delivered")
     ELSE UNCHANGED asks /\ Decide(c, "unknown_correlation")
  /\ UNCHANGED <<topology, mail, spawns, host, call, answers, seen, transcript>>

\* Found, checked, claimed and answered in one critical section.
Claim(c) ==
  LET q == call[c].tag IN
  /\ Goto(c, "claim", "record")
  /\ IF q \in pending /\ call[q].to = call[c].by
     THEN /\ pending' = pending \ {q}
          /\ IF reply[q] = None
             THEN reply' = [reply EXCEPT ![q] = c] /\ Decide(c, "delivered")
             ELSE UNCHANGED reply /\ Decide(c, "unreachable")
     ELSE UNCHANGED asks /\ Decide(c, "unknown_correlation")
  /\ UNCHANGED <<topology, mail, spawns, host, call, answers, seen, transcript>>

---------------------------------------------------------------------------
\* Mutant: the place after the last one is granted.
SpawnRefusal_OffByOne(n, permitted) ==
  CASE n \notin Spawners -> "no_spawn_budget"
    [] n \in Spawners /\ Cardinality(spawnedBy[n]) > MaxLive[n] -> "budget_exhausted"
    [] n \in Spawners /\ Cardinality(spawnedBy[n]) <= MaxLive[n] /\ ~permitted ->
         "image_not_permitted"
    [] OTHER -> "none"

\* Spawn, under the broker's mutex: the budget, the image, the name, the place
\* and the mailbox; then, under the topology's, the edge.
SpawnRefusal(n, permitted) ==
  CASE n \notin Spawners -> "no_spawn_budget"
    [] n \in Spawners /\ Cardinality(spawnedBy[n]) >= MaxLive[n] -> "budget_exhausted"
    [] n \in Spawners /\ Cardinality(spawnedBy[n]) < MaxLive[n] /\ ~permitted ->
         "image_not_permitted"
    [] OTHER -> "none"

Minted == spawnSeq + 1
Free(w) == w \notin boxes /\ w \notin agents

Spawn(c, n) ==
  /\ SpawnRefusal(n, TRUE) = "none" /\ Minted \in Workers /\ Free(Minted)
  /\ Begin(c, "spawn", n, Minted, None, "attach")
  /\ spawnSeq' = Minted
  /\ spawnedBy' = [spawnedBy EXCEPT ![n] = @ \cup {Minted}]
  /\ boxes' = boxes \cup {Minted}
  /\ Decide(c, "delivered")
  /\ UNCHANGED <<topology, queue, asks, host, answers, seen, transcript>>

SpawnRefused(c, n, permitted) ==
  /\ SpawnRefusal(n, permitted) # "none"
  /\ Begin(c, "spawn", n, None, None, "record")
  /\ Decide(c, SpawnRefusal(n, permitted))
  /\ UNCHANGED <<topology, mail, asks, spawns, host, answers, seen, transcript>>

Attach(c) ==
  LET w == call[c].to
      s == call[c].by IN
  /\ Goto(c, "attach", "record")
  /\ agents' = agents \cup {w}
  /\ allowed' = allowed \cup {<<s, w>>, <<w, s>>}
  /\ UNCHANGED <<mail, asks, spawns, host, call, outcome, answers, seen, transcript>>

\* Mutants: the mailbox outlives the worker; so does the edge towards it.
FreePlace_KeepsBox(w) ==
  /\ spawnedBy' = [s \in Agents |-> spawnedBy[s] \ {w}]
  /\ UNCHANGED boxes
Detach_Half(w) ==
  /\ agents' = agents \ {w}
  /\ allowed' = {e \in allowed : e[1] # w}

\* Despawn's two critical sections.
FreePlace(w) ==
  /\ spawnedBy' = [s \in Agents |-> spawnedBy[s] \ {w}]
  /\ boxes' = boxes \ {w}

Detach(w) ==
  /\ agents' = agents \ {w}
  /\ allowed' = {e \in allowed : e[1] # w /\ e[2] # w}

---------------------------------------------------------------------------
\* OnSpawn boots the machine, whose own requests are served before it is
\* ready, and starts its lifetime timer; a boot that fails gives the place back.
MachineUp(c) ==
  /\ Goto(c, "boot", "booting")
  /\ machines' = machines \cup {call[c].to}
  /\ UNCHANGED <<topology, mail, asks, spawns, term, call, outcome, answers, seen,
                 transcript>>

BootDone(c) ==
  /\ pc[c] = "booting"
  /\ term' = [term EXCEPT ![call[c].to] = "living"]
  /\ Return(c, "ok")
  /\ UNCHANGED <<topology, mail, asks, spawns, machines, call, outcome, got, seen,
                 transcript>>

BootFails(c) ==
  /\ pc[c] \in {"boot", "booting"}
  /\ machines' = machines \ {call[c].to}
  /\ pc' = [pc EXCEPT ![c] = "giveback"]
  /\ UNCHANGED <<topology, mail, asks, spawns, term, call, outcome, answers, seen,
                 transcript>>

GiveBack(c) ==
  /\ Goto(c, "giveback", "withdraw")
  /\ FreePlace(call[c].to)
  /\ UNCHANGED <<topology, queue, asks, spawnSeq, host, call, outcome, answers, seen,
                 transcript>>

Withdraw(c) ==
  /\ Goto(c, "withdraw", "record")
  /\ Detach(call[c].to)
  /\ Decide(c, "despawned")
  /\ UNCHANGED <<mail, asks, spawns, host, call, answers, seen, transcript>>

\* The lifetime timer: Despawn first, the machine last.
Expire(w) ==
  /\ term[w] = "living" /\ term' = [term EXCEPT ![w] = "expired"]
  /\ FreePlace(w)
  /\ UNCHANGED <<topology, queue, asks, spawnSeq, machines, call, pc, outcome, answers,
                 seen, transcript>>

Leave(w) ==
  /\ term[w] = "expired" /\ term' = [term EXCEPT ![w] = "detached"]
  /\ Detach(w)
  /\ transcript' = transcript \cup {[of |-> w, outcome |-> "despawned"]}
  /\ UNCHANGED <<mail, asks, spawns, machines, call, pc, outcome, answers, seen>>

StopMachine(w) ==
  /\ term[w] = "detached" /\ term' = [term EXCEPT ![w] = "gone"]
  /\ machines' = machines \ {w}
  /\ UNCHANGED <<topology, mail, asks, spawns, call, pc, outcome, answers, seen,
                 transcript>>

---------------------------------------------------------------------------
\* b.record, on the goroutine of the call and outside every lock; then what the
\* call goes on to.  An ask that was refused or timed out still has its deferred
\* delete to run.
AfterRecord(c) ==
  CASE call[c].op = "ask" -> IF outcome[c] = "delivered" THEN "waiting" ELSE "undo"
    [] call[c].op = "spawn" /\ outcome[c] = "delivered" -> "boot"
    [] OTHER -> "done"

Record(c) ==
  /\ Goto(c, "record", AfterRecord(c))
  /\ transcript' = transcript \cup {[of |-> c, outcome |-> outcome[c]]}
  /\ told' = [told EXCEPT ![c] =
       IF AfterRecord(c) # "done" THEN @
       ELSE IF outcome[c] = "delivered" THEN "ok" ELSE "refused"]
  /\ UNCHANGED <<topology, mail, asks, spawns, host, call, outcome, got, seen>>

---------------------------------------------------------------------------
BeginCall(c, n) ==
  \/ \E to \in Names : BeginSend(c, n, to) \/ BeginAsk(c, n, to)
  \/ BeginRecv(c, n) \/ RecvNobody(c, n)
  \/ \E tag \in seen \cup {None} : BeginReply(c, n, tag)
  \/ Spawn(c, n)
  \/ \E permitted \in BOOLEAN : SpawnRefused(c, n, permitted)

Step(c) ==
  \/ Exists(c) \/ Allows(c) \/ Lookup(c) \/ Enqueue(c) \/ Record(c)
  \/ AskAnswered(c) \/ AskTimesOut(c) \/ Undo(c)
  \/ Receive(c) \/ RecvTimesOut(c)
  \/ Claim(c)
  \/ Attach(c) \/ MachineUp(c) \/ BootDone(c) \/ BootFails(c)
  \/ GiveBack(c) \/ Withdraw(c)

Lifetime(w) == Expire(w) \/ Leave(w) \/ StopMachine(w)

Next ==
  \/ \E c \in Calls : Step(c) \/ \E n \in Names : BeginCall(c, n)
  \/ \E w \in Workers : Lifetime(w)

Spec == Init /\ [][Next]_vars

\* A goroutine whose next step is possible takes it: no step waits for another
\* but the two that have a timer, and a boot has a timeout of its own.  A worker
\* may have no lifetime, and nothing is assumed of it.
Fairness == \A c \in Calls : WF_vars(Step(c))

FairSpec == Spec /\ Fairness

---------------------------------------------------------------------------
Ops == {"none", "send", "ask", "recv", "reply", "spawn"}
Outcomes ==
  {"none", "delivered", "answered", "timeout", "no_such_agent", "no_edge",
   "unreachable", "missing_correlation", "unknown_correlation", "no_spawn_budget",
   "budget_exhausted", "image_not_permitted", "despawned"}
Places ==
  {"new", "exists", "allows", "lookup", "enqueue", "record", "waiting", "undo",
   "receiving", "claim", "attach", "boot", "booting", "giveback", "withdraw", "done"}

TypeTeam ==
  /\ agents \subseteq Names /\ allowed \subseteq Names \X Names
  /\ boxes \subseteq Names
  /\ spawnSeq \in 0..MaxSpawns /\ spawnedBy \in [Agents -> SUBSET Workers]
  /\ machines \subseteq Workers
  /\ term \in [Workers -> {"none", "living", "expired", "detached", "gone"}]
TypeMail ==
  /\ queue \in [Names -> Seq(Calls)] /\ \A n \in Names : Len(queue[n]) <= Mailbox
  /\ pending \subseteq Calls /\ reply \in [Calls -> Calls \cup {None}]
  /\ seen \subseteq Calls
TypeCalls ==
  /\ call \in [Calls -> [op : Ops, by : Names \cup {None}, to : Names \cup {None},
                         tag : Calls \cup {None}]]
  /\ pc \in [Calls -> Places]
  /\ \A c \in Calls : pc[c] # "new" => call[c].by \in Names
  /\ outcome \in [Calls -> Outcomes]
  /\ told \in [Calls -> {"nothing", "ok", "refused", "timeout"}]
  /\ got \in [Calls -> Calls \cup {None}]
  /\ transcript \subseteq [of : Calls \cup Workers, outcome : Outcomes]

\* Every variable has its type, and no mailbox holds more than its capacity.
TypeOK == TypeTeam /\ TypeMail /\ TypeCalls

---------------------------------------------------------------------------
\* The question-and-answer protocol this implements.
AnswerTo(q) == IF reply[q] # None THEN reply[q] ELSE got[q]
Fate(q) ==
  IF call[q].op # "ask" THEN "unasked"
  ELSE IF q \in pending THEN "open"
  ELSE IF AnswerTo(q) # None THEN "answered"
  ELSE IF outcome[q] = "timeout" THEN "expired" ELSE "undelivered"
AskedAnswer(q) == IF call[q].op = "ask" THEN AnswerTo(q) ELSE None
AskedTold(c)   == IF call[c].op \in {"ask", "reply"} THEN told[c] ELSE "nothing"
AskedGot(q)    == IF call[q].op = "ask" /\ told[q] = "ok" THEN got[q] ELSE None

Asked == INSTANCE Exchange WITH
  fate   <- [q \in Calls |-> Fate(q)],
  answer <- [q \in Calls |-> AskedAnswer(q)],
  told   <- [c \in Calls |-> AskedTold(c)],
  got    <- [q \in Calls |-> AskedGot(q)]

\* A question is settled once, and everybody concerned is told so: a reply that
\* was accepted is the answer its asker returns with, whatever the timer did
\* (the claim Reply and Ask's timeout make of the same entry).
Implements == Asked!Spec

Logged(c, what) == [of |-> c, outcome |-> what] \in transcript

\* The transcript never holds two answers to one question, nor an answer and a
\* timeout, nor an answer by anyone but the agent the question went to.
OneAnswerLogged ==
  \A r \in Calls : call[r].op = "reply" /\ Logged(r, "delivered") =>
    LET q == call[r].tag IN
    /\ call[r].by = call[q].to
    /\ ~Logged(q, "timeout") /\ told[q] # "timeout"
    /\ \A r2 \in Calls \ {r} :
         call[r2].op = "reply" /\ call[r2].tag = q => ~Logged(r2, "delivered")

\* What the transcript calls delivered was accepted, once: the message is in the
\* mailbox of the agent it was for, or exactly one request of that agent took it;
\* and a message it calls refused or unreachable is nowhere.
Held(m)  == {i \in DOMAIN queue[call[m].to] : queue[call[m].to][i] = m}
Taken(m) == {r \in Calls : call[r].op = "recv" /\ got[r] = m}
DeliveredOnce ==
  \A m \in Calls : call[m].op \in {"send", "ask"} /\ (\E x \in Outcomes : Logged(m, x)) =>
    /\ Cardinality(Held(m)) + Cardinality(Taken(m)) = IF Logged(m, "delivered") THEN 1 ELSE 0
    /\ \A r \in Taken(m) : call[r].by = call[m].to

\* Who may have initiated to whom, in the whole run: a declared edge, or the one
\* a spawn made.
SpawnedFor(s, w) ==
  \E c \in Calls : call[c].op = "spawn" /\ call[c].by = s /\ call[c].to = w
Reach(n, m) == <<n, m>> \in Edges \/ SpawnedFor(n, m) \/ SpawnedFor(m, n)

\* Nothing an agent said reaches another but along an edge, or back along the
\* question it answers (deliver's checks, Reply's).
OnlyAlongEdges ==
  \A c \in Calls : got[c] # None =>
    IF call[c].op = "recv"
    THEN Reach(call[got[c]].by, call[c].by)
    ELSE Reach(call[c].by, call[got[c]].by)

\* The topology is fixed for the run but for a worker's one edge to its spawner,
\* which goes with the worker (attach, detach).
FixedTopology ==
  /\ allowed \cap (Agents \X Agents) = Edges
  /\ \A e \in allowed \ Edges : SpawnedFor(e[1], e[2]) \/ SpawnedFor(e[2], e[1])
  /\ \A e \in allowed : e[1] \in agents /\ e[2] \in agents

\* An agent never has more workers that are being booted or have time left than
\* its budget's max (Spawn's place, held until Despawn).
SpawnCall(w) == CHOOSE c \in Calls : call[c].op = "spawn" /\ call[c].to = w
Leaving(w) ==
  \/ term[w] \notin {"none", "living"}
  \/ pc[SpawnCall(w)] = "withdraw" \/ outcome[SpawnCall(w)] = "despawned"
WorkersOf(s) == {w \in 1..spawnSeq : SpawnedFor(s, w)}
WithinBudget ==
  \A s \in Agents : LET live == {w \in WorkersOf(s) : ~Leaving(w)} IN
    live # {} => s \in Spawners /\ Cardinality(live) <= MaxLive[s]

\* An agent the topology answers for has a mailbox, and a mailbox belongs to an
\* agent it answers for, but between the two critical sections of the Spawn or
\* the Despawn of that worker.
Between(w) ==
  term[w] = "expired" \/ pc[SpawnCall(w)] \in {"attach", "withdraw"}
MailboxBehindName ==
  /\ Agents \subseteq agents \cap boxes
  /\ \A w \in 1..spawnSeq : (w \in agents <=> w \in boxes) \/ Between(w)

\* A message goes where an edge leads, to one mailbox or one reader (deliver, Recv).
ExchangeSafe == OnlyAlongEdges /\ DeliveredOnce

\* The same while workers come and go: their places, names, edges and mailboxes
\* are given and taken back together (Spawn, Despawn, OnSpawn).
SpawnSafe ==
  TypeOK /\ DeliveredOnce /\ WithinBudget /\ FixedTopology /\ MailboxBehindName

\* Every request is answered.
CallsReturn == \A c \in Calls : pc[c] # "new" ~> pc[c] = "done"

---------------------------------------------------------------------------
\* Claims of the documentation that the code does not keep; see the README.

\* "The recipient's mailbox is full" (docs/teams.md, unreachable).
UnreachableMeansFull ==
  [][\A c \in Calls : outcome'[c] = "unreachable" /\ outcome[c] # "unreachable" =>
       Len(queue[call[c].to]) >= Mailbox]_vars

\* "max = 4  # at any one time" (docs/teams.md, spawn budgets): machines.
MachinesWithinBudget ==
  \A s \in Spawners : Cardinality(machines \cap WorkersOf(s)) <= MaxLive[s]

---------------------------------------------------------------------------
\* Inductive strengthenings, proved in TeamBrokerProofs.

Delivering == {"exists", "allows", "lookup", "enqueue"}
Spawning   == {"attach", "boot", "booting", "giveback", "withdraw"}
Accepted   == {"delivered", "answered", "timeout"}

\* A request to spawn that was granted names its worker from then on.
SpawnInv ==
  \A c \in Calls :
    /\ pc[c] \in Spawning => call[c].op = "spawn"
    /\ call[c].op = "spawn" => pc[c] \in Spawning \cup {"record", "done"}
    /\ call[c].op = "spawn" /\ (pc[c] \in Spawning \/ outcome[c] = "delivered") =>
         call[c].to \in Workers /\ call[c].by \in Names

\* Where a request is, what it is, and whether its caller has been told.
CallInv ==
  \A c \in Calls :
    /\ pc[c] = "new" => call[c].op = "none" /\ outcome[c] = "none" /\ got[c] = None
    /\ pc[c] = "done" <=> told[c] # "nothing"
    /\ pc[c] \in Delivering => call[c].op \in {"send", "ask"} /\ outcome[c] = "none"
    /\ pc[c] \in {"waiting", "undo"} => call[c].op = "ask"
    /\ pc[c] = "receiving" => call[c].op = "recv"
    /\ pc[c] = "claim" => call[c].op = "reply" /\ outcome[c] = "none"
                          /\ call[c].tag # None
    /\ pc[c] \in Spawning => call[c].op = "spawn" /\ outcome[c] = "delivered"
    /\ pc[c] = "record" => call[c].op \in {"send", "ask", "reply", "spawn"}
                           /\ outcome[c] # "none"
    /\ call[c].op = "none" => pc[c] = "new"

\* Only accepted messages are in mailboxes, and only the tags of accepted
\* questions are known to anyone.
MessageInv ==
  /\ \A n \in Names : \A i \in DOMAIN queue[n] :
       /\ call[queue[n][i]].op \in {"send", "ask"}
       /\ outcome[queue[n][i]] \in Accepted
  /\ \A m \in seen : call[m].op = "ask" /\ outcome[m] \in Accepted
  /\ \A r \in Calls : call[r].op = "reply" /\ call[r].tag # None => call[r].tag \in seen
  /\ \A m \in Calls : call[m].op = "send" =>
       outcome[m] \notin {"answered", "timeout"}

\* A question is outstanding, or answered, or over; never two of these.
QuestionInv ==
  \A q \in Calls :
    /\ call[q].op # "ask" => q \notin pending /\ reply[q] = None
    /\ call[q].op = "ask" =>
         /\ outcome[q] \notin Accepted =>
              /\ reply[q] = None /\ got[q] = None /\ (q \in pending <=> pc[q] # "done")
              /\ pc[q] \in Delivering \cup {"record", "undo", "done"}
              /\ pc[q] \in {"undo", "done"} => outcome[q] # "none"
         /\ outcome[q] = "delivered" =>
              /\ got[q] = None /\ (q \in pending <=> reply[q] = None)
              /\ pc[q] \in {"record", "waiting"}
         /\ outcome[q] = "answered" =>
              q \notin pending /\ reply[q] = None /\ got[q] # None
              /\ pc[q] \in {"undo", "done"}
         /\ outcome[q] = "timeout" =>
              q \notin pending /\ reply[q] = None /\ got[q] = None
              /\ pc[q] \in {"record", "undo", "done"}
         /\ pc[q] = "waiting" => outcome[q] = "delivered"
         /\ pc[q] = "done" =>
              told[q] = CASE outcome[q] = "answered" -> "ok"
                          [] outcome[q] = "timeout" -> "timeout"
                          [] OTHER -> "refused"

\* An answer is that of an accepted reply, and an accepted reply is an answer.
AnswerInv ==
  /\ \A q \in Calls : call[q].op = "ask" /\ AnswerTo(q) # None =>
       /\ call[AnswerTo(q)].op = "reply" /\ call[AnswerTo(q)].tag = q
       /\ outcome[AnswerTo(q)] = "delivered"
  /\ \A r \in Calls : call[r].op = "reply" =>
       /\ outcome[r] \in {"none", "delivered", "missing_correlation",
                          "unknown_correlation"}
       /\ outcome[r] = "delivered" =>
            /\ call[r].tag # None /\ AnswerTo(call[r].tag) = r
            /\ call[r].by = call[call[r].tag].to
       /\ pc[r] \in {"claim", "record", "done"}
       /\ pc[r] = "done" =>
            told[r] = IF outcome[r] = "delivered" THEN "ok" ELSE "refused"

\* What is logged of a request is its outcome, or that its question was delivered.
LogInv ==
  \A c \in Calls, x \in Outcomes : Logged(c, x) => x # "none" /\
    \/ x = outcome[c] /\ pc[c] # "record"
    \/ x = "delivered" /\ outcome[c] \in Accepted \cup {"despawned"}

\* A message a mailbox or a reader holds is there once, at the agent it was for, and
\* one that was accepted is in either.
DeliveryInv ==
  /\ \A n \in Names : \A i \in DOMAIN queue[n] :
       /\ call[queue[n][i]].to = n
       /\ \A j \in DOMAIN queue[n] : queue[n][i] = queue[n][j] => i = j
  /\ \A r \in Calls : call[r].op = "recv" /\ got[r] # None =>
       /\ call[got[r]].op \in {"send", "ask"} /\ outcome[got[r]] \in Accepted
       /\ call[got[r]].to = call[r].by
       /\ \A i \in DOMAIN queue[call[r].by] : queue[call[r].by][i] # got[r]
       /\ \A r2 \in Calls : call[r2].op = "recv" /\ got[r2] = got[r] => r2 = r
  /\ \A m \in Calls : call[m].op \in {"send", "ask"} /\ outcome[m] \in Accepted =>
       \/ \E i \in DOMAIN queue[call[m].to] : queue[call[m].to][i] = m
       \/ \E r \in Calls : call[r].op = "recv" /\ got[r] = m

\* Only a reader and an asker are given anything; a question that was answered or timed
\* out has its delivery on the record.
GivenInv ==
  \A c \in Calls :
    /\ got[c] # None => call[c].op \in {"recv", "ask"} /\ pc[c] # "receiving"
    /\ outcome[c] = "despawned" => call[c].op = "spawn"
    /\ call[c].op \in {"send", "ask"} => call[c].to \in Names
    /\ call[c].op = "ask" /\ (pc[c] = "waiting" \/ outcome[c] \in {"answered", "timeout"})
         => Logged(c, "delivered")

\* A message that passed the topology's tests had an edge to go along.
EdgeInv ==
  \A m \in Calls :
    call[m].op \in {"send", "ask"} /\ (pc[m] \in {"lookup", "enqueue"} \/ outcome[m] \in Accepted)
      => Reach(call[m].by, call[m].to)

\* Each number that was minted is the name of the worker of one request, made by an
\* agent with a budget.
Granted(c) == call[c].op = "spawn" /\ call[c].to # None
MintedInv ==
  /\ \A c \in Calls : Granted(c) => call[c].by \in Spawners /\ call[c].to \in 1..spawnSeq
  /\ \A c, d \in Calls : Granted(c) /\ Granted(d) /\ call[c].to = call[d].to => c = d
  /\ \A w \in 1..spawnSeq : \E c \in Calls : Granted(c) /\ call[c].to = w

\* A worker has its place, its mailbox, its name and its edge from one step of its
\* request, or of its lifetime, to another.
HasPlace(c) ==
  \/ pc[c] \in {"attach", "boot", "booting", "giveback"}
  \/ pc[c] = "record" /\ outcome[c] = "delivered"
  \/ pc[c] = "done" /\ outcome[c] = "delivered" /\ term[call[c].to] = "living"
HasName(c) ==
  \/ pc[c] \in {"boot", "booting", "giveback", "withdraw"}
  \/ pc[c] = "record" /\ outcome[c] = "delivered"
  \/ pc[c] = "done" /\ outcome[c] = "delivered" /\ term[call[c].to] \in {"living", "expired"}
WorkerInv ==
  /\ \A w \in Workers : w > spawnSeq =>
       w \notin agents /\ w \notin boxes /\ term[w] = "none"
  /\ \A c \in Calls : Granted(c) =>
       /\ call[c].to \in boxes <=> HasPlace(c)
       /\ call[c].to \in spawnedBy[call[c].by] <=> HasPlace(c)
       /\ call[c].to \in agents <=> HasName(c)
       /\ outcome[c] \in {"delivered", "despawned"}
       /\ outcome[c] = "despawned" => pc[c] \in {"record", "done"}
       /\ term[call[c].to] # "none" <=> pc[c] = "done" /\ outcome[c] = "delivered"
  /\ \A c \in Calls : call[c].op = "spawn" /\ call[c].to = None
       => outcome[c] \notin {"delivered", "despawned"}
  /\ \A s \in Agents : spawnedBy[s] # {} =>
       s \in Spawners /\ IsFiniteSet(spawnedBy[s]) /\ Cardinality(spawnedBy[s]) <= MaxLive[s]
TopologyInv == FixedTopology /\ Agents \subseteq agents \cap boxes
=============================================================================
