-------------------------------- MODULE TeamPlan --------------------------------
(***************************************************************************)
(* From a [team] to the machines, edges and groups it stands for, and the  *)
(* graph drawn of it (host/teamplan.go, host/teamgraph.go,                 *)
(* internal/team/topology.go, internal/graph).                             *)
(*                                                                         *)
(* A name is the sequence of its parts, with the dashes: what ends in "-2" *)
(* and what begins with "lead" can be told.  An endpoint or a reader is    *)
(* [name, glob]: a name, or everything that begins with it.  A declared    *)
(* agent is                                                                *)
(* [name, count, shape, allow, secrets, workspace, quota, idle, spawn]:    *)
(* idle and timed are budgets a team has no clock for; spawn is            *)
(* [timed, quota], or NoSpawn; workspace is 0 or a directory.              *)
(***************************************************************************)
EXTENDS Grants

CONSTANTS
    BadParts,   \* parts with a character no agent's name may have
    NoSpawn

--------------------------------------------------------------------------------
(* Names                                                                        *)

Dash(name, n) == name \o <<"-", ToString(n)>>
WorkerName(spawner, n) == spawner \o <<"-", "spawn">> \o <<"-", ToString(n)>>

expandCount(name, count) == IF count <= 1 THEN <<name>> ELSE [i \in 1..count |-> Dash(name, i)]

ValidAgentName(name) == name # <<>> /\ Range(name) \cap BadParts = {}

\* Mutant: any name may be declared.
mintedSpawnNameNever(name, known) == FALSE

\* mintedSpawnName: what the host would call a worker of a declared agent.
mintedSpawnName(name, known) ==
    LET marks == {i \in 1..(Len(name) - 2) : SubSeq(name, i, i + 2) = <<"-", "spawn", "-">>}
        last == CHOOSE i \in marks : \A j \in marks : j <= i
    IN  /\ marks # {}
        /\ SubSeq(name, 1, last - 1) \in known
        /\ Len(name) = last + 3
        /\ \E n \in 1..9 : Last(name) = ToString(n)

--------------------------------------------------------------------------------
(* Edges                                                                        *)

Matches(spec, agent) == IF spec.glob THEN IsPrefix(spec.name, agent) ELSE agent = spec.name

\* expand: whom an endpoint stands for; nobody is an error.
expand(spec, agents) == {a \in Range(agents) : Matches(spec, a)}

\* NewTopology: distinct names none of which a worker will be given, edges between them.
NewTopology(agents, edges) ==
    LET known == Range(agents)
        Pairs(e) == {<<f, t>> \in expand(e.from, agents) \X expand(e.to, agents) : f # t}
    IN  [ok |-> /\ \A i \in DOMAIN agents : ValidAgentName(agents[i])
                /\ Cardinality(known) = Len(agents)
                /\ \A i \in DOMAIN agents : ~mintedSpawnName(agents[i], known)
                /\ \A i \in DOMAIN edges : /\ expand(edges[i].from, agents) # {}
                                           /\ expand(edges[i].to, agents) # {},
         allowed |-> UNION {Pairs(edges[i]) \cup
                               IF edges[i].both THEN {<<p[2], p[1]>> : p \in Pairs(edges[i])} ELSE {} :
                            i \in DOMAIN edges}]

--------------------------------------------------------------------------------
(* The plan                                                                     *)

checkTeamFileScope(cfg) == ~cfg.plugins /\ ~cfg.forwards

checkTeamBudget(cfg) ==
    cfg.quota > 0 =>
        \A i \in DOMAIN cfg.agents :
            LET a == cfg.agents[i]
            IN  /\ a.quota <= cfg.quota
                /\ a.spawn # NoSpawn => a.spawn.quota <= cfg.quota

\* checkAgentPolicy: secrets inside the agent's own list, one directory for one machine,
\* and no budget the team cannot keep.
checkAgentPolicy(a) ==
    /\ \A i \in DOMAIN a.secrets : containsDomain(a.allow, a.secrets[i])
    /\ ~(a.workspace # 0 /\ a.count > 1)
    /\ ~a.idle
    /\ a.spawn # NoSpawn => ~a.spawn.timed

\* Mutant: machines of one image are alike.
forkKeyOfImage(a) == <<a.shape>>

\* What a machine is made from: the agent's image and its sizes, and whether it may spawn.
forkable(a) == a.allow = <<>> /\ a.workspace = 0
forkKey(a) == <<a.shape, a.spawn # NoSpawn>>

Planned(cfg) ==
    FlattenSeq([i \in DOMAIN cfg.agents |->
        LET names == expandCount(cfg.agents[i].name, cfg.agents[i].count)
        IN  [n \in DOMAIN names |-> [cfg.agents[i] EXCEPT !.name = names[n]]]])

NamesOf(agents) == [i \in DOMAIN agents |-> agents[i].name]

\* planTeam: the agents, one per replica, and their topology.
planTeam(cfg) ==
    LET agents == Planned(cfg)
        topo == NewTopology(NamesOf(agents), cfg.edges)
    IN  [ok |-> /\ cfg.named /\ cfg.agents # <<>> /\ checkTeamFileScope(cfg) /\ checkTeamBudget(cfg)
                /\ \A i \in DOMAIN cfg.agents : checkAgentPolicy(cfg.agents[i])
                /\ topo.ok,
         agents |-> agents, allowed |-> topo.allowed]

needsSlice(cfg, plan) ==
    \/ cfg.quota > 0
    \/ \E i \in DOMAIN plan.agents :
           \/ plan.agents[i].quota > 0
           \/ plan.agents[i].spawn # NoSpawn /\ plan.agents[i].spawn.quota > 0

\* forkPlan: those made from one template, and those booted by themselves; a group of one
\* is booted by itself.
forkPlan(plan) ==
    LET Group(i) == {j \in DOMAIN plan.agents : forkable(plan.agents[j]) /\
                                                forkKey(plan.agents[j]) = forkKey(plan.agents[i])}
        groups == {Group(i) : i \in {j \in DOMAIN plan.agents : forkable(plan.agents[j])}}
        kept == {g \in groups : Cardinality(g) >= 2}
    IN  [groups |-> kept, cold |-> DOMAIN plan.agents \ UNION kept]

\* spawnResources: of the first agent of that name that may spawn.
spawnResources(plan, spawner) ==
    LET i == SelectInSeq(plan.agents, LAMBDA a : a.name = spawner /\ a.spawn # NoSpawn)
    IN  IF i = 0 THEN [timed |-> FALSE, quota |-> 0] ELSE plan.agents[i].spawn

\* A plan that is accepted: no worker that will be spawned can take a declared agent's
\* name; every machine is brought up once, with others only if they are alike and neither
\* has a network or a directory; no share of the processor exceeds the team's, and each
\* one that is set has a slice to set it on; no replicas share a directory.
PlanSound(cfg) ==
    LET p == planTeam(cfg)
        f == forkPlan(p)
        names == Range(NamesOf(p.agents))
    IN  p.ok =>
        /\ Cardinality(names) = Len(p.agents)
        /\ \A i \in DOMAIN p.agents, n \in 1..9 : WorkerName(p.agents[i].name, n) \notin names
        /\ \A i \in DOMAIN p.agents :
               Cardinality({g \in f.groups \cup {{c} : c \in f.cold} : i \in g}) = 1
        /\ \A g \in f.groups : \A i, j \in g :
               LET a == p.agents[i]  b == p.agents[j]
               IN  a.shape = b.shape /\ a.allow = <<>> /\ a.workspace = 0
                   /\ (a.spawn = NoSpawn) = (b.spawn = NoSpawn)
        /\ \A i \in DOMAIN p.agents :
               LET q == {p.agents[i].quota, spawnResources(p, p.agents[i].name).quota}
               IN  /\ cfg.quota > 0 => \A x \in q : x <= cfg.quota
                   /\ (\E x \in q : x > 0) => needsSlice(cfg, p)
        /\ \A i \in DOMAIN cfg.agents :
               cfg.agents[i].workspace # 0 => Len(expandCount(cfg.agents[i].name, cfg.agents[i].count)) = 1

\* A message may pass only where the file has an edge, and nobody sends to himself.
EdgesExact(cfg) ==
    LET p == planTeam(cfg)
    IN  p.ok => \A a, b \in Range(NamesOf(p.agents)) :
            <<a, b>> \in p.allowed <=>
                /\ a # b
                /\ \E i \in DOMAIN cfg.edges :
                       LET e == cfg.edges[i]
                       IN  \/ Matches(e.from, a) /\ Matches(e.to, b)
                           \/ e.both /\ Matches(e.from, b) /\ Matches(e.to, a)

--------------------------------------------------------------------------------
(* The graph                                                                    *)

\* expandStoreSpecs: whom a rule's list stands for.
expandStoreSpecs(specs, agents) == {a \in agents : \E s \in specs : Matches(s, a)}

\* normalize: a rule that names somebody who is not there is refused.
normalize(agents, rules) ==
    \A k \in rules : \A s \in k.read \cup k.write : s.glob \/ s.name \in agents

\* buildGraphInput and TransitiveClosure's hops: the edges, and from each writer of a key
\* to each reader; any key no rule names is everyone's, once there is a store.
adj(agents, allowed, rules, storeEnabled) ==
    allowed \cup
    {<<w, r>> \in agents \X agents :
        w # r /\ \/ storeEnabled
                 \/ \E k \in rules : w \in expandStoreSpecs(k.write, agents) /\ r \in expandStoreSpecs(k.read, agents)}

\* bfsHops, a round of the queue at a time.
RECURSIVE bfsHops(_, _, _)
bfsHops(hops, edges, round) ==
    LET reached == {e[2] : e \in {d \in edges : hops[d[1]] = round /\ hops[d[2]] = -1}}
    IN  IF reached = {} THEN hops
        ELSE bfsHops([a \in DOMAIN hops |-> IF a \in reached THEN round + 1 ELSE hops[a]], edges, round + 1)

TransitiveClosure(agents, edges) ==
    [a \in agents |-> bfsHops([b \in agents |-> IF b = a THEN 0 ELSE -1], edges, 0)]

\* There is a path of n hops from a to b.
RECURSIVE Path(_, _, _, _)
Path(edges, a, b, n) ==
    IF n = 0 THEN a = b ELSE \E e \in edges : e[1] = a /\ Path(edges, e[2], b, n - 1)

\* The hops are those of a shortest path, and none means none: what one agent says can
\* reach another only as far as the graph shows, by edges or by the store.
GraphReaches(agents, allowed, rules, storeEnabled) ==
    LET edges == adj(agents, allowed, rules, storeEnabled)
        hops == TransitiveClosure(agents, edges)
        N == Cardinality(agents)
    IN  normalize(agents, rules) => \A a, b \in agents :
            /\ hops[a][b] >= 0 => /\ Path(edges, a, b, hops[a][b])
                                  /\ \A n \in 0..(hops[a][b] - 1) : ~Path(edges, a, b, n)
            /\ hops[a][b] = -1 => \A n \in 0..N : ~Path(edges, a, b, n)
====
