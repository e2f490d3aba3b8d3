--------------------------------- MODULE Policy ---------------------------------
(***************************************************************************)
(* Reading a kelyfos.toml: its text, its sections, its sizes, whether it   *)
(* may be believed, which directories it may name, and the budgets it sets *)
(* a run (internal/config, host/run.go, host/forward.go).                  *)
(*                                                                         *)
(* Text is a sequence of characters from a small alphabet.  A file's lines *)
(* are headers and keys.  An absolute path is the sequence of its names.   *)
(***************************************************************************)
EXTENDS Integers, Sequences, FiniteSets, SequencesExt, Lists, Inputs

CONSTANTS
    MaxInt,    \* the largest size a number can hold
    MiB,       \* bytes in a mebibyte
    maxAgentCount

ASSUME PolicyAssumption == MaxInt \in Nat /\ MiB \in Nat \ {0} /\ maxAgentCount \in Nat

--------------------------------------------------------------------------------
(* Text                                                                         *)

Quote == "q"
Escape == "\\"
Comma == ","
Hash == "#"
Chars == STRING \cup {Quote, Escape, Comma, Hash}
Bare == Chars \ {Quote, Escape}

\* stripComment: up to the first # outside quotes.
Stripping == [out : Seq(Chars), mode : {"plain", "quoted", "done"}]
StripAt(c, s) ==
    IF s.mode = "done" \/ (s.mode = "plain" /\ c = Hash) THEN [s EXCEPT !.mode = "done"]
    ELSE [out |-> Append(s.out, c),
          mode |-> IF c # Quote THEN s.mode ELSE IF s.mode = "plain" THEN "quoted" ELSE "plain"]
stripComment(s) ==
    OverList([c \in Chars |-> [st \in Stripping |-> StripAt(c, st)]],
             [out |-> <<>>, mode |-> "plain"], s).out

\* splitTopLevel: at the commas outside quotes; an escaped character is passed over.
Splitting == [done : Seq(Seq(Chars)), part : Seq(Chars), mode : {"plain", "quoted", "escaped"}]
SplitAt(c, s) ==
    IF s.mode = "plain" /\ c = Comma
    THEN [done |-> Append(s.done, s.part), part |-> <<>>, mode |-> "plain"]
    ELSE [done |-> s.done, part |-> Append(s.part, c),
          mode |-> CASE s.mode = "escaped" -> "quoted"
                     [] s.mode = "plain" -> IF c = Quote THEN "quoted" ELSE "plain"
                     [] OTHER -> IF c = Quote THEN "plain" ELSE IF c = Escape THEN "escaped" ELSE "quoted"]
splitTopLevel(s) ==
    LET end == OverList([c \in Chars |-> [st \in Splitting |-> SplitAt(c, st)]],
                        [done |-> <<>>, part |-> <<>>, mode |-> "plain"], s)
    IN  Append(end.done, end.part)

parseString(v) ==
    IF Len(v) >= 2 /\ Head(v) = Quote /\ Last(v) = Quote
    THEN [ok |-> TRUE, value |-> SubSeq(v, 2, Len(v) - 1)]
    ELSE [ok |-> FALSE, value |-> <<>>]

\* parseArray, of what stands between the brackets.
parseArray(inner) ==
    LET split == splitTopLevel(inner)
        parts == Kept(split, Range(split) \ {<<>>})
    IN  IF inner = <<>> THEN [ok |-> TRUE, values |-> <<>>]
        ELSE [ok |-> \A i \in DOMAIN parts : parseString(parts[i]).ok,
              values |-> [i \in DOMAIN parts |-> parseString(parts[i]).value]]

Quoted(v) == Append(<<Quote>> \o v, Quote)
Written(values) ==
    OverList([v \in Seq(Chars) |-> [s \in Seq(Chars) |->
                  (IF s = <<>> THEN s ELSE Append(s, Comma)) \o Quoted(v)]], <<>>, values)

\* A list is read as it was written, with commas and hashes in its values and a comment
\* behind it, as long as no value holds a quote or a backslash.
ArrayReads(values, comment) ==
    LET read == parseArray(stripComment(Written(values) \o comment))
    IN  read.ok /\ read.values = values

--------------------------------------------------------------------------------
(* Sections                                                                     *)

Tables == {"sandbox", "resources", "mcp", "sessions", "team", "team.resources", "team.store"}
Arrays == {"team.agent", "team.store.key", "team.edge", "forward", "plugin"}
TeamAgent == "team.agent"
OfSpawn == {"team.agent.spawn", "team.agent.spawn.resources"}
OfAgent == {"team.agent.resources"} \cup OfSpawn
Sections == Tables \cup Arrays \cup OfAgent
Top == "file"   \* above the first header

\* A line is [header, array, name] or a key: [header |-> FALSE, known, good, count], with
\* its name in the section's schema or not, its value of the right form or not.
LastNamed(blocks, name) ==
    LET of == {i \in 1..Len(blocks) : blocks[i].name = name}
    IN  IF of = {} THEN 0 ELSE CHOOSE i \in of : \A j \in of : j <= i
Blocks == [name : Arrays, spawn : {"none", "budget"}, keys : SUBSET (Sections \X Nat)]
Files == [fault : {"none", "refused"}, section : Sections \cup {Top}, blocks : Seq(Blocks)]

\* header: opens a section; an agent's subsection needs an agent above it.
Change(blocks, at, block) == [i \in 1..Len(blocks) |-> IF i = at THEN block ELSE blocks[i]]
header(st, line) ==
    LET agent == LastNamed(st.blocks, TeamAgent)
        block == [name |-> line.name, spawn |-> "none", keys |-> {}]
    IN  IF line.array /\ line.name \in Arrays
        THEN [st EXCEPT !.section = line.name, !.blocks = Append(st.blocks, block)]
        ELSE IF ~line.array /\ line.name \in OfSpawn /\ agent # 0
        THEN [st EXCEPT !.section = line.name,
                        !.blocks = Change(st.blocks, agent, [st.blocks[agent] EXCEPT !.spawn = "budget"])]
        ELSE IF ~line.array /\ (line.name \in Tables \/ (line.name \in OfAgent /\ agent # 0))
        THEN [st EXCEPT !.section = line.name]
        ELSE [st EXCEPT !.fault = "refused"]

\* The block a section's keys go to: the last of its kind, 0 for the file itself.
Target(st) ==
    CASE st.section \in Arrays -> LastNamed(st.blocks, st.section)
      [] st.section \in OfAgent -> LastNamed(st.blocks, TeamAgent)
      [] OTHER -> 0

\* teamKey, pluginKey, forwardKey and parse's own keys: an unknown key refuses the file,
\* and so does a count outside 1..maxAgentCount; 0 stands for a key that is no count.
assignKey(st, n, line) ==
    LET at == Target(st)
    IN  IF ~line.known \/ ~line.good \/ (st.section = TeamAgent /\ line.count \notin 0..maxAgentCount)
        THEN [st EXCEPT !.fault = "refused"]
        ELSE IF at = 0 THEN st
        ELSE [st EXCEPT !.blocks =
                 Change(st.blocks, at,
                        [st.blocks[at] EXCEPT !.keys = st.blocks[at].keys \cup {<<st.section, n>>}])]

parse(lines) ==
    Looped([n \in 1..Len(lines) |-> [st \in Files |->
                IF st.fault = "refused" THEN st
                ELSE IF lines[n].header THEN header(st, lines[n]) ELSE assignKey(st, n, lines[n])]],
           [fault |-> "none", section |-> Top, blocks |-> <<>>], Len(lines))

\* A line that opens a block, and the block it is in, by its number.
Opens(line) == line.header /\ line.array
Opened(lines, n) == Cardinality({m \in 1..n : Opens(lines[m])})

\* Every key of a file that is accepted belongs to the block it is written under, and no
\* budget is set for a worker of an agent that has none.
KeysBelong(lines) ==
    LET p == parse(lines)
    IN  p.fault = "none" =>
        \A i \in DOMAIN p.blocks : \A k \in p.blocks[i].keys :
            /\ k[1] = p.blocks[i].name => Opened(lines, k[2]) = i
            /\ k[1] \in OfAgent =>
                   /\ p.blocks[i].name = TeamAgent /\ Opened(lines, k[2]) >= i
                   /\ \A m \in 1..k[2] : Opens(lines[m]) /\ Opened(lines, m) > i => lines[m].name # TeamAgent
                   /\ k[1] \in OfSpawn => p.blocks[i].spawn = "budget"

--------------------------------------------------------------------------------
(* Sizes                                                                        *)

\* parseBytes: a number and a unit, refused where their product has no room.
parseBytes(n, unit) ==
    IF n < 0 \/ (unit > 1 /\ n > MaxInt \div unit) THEN [ok |-> FALSE, size |-> 0]
    ELSE [ok |-> TRUE, size |-> (n * unit) % (MaxInt + 1)]

parseMiB(n, unit) ==
    LET b == parseBytes(n, unit)
    IN  IF ~b.ok \/ b.size \in 1..(MiB - 1) THEN [ok |-> FALSE, size |-> 0]
        ELSE [ok |-> TRUE, size |-> b.size \div MiB]

\* A size is what was written, and memory that was asked for is never none.
SizesExact(n, unit) ==
    /\ parseBytes(n, unit).ok => parseBytes(n, unit).size = n * unit
    /\ parseMiB(n, unit).ok /\ n > 0 => parseMiB(n, unit).size \in 1..(n * unit)

--------------------------------------------------------------------------------
(* Who may have written it                                                      *)

\* The caller's uid is "me"; a group is private when it is the caller's primary group
\* and has the caller's name.
privateGroup(group) == group.primary /\ group.named
writableByOthers(f) == "others write" \in f.mode \/ ("group write" \in f.mode /\ ~privateGroup(f.group))
trustOwner(owner, discovered) == discovered => owner \in {"me", "root"}

\* Trust: the link and what it leads to.
Trust(f, discovered) ==
    /\ f.link # "none" => trustOwner(f.link, discovered)
    /\ ~writableByOthers(f)
    /\ trustOwner(f.owner, discovered)

\* Whoever can change what the path leads to.
Writers(f) == {f.owner} \cup (IF f.link # "none" THEN {f.link} ELSE {})
                  \cup (IF "others write" \in f.mode THEN {"me", "root", "somebody"} ELSE {})
                  \cup (IF "group write" \in f.mode THEN f.group.members ELSE {})

\* A file that is found rather than named is used only if nobody but the caller and root
\* could have written it.
TrustedByCaller(f) == Trust(f, TRUE) => Writers(f) \subseteq {"me", "root"}

--------------------------------------------------------------------------------
(* Directories it may name                                                      *)

\* Where a path leads, by the links of a file system: a walk of at most so many names,
\* stuck at one that does not exist.
Walking == [at : Seq(STRING), todo : Seq(STRING)]
Advance(fs, w) ==
    LET next == Append(w.at, Head(w.todo))
    IN  IF w.todo = <<>> THEN w
        ELSE IF Head(w.todo) = ".."
             THEN [at |-> IF w.at = <<>> THEN w.at ELSE Front(w.at), todo |-> Tail(w.todo)]
        ELSE IF next \notin DOMAIN fs THEN w
        ELSE IF fs[next].link
             THEN [at |-> IF fs[next].abs THEN <<>> ELSE w.at, todo |-> fs[next].to \o Tail(w.todo)]
        ELSE [at |-> next, todo |-> Tail(w.todo)]
EvalSymlinks(fs, path) ==
    Looped([k \in 1..20 |-> [w \in Walking |-> Advance(fs, w)]], [at |-> <<>>, todo |-> path], 20)

Exists(fs, path) == EvalSymlinks(fs, path).todo = <<>>
Real(fs, path) == EvalSymlinks(fs, path).at

UsedPath(p, abs, root) == Clean(IF abs THEN p ELSE root \o p)

\* Mutant: the names as they are.
resolvePathLexical(fs, p, abs, root) == UsedPath(p, abs, root)

\* resolvePath: the longest part of the path that exists, resolved, and the rest.
resolvePath(fs, p, abs, root) ==
    LET path == UsedPath(p, abs, root)
        there == {n \in 0..Len(path) : Exists(fs, SubSeq(path, 1, n))}
        n == CHOOSE k \in there : \A j \in there : j <= k
    IN  Real(fs, SubSeq(path, 1, n)) \o SubSeq(path, n + 1, Len(path))

insideTree(fs, root, p) ==
    IsPrefix(IF Exists(fs, root) THEN Real(fs, root) ELSE Clean(root), p)

checkWorkspaceScope(fs, root, p, abs) == insideTree(fs, root, resolvePath(fs, p, abs, root))

checkPluginScope(fs, root, p, abs, named) ==
    \/ resolvePath(fs, p, abs, root) \in {resolvePath(fs, q, TRUE, root) : q \in named}
    \/ checkWorkspaceScope(fs, root, p, abs)

\* A directory the file names, and that exists, is in the file's own tree when it is used,
\* whatever links lead to it; for a plugin, or in a place the caller named.
ScopeHeld(fs, root, p, abs, named) ==
    LET path == UsedPath(p, abs, root)
    IN  Exists(fs, path) /\ Exists(fs, root) =>
            /\ checkWorkspaceScope(fs, root, p, abs) => IsPrefix(Real(fs, root), Real(fs, path))
            /\ checkPluginScope(fs, root, p, abs, named) =>
                   \/ IsPrefix(Real(fs, root), Real(fs, path))
                   \/ \E q \in named : Real(fs, path) = resolvePath(fs, q, TRUE, root)

--------------------------------------------------------------------------------
(* Forwards and plugins                                                         *)

MaxPort == 65535
ValidPort(n) == n \in 1..MaxPort
Ends == [host : Nat, guest : Nat]
FileEnds == [host : 0..MaxPort, guest : 0..MaxPort]   \* 0 is a key that is not there
HostsDistinct(list) == \A i, j \in DOMAIN list : i # j => list[i].host # list[j].host

\* CheckForwards; parsePort has refused what is no port.
CheckForwards(list) ==
    /\ \A i \in DOMAIN list : list[i].host # 0 /\ list[i].guest # 0
    /\ HostsDistinct(list)

\* resolveForwards: the flags, if there are any, else the file.
resolveForwards(flags, file) ==
    IF flags # <<>>
    THEN [ok |-> /\ \A i \in DOMAIN flags : ValidPort(flags[i].host) /\ ValidPort(flags[i].guest)
                 /\ HostsDistinct(flags),
          list |-> flags]
    ELSE [ok |-> CheckForwards(file), list |-> file]

\* What is listened on is a port each, on either side, and no host port twice.
ForwardsHeld(flags, file) ==
    LET r == resolveForwards(flags, file)
    IN  r.ok => /\ \A i \in DOMAIN r.list : ValidPort(r.list[i].host) /\ ValidPort(r.list[i].guest)
                /\ Cardinality({r.list[i].host : i \in DOMAIN r.list}) = Len(r.list)

--------------------------------------------------------------------------------
(* Budgets of a run                                                             *)

\* watchBudgets, a tick at a time: size[t] is the record's length, active[t] when the
\* proxy was last active.  0 is a budget that is not set.
Watching == [size : Int, change : Nat, fired : {"none", "max_runtime", "idle_timeout"}, at : Nat]
Tick(max, idle, size, active, t, st) ==
    LET change == IF size[t] # st.size THEN t ELSE st.change
        last == IF active[t] > change THEN active[t] ELSE change
    IN  IF st.fired # "none" THEN st
        ELSE IF max > 0 /\ t >= max THEN [st EXCEPT !.fired = "max_runtime", !.at = t]
        ELSE IF idle = 0 THEN st
        ELSE [size |-> size[t], change |-> last, at |-> t,
              fired |-> IF t - last >= idle THEN "idle_timeout" ELSE "none"]
watchBudgets(max, idle, size, active) ==
    Looped([t \in 1..Len(size) |-> [st \in Watching |-> Tick(max, idle, size, active, t, st)]],
           [size |-> -1, change |-> 0, fired |-> "none", at |-> 0], Len(size))

\* The record grew; for as long as the budget allows, neither it nor the proxy stirred.
Busy(size, t) == t = 1 \/ size[t] # size[t - 1]
Quiet(idle, size, active, t) ==
    /\ idle > 0 /\ t - idle >= 1
    /\ \A u \in (t - idle + 1)..t : ~Busy(size, u) /\ active[t] < u

\* A run is ended at its time, and for being idle exactly when neither the record has
\* grown nor the proxy carried anything for that long.
BudgetsKept(max, idle, size, active) ==
    LET w == watchBudgets(max, idle, size, active)
    IN  /\ max > 0 /\ Len(size) >= max => w.fired # "none" /\ w.at <= max
        /\ w.fired = "idle_timeout" => Quiet(idle, size, active, w.at)
        /\ \A t \in DOMAIN size : Quiet(idle, size, active, t) => w.fired # "none" /\ w.at <= t

\* commandRunOutcome: what a run reports and the code it ends with.
commandRunOutcome(child, timedOut, recorderBroke, interrupted, oomKilled) ==
    LET code == CASE recorderBroke -> 1 [] ~recorderBroke /\ timedOut -> 124 [] OTHER -> child
    IN  [reason |-> CASE recorderBroke -> "recorder_failed"
                      [] ~recorderBroke /\ timedOut -> "timeout"
                      [] ~recorderBroke /\ ~timedOut /\ interrupted -> "interrupted"
                      [] OTHER -> "command_exited",
         code |-> IF code = 0 /\ oomKilled THEN 137 ELSE code]

\* A run that ends with 0 ran its command to a 0, in time, on the record, in its memory.
ZeroMeansDone(child, timedOut, recorderBroke, interrupted, oomKilled) ==
    commandRunOutcome(child, timedOut, recorderBroke, interrupted, oomKilled).code = 0
        => child = 0 /\ ~timedOut /\ ~recorderBroke /\ ~oomKilled

--------------------------------------------------------------------------------
(* What is promised of one input                                                *)

FileLine == [header : {TRUE}, array : BOOLEAN, name : STRING]
            \cup [header : {FALSE}, known : BOOLEAN, good : BOOLEAN, count : Int]

\* Values hold no quote and no backslash, which parseString does not unescape; a number is
\* what its word holds; a port of the file is one or missing (parsePort); the proxy's last
\* activity is never ahead of the clock and never moves back.
PolicyInput(i) ==
    \/ /\ i.kind = "array" /\ i.values \in Seq(Seq(Bare))
       /\ i.comment \in Seq(Chars) /\ (i.comment # <<>> => i.comment[1] = Hash)
    \/ i.kind = "sections" /\ i.lines \in Seq(FileLine)
    \/ i.kind = "bytes" /\ i.n \in Int /\ i.n <= MaxInt /\ i.unit \in Nat \ {0}
    \/ /\ i.kind = "trust"
       /\ privateGroup(i.file.group) => i.file.group.members \subseteq {"me", "root"}
    \/ /\ i.kind = "directory" /\ DOMAIN i.fs \subseteq Seq(STRING)
       /\ \A p \in DOMAIN i.fs : i.fs[p].to \in Seq(STRING)
       /\ i.root \in Seq(STRING) /\ i.path \in Seq(STRING)
    \/ i.kind = "forwards" /\ i.flags \in Seq(Ends) /\ i.file \in Seq(FileEnds)
    \/ /\ i.kind = "budget" /\ i.max \in Nat /\ i.idle \in Nat /\ i.size \in Seq(Nat)
       /\ i.active \in [1..Len(i.size) -> Nat]
       /\ \A t \in 1..Len(i.size) : i.active[t] <= t /\ \A u \in 1..t : i.active[u] <= i.active[t]
    \/ i.kind = "outcome" /\ i.flags \in [1..4 -> BOOLEAN]

\* A policy file is read as it was written, believed only from its owner, and reaches
\* nothing outside its own tree; the budgets it sets are kept.
PolicyHeld ==
    /\ item.kind = "array" => ArrayReads(item.values, item.comment)
    /\ item.kind = "sections" => KeysBelong(item.lines)
    /\ item.kind = "bytes" => SizesExact(item.n, item.unit)
    /\ item.kind = "trust" => TrustedByCaller(item.file)
    /\ item.kind = "directory" => ScopeHeld(item.fs, item.root, item.path, item.abs, item.named)
    /\ item.kind = "forwards" => ForwardsHeld(item.flags, item.file)
    /\ item.kind = "budget" => BudgetsKept(item.max, item.idle, item.size, item.active)
    /\ item.kind = "outcome" =>
           ZeroMeansDone(item.child, item.flags[1], item.flags[2], item.flags[3], item.flags[4])
================================================================================
