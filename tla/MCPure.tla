--------------------------------- MODULE MCPure ---------------------------------
(* Inputs of the pure rules: every step picks one, the invariants judge it. *)
EXTENDS TLC, Confine, Credentials, Extract, Policy, TeamPlan, Records, Reading

--------------------------------------------------------------------------------
(* Confine                                                                      *)

ConfineWrite == << <<"work">>, <<"tmp">> >>
ConfineDeviceTrees == << <<"dev", "pts">> >>
ConfineDevices == {<<"dev", "null">>}
ConfineWork == <<"work">>

LongList == [i \in 1..(ByteMax - 3) |-> ToString(i)]
Denied == {<<>>, <<"ptrace">>, <<"mount", "ptrace">>, <<"mount", "bpf", "kexec">>, LongList}
SeccompItems ==
    {[kind |-> "seccomp", deny |-> d, ptrace |-> p, arch |-> a, nr |-> n] :
        d \in Denied, p \in BOOLEAN, a \in {Native, "foreign"},
        n \in {"ptrace", "mount", "kexec", "1", "13", "open"}}

Has == {Range(Write) \cup Range(DeviceTrees) \cup Devices} \cup {{<<"tmp">>}, {<<"work">>}}
Places == {<<"etc", "passwd">>, <<"work">>, <<"work", "a">>, <<"worker", "a">>,
           <<"tmp", "a", "b">>, <<"dev", "null">>, <<"dev", "vda">>, <<"dev", "pts", "0">>}
LandlockItems == {[kind |-> "landlock", has |-> h, path |-> p] : h \in Has, p \in Places}

\* A command as exec.Command builds it: its first argument is the name it was given.
Commands ==
    {[path |-> "/bin/ls", args |-> <<"ls", "-l">>, err |-> FALSE],
     [path |-> "/bin/ls", args |-> <<"/bin/ls">>, err |-> FALSE],
     [path |-> Helper, args |-> <<Helper, "--confine", "flavor", "--path", "/bin/ls", "--", "ls">>,
      err |-> FALSE],
     [path |-> "/usr/bin/kelyfos-confine", args |-> <<Marker>>, err |-> FALSE],
     [path |-> "nosuch", args |-> <<"nosuch">>, err |-> TRUE],
     [path |-> "", args |-> <<"">>, err |-> TRUE]}
StartItems ==
    {[kind |-> "start", cmd |-> c, abi |-> a, has |-> h, seccomp |-> s] :
        c \in Commands, a \in {0, 1, 2, 3}, h \in Has, s \in BOOLEAN}

\* File systems: one name in the workspace and what is below it, and a second name.
Link(absolute, to) == [kind |-> "link", absolute |-> absolute, to |-> to]
Links == {Link(TRUE, <<"etc">>), Link(FALSE, <<"..", "etc">>), Link(FALSE, <<"c">>)}
Plain == {[kind |-> "file"], [kind |-> "dir"]}
A == <<"work", "a">>
B == <<"work", "a", "b">>
C == <<"work", "c">>
FileSystems ==
    LET tops == {<<>>} \cup {A :> e : e \in Plain \cup Links}
                \cup {A :> [kind |-> "dir"] @@ B :> e : e \in Plain \cup {Link(TRUE, <<"etc">>), Link(FALSE, <<"..", "..", "etc">>)}}
        seconds == {<<>>} \cup {C :> e : e \in {[kind |-> "dir"], Link(FALSE, <<"a">>), Link(FALSE, <<"..">>)}}
    IN  {t @@ s : t \in tops, s \in seconds}
Paths == {A, B, C, C \o <<"b">>, <<"work">>, <<"work", "..", "etc", "a">>,
          <<"tmp", "", "..", ".", "work", "a">>, <<"worker">>, <<"dev", "null">>,
          <<"dev", "vda">>, <<"dev", "..">>, <<"work", "..a">>}
WriteItems ==
    {[kind |-> "write", checked |-> f, opened |-> g, path |-> p] :
        f \in FileSystems, g \in FileSystems, p \in Paths}

ASSUME ConfineItems ==
    \A i \in SeccompItems \cup LandlockItems \cup StartItems \cup WriteItems : ConfineInput(i)

--------------------------------------------------------------------------------
(* Grants                                                                       *)

GrantsNumerals == {"1", "2"}
GrantsUnsafeV4 == {"loopback", "private", "metadata"}
GrantsUnsafeV6 == {"unique local", "link local"}

Entry(labels) == [labels |-> labels, wild |-> FALSE, dots |-> 0]
Wild(labels) == [labels |-> labels, wild |-> TRUE, dots |-> 0]
Address == <<"1", "2", "1", "1">>
AllowLists ==
    LET entries == {Entry(<<"hub", "com">>), Wild(<<"api", "hub", "com">>), Entry(<<"com">>),
                    Entry(<<"1", "1">>), Entry(Address), Entry(<<"a">> \o Address)}
    IN  {<<>>} \cup {<<e>> : e \in entries}
        \cup {<<Entry(<<"hub", "com">>), e>> : e \in entries}
\* What a file holds passed CheckAllowList when it was read.
Checked == {l \in AllowLists : Len(l) <= 1 /\ CheckAllowList(l)}
Hosts ==
    {[labels |-> l, dots |-> d] :
        l \in {<<"hub", "com">>, <<"x", "api", "hub", "com">>, <<"evilhub", "com">>, <<"com">>,
               Address, <<"a">> \o Address, <<"1", "1">>},
        d \in 0..2}
AddressItems ==
    {[kind |-> "address", addr |-> [form |-> f, addr |-> a]] :
        f \in {"v4", "v6", "mapped", "invalid"} \cup Carriers,
        a \in {"public"} \cup UnsafeV4 \cup UnsafeV6}
ReachItems ==
    {[kind |-> "reach", policy |-> p, meta |-> m, asked |-> a, given |-> g, host |-> h] :
        p \in Checked, m \in Checked, a \in AllowLists,
        g \in BOOLEAN, h \in Hosts}
Sizes == 0..3
SizeItems ==
    {[kind |-> "size", cfg |-> [res |-> r, legacy |-> l], asked |-> a, typed |-> t, host |-> h] :
        r \in Sizes, l \in Sizes, a \in Sizes, t \in BOOLEAN, h \in Sizes}
SnapshotItems ==
    LET both == [cpus : {0, 1, 2}, mem : {0, 1, 2}]
    IN  {[kind |-> "snapshot", cfg |-> c, meta |-> m, host |-> h] : c \in both, m \in both, h \in both}
TargetItems ==
    {[kind |-> "target", allow |-> a, ports |-> p,
      req |-> [host |-> h, port |-> n, method |-> m, scheme |-> s, plausible |-> b]] :
        a \in Checked, p \in {<<>>, <<8080>>}, h \in Hosts,
        n \in {-1, 0, 443, 8080, 65536}, m \in {"GET", "CONNECT"}, s \in {"http", "https"},
        b \in BOOLEAN}
ASSUME GrantItems ==
    AddressItems \cup ReachItems \cup SizeItems \cup SnapshotItems \cup TargetItems \subseteq GrantInputs

--------------------------------------------------------------------------------
(* Credentials                                                                  *)

CredentialsOdd == {"..;", "%2f.."}
CredentialsReread == "..;" :> <<"..">> @@ "%2f.." :> <<"", "..">>

Segments == {"repos", "repos-private", "", ".", ".."} \cup Odd
ShortPaths == UNION {[1..n -> Segments] : n \in 1..3}
ScopeItems ==
    {[kind |-> "scope", scope |-> s, path |-> p] :
        s \in {<<>>, <<"">>, <<"repos">>, <<"repos", "">>, <<"repos", "", "">>, <<"repos", "x", "">>},
        p \in ShortPaths \cup {<<"repos", "x">> \o p : p \in ShortPaths}}
SpecItems ==
    {[kind |-> "spec", host |-> h,
      spec |-> [badByte |-> FALSE, name |-> "TOKEN", ats |-> n, scheme |-> c, hasPath |-> b,
                host |-> d, path |-> p]] :
        n \in {0, 1, 2}, c \in {"none", "bearer", "basic", "digest"}, b \in BOOLEAN,
        d \in {Entry(<<"hub", "com">>), Wild(<<"hub", "com">>), Entry(<<"com">>), Entry(<<"">>),
               Entry(Address), Entry(<<"1", "1">>), Entry(<<"-", "com">>)},
        p \in {<<"">>, <<"repos">>, <<"repos", "", "">>}, h \in Hosts}

\* A body of up to five bytes, cut where the set says.
Cut(body, at) ==
    LET ends == SetToSortSeq(at \cup {Len(body)}, <)
    IN  [i \in DOMAIN ends |-> SubSeq(body, IF i = 1 THEN 1 ELSE ends[i - 1] + 1, ends[i])]
ValueLists == {<< <<"a", "b">> >>, << <<"a", "b", "a">> >>, << <<"a">> >>,
               << <<"a", "b">>, <<"b", "a", "b">> >>, << <<"b", "a", "b">>, <<"a", "b">> >>,
               << <<"a", "a">>, <<"b">> >>}
EchoItems ==
    UNION {{[kind |-> "echo", values |-> v, pieces |-> Cut(b, at), room |-> r] :
               v \in ValueLists, b \in [1..n -> {"a", "b"}], at \in SUBSET (1..(n - 1)), r \in {1, 2, 9}} :
           n \in 1..5}
ResponseItems ==
    {[kind |-> "response", values |-> v, resp |-> [bodyless |-> b, codings |-> c]] :
        v \in ValueLists, b \in BOOLEAN, c \in SUBSET {"", "identity", "gzip"}}

ASSUME CredentialItems ==
    \A i \in ScopeItems \cup SpecItems \cup EchoItems \cup ResponseItems : CredentialInput(i)

--------------------------------------------------------------------------------
(* Extract                                                                      *)

ExtractBadNames == {"quote"}

Record(name, kind) ==
    [parses |-> TRUE, name |-> name, mode |-> {"read"}, kind |-> kind, size |-> 1, dump |-> 1,
     to |-> <<>>, abs |-> FALSE]
LinkTo(name, to) == [Record(name, "link") EXCEPT !.to = to]
Dot == Record(".", "dir")
Image(root, sub) == (<<>> :> <<Dot>> \o root) @@ (<<"s">> :> <<Dot>> \o sub)

Targets == {<<"..">>, <<"a", "..">>, <<"s", "b", "x">>, <<"b", "..", "x">>, <<"c">>, <<"s", "a">>,
            <<"..", "c">>, <<"..", "..">>}
LinkImages ==
    {Image(<<Record("s", "dir"), LinkTo("c", c)>>, <<LinkTo("a", a), LinkTo("b", b)>>) :
        a \in Targets, b \in Targets, c \in Targets}
Modes == {{"read", "write"}, {"others write", "set-id"}}
Oddities ==
    {[Record("f", "file") EXCEPT !.mode = m, !.dump = d, !.size = n] :
        m \in Modes, d \in {-1, 0, 1, 3}, n \in {-1, 0, 1, 3}}
    \cup {[Record("f", "file") EXCEPT !.parses = FALSE], Record("quote", "file"), Record("", "file"),
          Record("f", "other"), Record("..", "dir"), Record("lost+found", "dir"), Record("s", "file"),
          [LinkTo("c", <<"s">>) EXCEPT !.abs = TRUE], [LinkTo("c", <<"s">>) EXCEPT !.dump = 0]}
FileImages ==
    UNION {{Image(<<Record("s", "dir"), o>>, <<Record("g", "file")>>), Image(<<Record("s", "dir")>>, <<o>>),
            Image(<<Record("s", "dir"), Record("g", "file"), LinkTo("f", <<"g">>), o>>, <<>>),
            Image(<<o, o>>, <<>>)} : o \in Oddities}
    \cup {Image(<<Record("s", "dir")>>, <<Record("s", "dir")>>),
          (<<>> :> <<Dot, Record("s", "dir")>>) @@ (<<"s">> :> <<>>),
          Image([i \in 1..maxImageEntries |-> Record(ToString(i), "file")], <<>>),
          Image([i \in 1..(maxImageEntries + 1) |-> Record(ToString(i), "file")], <<>>)}
ImageItems ==
    {[kind |-> "image", image |-> i, disk |-> d, free |-> 9] : i \in LinkImages \cup FileImages, d \in {3, 9}}

FileOf(m, lines) == [kind |-> "file", mode |-> m, lines |-> lines]
Nodes == {FileOf({"read"}, <<"x">>), FileOf({"read"}, <<"y">>), FileOf({"write"}, <<"x">>),
          [kind |-> "dir", mode |-> {"read"}], [kind |-> "link", mode |-> {"read"}, to |-> <<"x">>],
          [kind |-> "link", mode |-> {"read"}, to |-> <<"y">>]}
OneTrees == {<<>>} \cup {(<<"a">> :> n) : n \in Nodes}
TreeItems ==
    {[kind |-> "trees", was |-> w @@ (<<"b">> :> FileOf({"read"}, <<"x">>)), now |-> n] :
        w \in OneTrees, n \in OneTrees \cup {o @@ (<<"b">> :> FileOf({"read"}, <<"x">>)) : o \in OneTrees}}
Texts == UNION {[1..n -> {"x", "y"}] : n \in 0..4}
LineItems == {[kind |-> "lines", was |-> a, now |-> b] : a \in Texts, b \in Texts}

--------------------------------------------------------------------------------
(* Policy                                                                       *)

Characters == {"a", ",", "#"}
Values == UNION {[1..n -> Characters] : n \in 0..2}
ArrayItems ==
    {[kind |-> "array", values |-> v, comment |-> c] :
        v \in UNION {[1..n -> Values] : n \in 0..2}, c \in {<<>>, <<"#">>, <<"#", Quote, ",">>}}

HeaderLine(array, name) == [header |-> TRUE, array |-> array, name |-> name]
KeyLine(known, times) == [header |-> FALSE, known |-> known, good |-> TRUE, count |-> times]
FileLines ==
    {HeaderLine(TRUE, "team.agent"), HeaderLine(TRUE, "forward"), HeaderLine(FALSE, "sandbox"),
     HeaderLine(FALSE, "team.agent.spawn"), HeaderLine(FALSE, "team.agent.resources"),
     HeaderLine(FALSE, "nothing"), KeyLine(TRUE, 0), KeyLine(TRUE, maxAgentCount + 1)}
SectionItems == {[kind |-> "sections", lines |-> l] : l \in UNION {[1..n -> FileLines] : n \in 1..4}}

BytesItems == {[kind |-> "bytes", n |-> n, unit |-> u] : n \in -1..20, u \in {1, 2, 4, 16}}

GroupsOf == {[primary |-> TRUE, named |-> TRUE, members |-> {"me"}],
             [primary |-> TRUE, named |-> FALSE, members |-> {"me", "somebody"}],
             [primary |-> FALSE, named |-> TRUE, members |-> {"somebody"}]}
TrustItems ==
    {[kind |-> "trust", file |-> [link |-> l, owner |-> o, mode |-> m, group |-> g]] :
        l \in {"none", "me", "root", "somebody"}, o \in {"me", "root", "somebody"},
        m \in SUBSET {"others write", "group write"}, g \in GroupsOf}

Directory == [link |-> FALSE, abs |-> FALSE, to |-> <<>>]
LinkDir(abs, to) == [link |-> TRUE, abs |-> abs, to |-> to]
Trees ==
    LET base == (<<>> :> Directory) @@ (<<"p">> :> Directory) @@ (<<"etc">> :> Directory)
                @@ (<<"etc", "x">> :> Directory) @@ (<<"p", "x">> :> Directory)
        tops == {<<>>} \cup {(<<"p", "l">> :> d) :
                    d \in {Directory, LinkDir(TRUE, <<"etc">>), LinkDir(FALSE, <<"..", "etc">>), LinkDir(FALSE, <<"x">>)}}
        homes == {<<>>, (<<"q">> :> LinkDir(TRUE, <<"p">>))}
    IN  {t @@ h @@ base : t \in tops, h \in homes}
ScopePaths == {<<>>, <<"l">>, <<"l", "x">>, <<"x">>, <<"..", "etc">>, <<"l", "..", "x">>, <<"new">>,
               <<"l", "new">>, <<"p", "x">>, <<"etc", "x">>, <<"q", "l">>, <<"pp">>}
DirectoryItems ==
    {[kind |-> "directory", fs |-> f, root |-> r, path |-> p, abs |-> a, named |-> n] :
        f \in Trees, r \in {<<"p">>, <<"q">>}, p \in ScopePaths, a \in BOOLEAN,
        n \in {{}, {<<"etc", "x">>}, {<<"q", "l">>}}}

Ports == {0, 1, 65535, 65536}
ForwardLists == {<<>>} \cup {<<[host |-> h, guest |-> g]>> : h \in Ports, g \in Ports}
                \cup {<<[host |-> h, guest |-> 1], [host |-> k, guest |-> 1]>> : h \in Ports, k \in Ports}
\* A port in the file is one: parsePort refused the rest, and 0 is a missing key.
FileForwards == {l \in ForwardLists : \A i \in DOMAIN l : 65536 \notin {l[i].host, l[i].guest}}
ForwardItems == {[kind |-> "forwards", flags |-> f, file |-> g] : f \in ForwardLists, g \in FileForwards}

\* A record only grows, and the proxy's last activity is never ahead of the clock.
BudgetItems ==
    {[kind |-> "budget", max |-> m, idle |-> i, size |-> [t \in 1..5 |-> Cardinality({u \in g : u <= t})],
      active |-> [t \in 1..5 |-> LET before == {u \in a : u <= t}
                                 IN  IF before = {} THEN 0 ELSE CHOOSE u \in before : \A w \in before : w <= u]] :
        m \in 0..4, i \in 0..3, g \in SUBSET (1..5), a \in SUBSET (2..5)}
OutcomeItems ==
    {[kind |-> "outcome", child |-> c, flags |-> f] : c \in {0, 1, 124}, f \in [1..4 -> BOOLEAN]}

ASSUME PolicyItems ==
    \A i \in ArrayItems \cup SectionItems \cup BytesItems \cup TrustItems \cup DirectoryItems
              \cup ForwardItems \cup BudgetItems \cup OutcomeItems : PolicyInput(i)

--------------------------------------------------------------------------------
(* TeamPlan                                                                     *)

TeamBadParts == {"bad"}

Lead == <<"lead">>
WorkerAgent == <<"lead", "-", "spawn", "-", "1">>
Agent(name, times) ==
    [name |-> name, count |-> times, shape |-> 1, allow |-> <<>>, secrets |-> <<>>, workspace |-> 0,
     quota |-> 0, idle |-> FALSE, spawn |-> NoSpawn]
Spawning == [timed |-> FALSE, quota |-> 2]
Variants(a) ==
    {a, [a EXCEPT !.shape = 2], [a EXCEPT !.workspace = 1], [a EXCEPT !.quota = 2], [a EXCEPT !.idle = TRUE],
     [a EXCEPT !.spawn = Spawning], [a EXCEPT !.spawn = [Spawning EXCEPT !.timed = TRUE]],
     [a EXCEPT !.allow = <<Entry(<<"hub", "com">>)>>],
     [a EXCEPT !.secrets = <<Entry(<<"hub", "com">>)>>]}
AgentLists ==
    {<<>>} \cup {<<a, b>> : a \in UNION {Variants(Agent(Lead, n)) : n \in {0, 2}},
                            b \in UNION {Variants(Agent(n, 0)) : n \in {<<"w">>, WorkerAgent, Lead,
                                                                       <<"lead", "-", "2">>, <<"bad">>}}}
TeamSpec(name, glob) == [name |-> name, glob |-> glob]
EdgeLists ==
    {<<>>} \cup {<<[from |-> f, to |-> t, both |-> b]>> :
        f \in {TeamSpec(Lead, FALSE), TeamSpec(<<>>, TRUE), TeamSpec(Lead, TRUE)},
        t \in {TeamSpec(<<"w">>, FALSE), TeamSpec(Lead, TRUE), TeamSpec(<<>>, FALSE)}, b \in BOOLEAN}
TeamItems ==
    {[kind |-> "team", cfg |-> [agents |-> a, edges |-> e, quota |-> q, named |-> TRUE, plugins |-> FALSE,
                                forwards |-> f]] :
        a \in AgentLists, e \in EdgeLists, q \in {0, 1, 2}, f \in BOOLEAN}

Trio == {<<"a">>, <<"b">>, <<"c">>}
KeyRules == {{}} \cup {{[read |-> {r}, write |-> {w}]} :
                r \in {TeamSpec(<<"a">>, FALSE), TeamSpec(<<>>, TRUE), TeamSpec(<<"d">>, FALSE)},
                w \in {TeamSpec(<<"b">>, FALSE), TeamSpec(<<"c">>, FALSE)}}
GraphItems ==
    {[kind |-> "graph", allowed |-> e, rules |-> k, store |-> s] :
        e \in SUBSET {<<a, b>> \in Trio \X Trio : a # b}, k \in KeyRules, s \in BOOLEAN}

--------------------------------------------------------------------------------
(* Records                                                                      *)

EventField(kind, content, elements, escape, rune) ==
    [kind |-> kind, content |-> content, elements |-> elements, escape |-> escape, rune |-> rune, note |-> 0]
EventFields ==
    {EventField("string", c, 0, e, r) : c \in {0, 2, 4, 9, 20, 40, 90}, e \in {1, 2, 6}, r \in {1, 3}}
    \cup {EventField("strings", c, n, 1, 2) : c \in {9, 60}, n \in {1, 9}}
    \cup {EventField("records", c, n, 1, 1) : c \in {9, 60}, n \in {1, 9}}
ClipItems == {[kind |-> "clip", event |-> <<a, b, c>>] :
                 a \in EventFields, b \in EventFields,
                 c \in {EventField("string", n, 0, e, 1) : n \in {3, 30}, e \in {1, 6}}}
LevelItems == {[kind |-> "level", sizes |-> s, budget |-> b] :
                  s \in UNION {[1..n -> {0, 1, 3, 7}] : n \in 1..4}, b \in 0..12}

Member(key, exact, value) == [key |-> key, exact |-> exact, value |-> value]
ErrorValues ==
    {Null} \cup {Object(<<Member("kind", TRUE, Text("k"))>> \o m) :
        m \in {<<>>, <<Member("message", TRUE, Text("c"))>>, <<Member("message", FALSE, Text("c"))>>,
               <<Member("message", TRUE, Text(Erased))>>, <<Member("odd", TRUE, Text("c"))>>,
               <<Member("message", TRUE, Text("c")), Member("message", TRUE, Text("d"))>>,
               <<Member("message", TRUE, Text("c")), Member("message", TRUE, Text(""))>>}}
KeyValues ==
    {Null, Objects(<<>>)} \cup {Objects(<< <<Member("name", TRUE, Text("c"))>>, <<m, Member("read", TRUE, List(<<"a">>))>> >>) :
        m \in {Member("name", e, Text(v)) : e \in BOOLEAN, v \in {"c", "", Erased}}}
LineItemsOf(values, key) == {<<>>} \cup {<<Member(key, TRUE, v)>> : v \in values}
EraseItems ==
    {[kind |-> "erase", line |-> <<Member("type", TRUE, Text("t"))>> \o d \o c \o e \o k \o o] :
        d \in LineItemsOf({Text("c"), Text(""), Text(Erased)}, "data")
              \cup {<<Member("data", FALSE, Text("c"))>>, <<Member("data", FALSE, Text("c")), Member("data", TRUE, Text("c"))>>,
                    <<Member("data", TRUE, Text("c")), Member("data", TRUE, Text(""))>>},
        c \in LineItemsOf({List(<<>>), List(<<"c", Erased>>), List(<<Erased>>)}, "cmd"),
        e \in LineItemsOf(ErrorValues, "error"), k \in LineItemsOf(KeyValues, "store_keys"),
        o \in {<<>>, <<Member("newer", TRUE, Text("n")), Member("agents", TRUE, Objects(<< <<Member("name", TRUE, Text("a"))>> >>))>>}}

--------------------------------------------------------------------------------
(* Reading                                                                      *)

Streams == UNION {[1..n -> {"a", NL}] : n \in 0..9}
ReadSizes == UNION {[1..n -> {1, 2, 5}] : n \in 0..2}
StreamItems == {[kind |-> "stream", stream |-> s, sizes |-> z] : s \in Streams, z \in ReadSizes}

SessionSteps == [at : {"seen", "started", "noted"}, id : {1, 2}]
Orders == UNION {SetToSeqs(steps) : steps \in SUBSET SessionSteps}
ObserverItems ==
    UNION {{[kind |-> "observer", steps |-> s, tool |-> <<t, u>>, how |-> <<h, g>>] :
               s \in {o \in Orders : Plausible(o, <<t, u>>)},
               h \in {"ok", "error", "unreadable", "none"}, g \in {"ok", "none"}} :
           t \in {"exec", "write", "read"}, u \in {"exec", "write"}}

RecordEvent(type, who, call, good, name) ==
    [type |-> type, agent |-> who, call |-> call, good |-> good, name |-> name]
RecordEvents ==
    {RecordEvent("start", "", "1", TRUE, ""), RecordEvent("output", "", "1", TRUE, "")}
    \cup {RecordEvent("exit", "x", c, g, "") : c \in {"1", "2"}, g \in BOOLEAN}
    \cup {RecordEvent("start", a, "2", TRUE, "") : a \in {"x", "y"}}
    \cup {RecordEvent("output", a, "2", TRUE, "") : a \in {"x", "y"}}
    \cup {RecordEvent("egress", "x", "", g, h) : g \in BOOLEAN, h \in {"h", "i"}}
    \cup {RecordEvent("egress", "y", "", FALSE, h) : h \in {"", "j"}}
    \cup {RecordEvent("foreign", "", "", FALSE, "f")}
    \cup {RecordEvent("message", "x", "", p = "y", p) : p \in {"y", "z", "v"}}
    \cup {RecordEvent("spawn", "x", "", g, "z") : g \in BOOLEAN}
    \cup {RecordEvent(t, a, "", FALSE, "k") : t \in {"store", "secret"}, a \in {"x"}}
    \cup {RecordEvent("ready", a, "", TRUE, "") : a \in {"", "y"}}
    \cup {RecordEvent("write", "y", "", TRUE, "")}
CallEvents == {e \in RecordEvents : e.type \in {"start", "output", "exit", "message"}}
DigestItems == {[kind |-> "digest", events |-> s] :
                   s \in UNION {[1..n -> RecordEvents] : n \in 1..3} \cup [1..4 -> CallEvents]}

--------------------------------------------------------------------------------

Picks(set) == item.kind = "none" /\ item' \in set

Init == item = [kind |-> "none"]
Next == \/ Picks(SeccompItems) \/ Picks(LandlockItems) \/ Picks(StartItems)
        \/ Picks(WriteItems)
        \/ Picks(AddressItems) \/ Picks(ReachItems) \/ Picks(SizeItems) \/ Picks(SnapshotItems)
        \/ Picks(TargetItems)
        \/ Picks(ScopeItems) \/ Picks(SpecItems) \/ Picks(EchoItems) \/ Picks(ResponseItems)
        \/ Picks(ImageItems) \/ Picks(TreeItems) \/ Picks(LineItems)
        \/ Picks(ArrayItems) \/ Picks(SectionItems) \/ Picks(BytesItems) \/ Picks(TrustItems)
        \/ Picks(DirectoryItems) \/ Picks(ForwardItems) \/ Picks(BudgetItems) \/ Picks(OutcomeItems)
        \/ Picks(TeamItems) \/ Picks(GraphItems)
        \/ Picks(ClipItems) \/ Picks(LevelItems) \/ Picks(EraseItems)
        \/ Picks(StreamItems) \/ Picks(ObserverItems) \/ Picks(DigestItems)
Spec == Init /\ [][Next]_item

\* A team that is accepted can be raised as it is planned, and its graph shows every way.
PlanHeld ==
    /\ item.kind = "team" => PlanSound(item.cfg) /\ EdgesExact(item.cfg)
    /\ item.kind = "graph" => GraphReaches(Trio, item.allowed, item.rules, item.store)

\* What was written is what is read: a workspace the guest wrote comes back whole, leads
\* nowhere, and is compared exactly; a line can be read back, and what was erased from it is
\* gone; frames, sessions and events come out as they went in.
ReadBack ==
    /\ item.kind = "image" => ExtractSafe(item.image, item.disk, item.free, 60)
    /\ item.kind = "trees" => FilesReported(item.was, item.now)
    /\ item.kind = "lines" => CountsShortest(item.was, item.now)
    /\ item.kind = "clip" => FitHeld(item.event)
    /\ item.kind = "level" => LevelHeld(item.sizes, item.budget)
    /\ item.kind = "erase" => ErasureHeld(item.line)
    /\ item.kind = "stream" => FramesHeld(item.stream, item.sizes)
    /\ item.kind = "observer" => ObserverHeld(item.steps, item.tool, item.how)
    /\ item.kind = "digest" => DigestHeld(item.events)
====
