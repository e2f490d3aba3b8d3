-------------------------------- MODULE Confine --------------------------------
(***************************************************************************)
(* How the guest confines what it runs (supervisor): the seccomp filter,   *)
(* the Landlock ruleset, and the wrapper every command goes through        *)
(* (profile.go, confine.go); and the file tools, which run in the           *)
(* supervisor and so outside what confines its commands (writable.go,      *)
(* tools.go).  Paths are sequences of components from the root.            *)
(***************************************************************************)
EXTENDS Integers, Sequences, FiniteSets, SequencesExt, Lists, Inputs

CONSTANTS
    Write,        \* writableEverywhere, in order
    DeviceTrees,  \* writableDeviceTrees, in order
    Devices,      \* writableDevices
    Work,         \* the one of Write a machine may lack
    ByteMax,      \* the values of a jump's offset, 256 in the code
    MaxTurns      \* names os.Root looks at, those of links included, before it gives up

ASSUME ConfineAssumption ==
    /\ Write \in Seq(Seq(STRING)) /\ DeviceTrees \in Seq(Seq(STRING))
    /\ Devices \subseteq Seq(STRING) /\ Work \in Seq(STRING)
    /\ ByteMax \in Nat \ {0} /\ MaxTurns \in Nat

--------------------------------------------------------------------------------
(* The seccomp filter                                                           *)

Native == "native"

\* Refused: the profile's list, less ptrace where the flavor permits it.
Refused(deny, allowPtrace) ==
    Kept(deny, Range(deny) \ (IF allowPtrace THEN {"ptrace"} ELSE {}))

Load(field) == [code |-> "load", k |-> field, jt |-> 0, jf |-> 0]
Jump(k, jt, jf) == [code |-> "jeq", k |-> k, jt |-> jt % ByteMax, jf |-> jf % ByteMax]
Return(k) == [code |-> "ret", k |-> k, jt |-> 0, jf |-> 0]

\* The i-th comparison, counted from 1, jumps over what is left of the chain and the
\* allow.  Offsets are kept in a byte.
seccompProgram(denied) ==
    IF denied = <<>> THEN <<>>
    ELSE <<Load("arch"), Jump(Native, 0, Len(denied) + 2), Load("nr")>>
         \o [i \in 1..Len(denied) |-> Jump(denied[i], Len(denied) - i + 1, 0)]
         \o <<Return("allow"), Return("errno")>>

\* What the kernel makes of a filter: one instruction a turn, from the first, with data
\* the architecture and the number of the call.  No jump goes back.
FilterState == [pc : Nat, acc : STRING \cup {"none"}, got : {"running", "invalid", "allow", "errno"}]
Execute(prog, data, s) ==
    LET i == prog[s.pc]
        Stay(got) == [pc |-> s.pc, acc |-> s.acc, got |-> got]
        Go(pc, acc) == [pc |-> pc, acc |-> acc, got |-> s.got]
    IN  IF s.got # "running" THEN s
        ELSE IF s.pc > Len(prog) THEN Stay("invalid")
        ELSE IF i.code = "ret" THEN Stay(i.k)
        ELSE IF i.code = "load" THEN Go(s.pc + 1, data[i.k])
        ELSE Go(s.pc + 1 + (IF s.acc = i.k THEN i.jt ELSE i.jf), s.acc)
Filter(prog, arch, nr) ==
    LET data == [arch |-> arch, nr |-> nr]
        start == [pc |-> 1, acc |-> "none", got |-> "running"]
    IN  IF prog = <<>> THEN "allow"
        ELSE Looped([n \in 1..Len(prog) |-> [s \in FilterState |-> Execute(prog, data, s)]],
                    start, Len(prog)).got

\* The filter refuses what the profile refuses and any call of a foreign architecture,
\* and nothing else, up to the 253 entries (ByteMax - 3) seccompProgram says bound the list.
SeccompExact(deny, allowPtrace, arch, nr) ==
    LET refused == Refused(deny, allowPtrace)
    IN  Len(refused) \in 1..(ByteMax - 3) =>
            (Filter(seccompProgram(refused), arch, nr) = "errno"
                <=> arch # Native \/ nr \in Range(refused))

--------------------------------------------------------------------------------
(* The Landlock ruleset                                                         *)

readRights == {"execute", "read_file", "read_dir"}
writeRights == readRights \cup {"write_file", "remove", "make", "refer", "truncate"}
deviceRights == {"read_file", "write_file", "truncate"}
deviceCreation == {"make_device"}

Beneath(path, tree) == IsPrefix(tree, path)

\* applyLandlock on a kernel with Landlock ABI abi and a machine that has the given
\* directories: the rules, or a failure.  What is missing costs the command its start,
\* except the workspace and the devices.
applyLandlock(abi, has) ==
    LET trees == {d \in Range(Write) \cup Range(DeviceTrees) : d \in has}
    IN  IF abi < 2 \/ \E d \in Range(Write) : d \notin has /\ d # Work
        THEN [ok |-> FALSE, rules |-> {}]
        ELSE [ok |-> TRUE,
              rules |-> {<< <<>>, readRights >>}
                        \cup {<<d, writeRights>> : d \in trees}
                        \cup {<<d, deviceRights>> : d \in Devices \cap has}]

\* What a process under the rules may do at a path: the union of the rules above it.
Granted(rules, path) == UNION {r[2] : r \in {r \in rules : Beneath(path, r[1])}}

\* Nothing creates a device, anything may be read, and writing needs a tree or a device
\* the profile names (applyLandlock).
LandlockExact(has, path) ==
    LET lock == applyLandlock(2, has)
        rights == Granted(lock.rules, path)
    IN  lock.ok => /\ rights \cap deviceCreation = {}
                   /\ readRights \subseteq rights
                   /\ "write_file" \in rights <=>
                          \E d \in (Range(Write) \cup Range(DeviceTrees) \cup Devices) \cap has :
                              Beneath(path, d)

--------------------------------------------------------------------------------
(* The wrapper                                                                  *)

Helper == "/proc/self/exe"
Marker == "kelyfos-confine"

isConfineWrapper(cmd) == cmd.path = Helper /\ cmd.args # <<>> /\ Head(cmd.args) = Marker

\* confine: the command becomes the supervisor itself, told what to run.
confine(cmd, profiled) ==
    IF ~profiled \/ cmd.err \/ cmd.path = NoName \/ isConfineWrapper(cmd) THEN cmd
    ELSE [cmd EXCEPT !.path = Helper,
                     !.args = <<Marker, "--confine", "flavor", "--path", cmd.path, "--">> \o cmd.args]

confinementHolds(cmd, profiled) == ~profiled \/ cmd.err \/ isConfineWrapper(cmd)

parseConfineArgs(args) ==
    IF Len(args) < 7 \/ args[2] # "--confine" \/ args[4] # "--path" \/ args[6] # "--"
    THEN [ok |-> FALSE, path |-> NoName, argv |-> <<>>]
    ELSE [ok |-> TRUE, path |-> args[5], argv |-> SubSeq(args, 7, Len(args))]

\* runConfined: either every layer was applied before the exec, or exit status 126.
runConfined(args, abi, has, seccomp) ==
    LET parsed == parseConfineArgs(args)
    IN  IF parsed.ok /\ applyLandlock(abi, has).ok /\ seccomp
        THEN [code |-> 0, path |-> parsed.path, argv |-> parsed.argv]
        ELSE [code |-> 126, path |-> NoName, argv |-> <<>>]

\* Wrap, check, start.  A command whose lookup failed does not start.
startAndRegister(cmd, abi, has, seccomp) ==
    LET wrapped == confine(cmd, TRUE)
    IN  CASE ~confinementHolds(wrapped, TRUE) -> [code |-> -1, path |-> NoName, argv |-> <<>>]
          [] cmd.err -> [code |-> -1, path |-> NoName, argv |-> <<>>]
          [] OTHER -> runConfined(wrapped.args, abi, has, seccomp)

\* A command starts as it was asked for or not at all, and never without Landlock and
\* seccomp (startAndRegister, confine, runConfined).
StartsConfined(cmd, abi, has, seccomp) ==
    LET got == startAndRegister(cmd, abi, has, seccomp)
    IN  got.code = 0 => /\ got.path = cmd.path /\ got.argv = cmd.args
                        /\ seccomp /\ abi >= 2
                        /\ \A d \in Range(Write) \ {Work} : d \in has

--------------------------------------------------------------------------------
(* The file tools                                                               *)

\* A file system is a function from paths to entries; a file tool looks at it twice, when
\* it checks the path and when it opens it, and a confined process may have changed
\* anything inside the writable trees between.

\* filepath.Rel of two clean paths.
Rel(base, path) ==
    LET common == CHOOSE n \in 0..Len(base) :
                      /\ n <= Len(path) /\ SubSeq(base, 1, n) = SubSeq(path, 1, n)
                      /\ \A m \in (n + 1)..Len(base) :
                             m > Len(path) \/ SubSeq(base, 1, m) # SubSeq(path, 1, m)
    IN  [i \in 1..(Len(base) - common) |-> ".."] \o SubSeq(path, common + 1, Len(path))

beneath(path, tree) == path = tree \/ Head(Rel(tree, path)) # ".."

\* The trees and the way to them are directories nothing confined can replace.
Lstat(fs, path) ==
    CASE path \in DOMAIN fs -> fs[path]
      [] path \notin DOMAIN fs /\ \E t \in Range(Write) \cup Range(DeviceTrees) : IsPrefix(path, t) ->
            [kind |-> "dir"]
      [] OTHER -> [kind |-> "none"]

\* noSymlinksBeneath: no component is a link, up to the first that is not there.
noSymlinksBeneath(fs, path) ==
    \A n \in 1..Len(path) :
        \/ Lstat(fs, SubSeq(path, 1, n)).kind # "link"
        \/ \E m \in 1..(n - 1) : Lstat(fs, SubSeq(path, 1, m)).kind = "none"

\* writableTarget: the tree and the path in it, or the device, or a refusal.
writableTarget(fs, absolute, path) ==
    LET clean == Clean(path)
        trees == Kept(Write \o DeviceTrees,
                      {t \in Range(Write) \cup Range(DeviceTrees) : beneath(clean, t)})
        target(kind, tree, rel) == [kind |-> kind, tree |-> tree, rel |-> rel]
        judged == absolute /\ noSymlinksBeneath(fs, clean)
    IN  CASE judged /\ trees # <<>> -> target("tree", Head(trees), Rel(Head(trees), clean))
          [] judged /\ trees = <<>> /\ clean \in Devices -> target("device", clean, <<>>)
          [] OTHER -> target("refused", <<>>, <<>>)

\* os.Root: follow rest from at inside the tree, a link only if it is relative and stays
\* inside, and a name each turn.  The empty path is a refusal.
Walks == [at : Seq(STRING), rest : Seq(STRING), refused : BOOLEAN]
WalkOn(fs, tree, w) ==
    LET part == Head(w.rest)
        here == Append(w.at, part)
        entry == Lstat(fs, here)
        On(at, rest) == [at |-> at, rest |-> rest, refused |-> FALSE]
        Refuse == [at |-> w.at, rest |-> w.rest, refused |-> TRUE]
    IN  IF w.refused \/ w.rest = <<>> THEN w
        ELSE IF part \in {NoName, "."} THEN On(w.at, Tail(w.rest))
        ELSE IF part = ".." THEN IF w.at = tree THEN Refuse ELSE On(Front(w.at), Tail(w.rest))
        ELSE IF entry.kind = "link"
             THEN IF entry.absolute THEN Refuse ELSE On(w.at, entry.to \o Tail(w.rest))
        ELSE IF entry.kind = "file" /\ Len(w.rest) > 1 THEN Refuse
        ELSE On(here, Tail(w.rest))
Follow(fs, tree, at, rest) ==
    LET end == Looped([n \in 1..MaxTurns |-> [w \in Walks |-> WalkOn(fs, tree, w)]],
                      [at |-> at, rest |-> rest, refused |-> FALSE], MaxTurns)
    IN  IF end.refused \/ end.rest # <<>> THEN <<>> ELSE end.at

\* Mutant: the checked path is opened by its name.
WriteFileByName(checked, opened, absolute, path, size, maxToolBytes) ==
    LET t == writableTarget(checked, absolute, path)
    IN  CASE t.kind = "refused" \/ size > maxToolBytes -> <<>>
          [] t.kind = "device" /\ size <= maxToolBytes -> t.tree
          [] OTHER -> Follow(opened, <<>>, t.tree, t.rel)

\* writeFile: the path is checked in one file system and opened in another; the place
\* the bytes land, or the empty path for a refusal.
WriteFile(checked, opened, absolute, path, size, maxToolBytes) ==
    LET t == writableTarget(checked, absolute, path)
    IN  CASE t.kind = "refused" \/ size > maxToolBytes -> <<>>
          [] t.kind = "device" /\ size <= maxToolBytes ->
                IF Lstat(opened, t.tree).kind = "link" THEN <<>> ELSE t.tree
          [] OTHER -> LET at == Follow(opened, t.tree, t.tree, t.rel)
                      IN  IF at = t.tree \/ Lstat(opened, at).kind = "dir" THEN <<>> ELSE at

\* Whatever a confined process does to the path between the check and the open, a file
\* tool writes only where the profile lets a confined process write; and a path without
\* links is written where it says (writableTarget, writeFile).
WriteContained(checked, opened, absolute, path) ==
    LET at == WriteFile(checked, opened, absolute, path, 1, 1)
        has == Range(Write) \cup Range(DeviceTrees) \cup Devices
    IN  at # <<>> =>
            /\ "write_file" \in Granted(applyLandlock(2, has).rules, at)
            /\ checked = opened => at = Clean(path)

--------------------------------------------------------------------------------
(* What is promised of one input: a call to a filter, a path under the ruleset, *)
(* a command to start, or a file to write                                       *)

AnyPath == Seq(STRING)

\* exec.Command's first argument is the name it was given, and what the name resolves to
\* ends in that name: one that resolves to the helper is not the marker.
Command == {c \in [path : STRING, args : Seq(STRING), err : BOOLEAN] :
               c.args # <<>> /\ (c.path = Helper => Head(c.args) # Marker)}

\* What is in a file system is a file, a directory or a link, and in a directory.
FileEntry(e) == \/ e.kind \in {"file", "dir"}
                \/ e \in [kind : {"link"}, absolute : BOOLEAN, to : AnyPath]
FileSystem(fs) ==
    /\ DOMAIN fs \subseteq AnyPath
    /\ \A p \in DOMAIN fs :
           FileEntry(fs[p]) /\ \A n \in 1..(Len(p) - 1) : Lstat(fs, SubSeq(p, 1, n)).kind = "dir"

ConfineInput(i) ==
    \/ i \in [kind : {"seccomp"}, deny : Seq(STRING), ptrace : BOOLEAN, arch : STRING, nr : STRING]
    \/ i \in [kind : {"landlock"}, has : SUBSET AnyPath, path : AnyPath]
    \/ i \in [kind : {"start"}, cmd : Command, abi : Nat, has : SUBSET AnyPath, seccomp : BOOLEAN]
    \/ /\ i.kind = "write" /\ i.path \in AnyPath
       /\ FileSystem(i.checked) /\ FileSystem(i.opened)

\* The guest confines every command it runs and its own file tools.
Confined ==
    /\ item.kind = "seccomp" => SeccompExact(item.deny, item.ptrace, item.arch, item.nr)
    /\ item.kind = "landlock" => LandlockExact(item.has, item.path)
    /\ item.kind = "start" => StartsConfined(item.cmd, item.abi, item.has, item.seccomp)
    /\ item.kind = "write" => WriteContained(item.checked, item.opened, TRUE, item.path)
================================================================================
