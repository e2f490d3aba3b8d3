--------------------------------- MODULE Grants ---------------------------------
(***************************************************************************)
(* What a machine is granted: the hosts it may reach, the addresses a name *)
(* may resolve to, and its size, as the policy file, the command line, a   *)
(* tool call, a snapshot and the host each bound them (host/run.go,        *)
(* servemcptools.go, servemcpstate.go, snapshot.go, internal/egress).      *)
(*                                                                         *)
(* A domain is the sequence of its labels.  An allowlist entry is what was *)
(* typed: labels, a leading wildcard, trailing dots.  A size is a number,  *)
(* 0 where a bound is not stated; cpus and memory are bounded alike.       *)
(***************************************************************************)
EXTENDS Integers, Sequences, FiniteSets, SequencesExt, Lists, Inputs

CONSTANTS
    Numerals,    \* labels that are numbers
    UnsafeV4,    \* IPv4 addresses no name may resolve to (unsafePrefixes)
    UnsafeV6     \* IPv6 addresses of the table that carry no IPv4 address

NoLabel == ""  \* what is left between two dots

ASSUME GrantsAssumption == NoLabel \in STRING \ Numerals

--------------------------------------------------------------------------------
(* Hosts                                                                        *)

ipLiteral(d) == Len(d) = 4 /\ Range(d) \subseteq Numerals
numericLabels(d) == Range(d) \subseteq Numerals

NormaliseDomain(entry) == entry.labels

\* A host as a request names it loses one trailing dot; what is left is an empty label.
HostName(host) == host.labels \o [i \in 1..(host.dots - 1) |-> NoLabel]

IsBelow(host, entry) == Len(host) > Len(entry) /\ IsSuffix(entry, host)

\* Mutant: an address is matched by suffix like a name.
domainCoversAny(entry, host) == host = entry \/ IsBelow(host, entry)

domainCovers(entry, host) ==
    \/ host = entry
    \/ ~ipLiteral(host) /\ ~ipLiteral(entry) /\ IsBelow(host, entry)

allowsHost(allow, host) ==
    \E i \in DOMAIN allow : domainCovers(NormaliseDomain(allow[i]), HostName(host))

\* containsDomain, in the commands: the suffix rule again, without the exception.
containsDomain(allow, entry) ==
    LET d == NormaliseDomain(entry)
    IN  \E i \in DOMAIN allow :
            LET a == NormaliseDomain(allow[i]) IN d = a \/ IsBelow(d, a)

\* CheckAllowList refuses a bare top-level domain and the tail of an address.
CheckAllowList(list) ==
    \A i \in DOMAIN list :
        LET d == NormaliseDomain(list[i])
        IN  d = <<NoLabel>> \/ ipLiteral(d) \/ (Len(d) >= 2 /\ ~numericLabels(d))

DefaultPorts == <<80, 443>>
EffectivePorts(ports) == IF ports # <<>> THEN ports ELSE DefaultPorts
allowsPort(ports, port) == port \in Range(EffectivePorts(ports))

\* splitTarget: the host and port a request is for, or a refusal.  CONNECT and https
\* default to 443; -1 is a request without a port.
splitTarget(req) ==
    LET port == IF req.port >= 0 THEN req.port
                ELSE IF req.method = "CONNECT" \/ req.scheme = "https" THEN 443 ELSE 80
    IN  IF req.host.labels = <<>> \/ port \notin 1..65535 \/ ~req.plausible
        THEN [ok |-> FALSE, port |-> 0]
        ELSE [ok |-> TRUE, port |-> port]

\* handle: the request goes on if both its host and its port are granted.
Decide(allow, ports, req) ==
    /\ splitTarget(req).ok
    /\ allowsHost(allow, req.host)
    /\ allowsPort(ports, splitTarget(req).port)

--------------------------------------------------------------------------------
(* Addresses                                                                    *)

\* Unmap and embeddedV4: an IPv6 address that carries an IPv4 one stands for it, and
\* what that carries is looked at no further.
Carriers == {"nat64", "compatible", "6to4"}
Carried(a) == IF a.form \in {"mapped"} \cup Carriers THEN [form |-> "v4", addr |-> a.addr] ELSE a
isUnsafeResolvedAddr(a) ==
    LET b == Carried(a)
    IN  \/ b.form = "invalid"
        \/ b.addr \in IF b.form = "v4" THEN UnsafeV4 ELSE UnsafeV6

\* dialerFor: a literal was granted as it stands; a name answers for where it leads.
MayDial(literal, a) == literal \/ ~isUnsafeResolvedAddr(a)

\* No form of writing an unsafe address gets a name past the table.
AddressesChecked(a) ==
    MayDial(FALSE, a) => /\ a.form \in {"v4", "mapped"} \cup Carriers => a.addr \notin UnsafeV4
                         /\ a.form # "invalid"

--------------------------------------------------------------------------------
(* Sizes                                                                        *)

Sized(n) == [ok |-> TRUE, size |-> n]
Refusal == [ok |-> FALSE, size |-> 0]

\* ceiling, in `kelyfos run` and `kelyfos fork`: a flag may ask for less than the file.
ceiling(limit, flag, typed) ==
    CASE limit = 0 -> Sized(flag)
      [] limit # 0 /\ (~typed \/ flag = 0) -> Sized(limit)
      [] OTHER -> IF flag > limit THEN Refusal ELSE Sized(flag)

\* The disk, the run time and the idle time: a flag that is not given is 0.
Bounded(limit, flag) == ceiling(limit, flag, TRUE)

\* runWithSandbox: the file's [resources], then its older keys, then the default.
RunSize(cfg, flag, typed, default) ==
    LET held == ceiling(cfg.res, IF typed THEN flag ELSE 0, typed)
    IN  CASE ~held.ok -> Refusal
          [] held.ok /\ held.size # 0 -> held
          [] OTHER -> Sized(IF cfg.legacy > 0 /\ ~typed THEN cfg.legacy ELSE default)

\* capToHost: what was asked for is refused, what was not is cut down.
capToHost(n, asked, host) ==
    IF host > 0 /\ n > host THEN IF asked THEN Refusal ELSE Sized(host) ELSE Sized(n)

\* resolve: a tool call may ask for less than the project, under its newer or, in its
\* absence, its older key.
ProjectLimit(cfg) == IF cfg.res > 0 THEN cfg.res ELSE cfg.legacy
resolve(cfg, asked, default, host) ==
    LET limit == ProjectLimit(cfg)
        size == CASE asked > 0 -> asked [] asked = 0 /\ limit > 0 -> limit [] OTHER -> default
    IN  IF asked > 0 /\ limit > 0 /\ asked > limit THEN Refusal
        ELSE capToHost(size, asked > 0, host)

\* resolve's scratch bound, against the memory the machine has in the end.
ScratchFits(scratch, mem) == scratch <= mem

\* checkSnapshotFits and checkSnapshotCeiling: a snapshot has the size it has.
checkSnapshotCeiling(cfg, meta) ==
    \/ cfg.cpus = 0 /\ cfg.mem = 0
    \/ /\ meta.cpus # 0 \/ meta.mem # 0
       /\ cfg.cpus > 0 => meta.cpus <= cfg.cpus
       /\ cfg.mem > 0 => meta.mem <= cfg.mem
checkSnapshotFits(cfg, meta, host) ==
    /\ checkSnapshotCeiling(cfg, meta)
    /\ host.cpus > 0 => meta.cpus <= host.cpus
    /\ host.mem > 0 => meta.mem <= host.mem

\* Nothing boots above the project's size, or, through serve-mcp, above the host's.
SizesHeld(cfg, asked, typed, default, host) ==
    LET run == RunSize(cfg, asked, typed, default)
        tool == resolve(cfg, IF typed THEN asked ELSE 0, default, host)
        held == Bounded(cfg.res, asked)
    IN  /\ run.ok /\ cfg.res > 0 => run.size \in 1..cfg.res
        /\ held.ok /\ cfg.res > 0 => held.size \in 1..cfg.res
        /\ tool.ok => /\ ProjectLimit(cfg) > 0 => tool.size <= ProjectLimit(cfg)
                      /\ host > 0 => tool.size <= host
        /\ tool.ok /\ typed /\ asked > 0 => tool.size = asked

SnapshotHeld(cfg, meta, host) ==
    checkSnapshotFits(cfg, meta, host) =>
        /\ checkSnapshotCeiling(cfg, meta)
        /\ \A f \in {"cpus", "mem"} : /\ host[f] > 0 => meta[f] <= host[f]
                                      /\ cfg[f] > 0 => meta[f] <= cfg[f]

--------------------------------------------------------------------------------
(* Allowlists handed on                                                         *)

\* resolve: a call's list, if it gives one, must be covered by the project's.
ResolveAllow(cfg, asked, given) ==
    CASE ~given -> [ok |-> TRUE, list |-> cfg]
      [] given /\ \A i \in DOMAIN asked : containsDomain(cfg, asked[i]) -> [ok |-> TRUE, list |-> asked]
      [] OTHER -> [ok |-> FALSE, list |-> <<>>]

\* restoreAllow: also by the snapshot's.
restoreAllow(hasPolicy, policy, meta, asked) ==
    LET list == IF asked # <<>> THEN asked ELSE meta
    IN  IF /\ list # <<>> /\ CheckAllowList(list)
           /\ \A i \in DOMAIN list : /\ containsDomain(meta, list[i])
                                     /\ hasPolicy => containsDomain(policy, list[i])
        THEN [ok |-> TRUE, list |-> list]
        ELSE [ok |-> FALSE, list |-> <<>>]

\* boot and restoreSecrets: the project's secrets outside the list are left out.
VettedSecrets(secrets, list) == Kept(secrets, {s \in Range(secrets) : containsDomain(list, s)})

Names(list) == \A i \in DOMAIN list : ~ipLiteral(NormaliseDomain(list[i]))

Narrows(list, bound, host) == allowsHost(list, host) => allowsHost(bound, host)

\* A machine started by a tool call or restored from a snapshot reaches no host its
\* project's list, or the snapshot's, does not; where those lists hold names.
ReachHeld(policy, meta, asked, given, host) ==
    LET resolved == ResolveAllow(policy, asked, given)
        restored == restoreAllow(TRUE, policy, meta, asked)
    IN  Names(policy) /\ Names(meta) =>
            /\ resolved.ok => Narrows(resolved.list, policy, host)
            /\ restored.ok => Narrows(restored.list, policy, host) /\ Narrows(restored.list, meta, host)
            /\ LET held == VettedSecrets(asked, policy)
               IN  \A i \in DOMAIN held :
                       allowsHost(policy, [labels |-> NormaliseDomain(held[i]), dots |-> 0])

\* An address is reached only when it is itself an entry, and a list the check accepts
\* grants no more than two labels' worth of names (allowsHost, CheckAllowList).
LiteralsExact(list, host) ==
    /\ ipLiteral(HostName(host)) /\ allowsHost(list, host) =>
           \E i \in DOMAIN list : NormaliseDomain(list[i]) = HostName(host)
    /\ CheckAllowList(list) /\ allowsHost(list, host) => Len(HostName(host)) >= 2

\* What containsDomain says: it reports "whether an allowlist covers a domain, using the
\* same suffix rule the proxy enforces."  Below an address the two differ.
SameRule(list, entry) ==
    containsDomain(list, entry)
        => allowsHost(list, [labels |-> NormaliseDomain(entry), dots |-> 0])

--------------------------------------------------------------------------------
(* What is promised of one input: an address a name resolves to, the lists of a *)
(* machine, a size, a snapshot, or a request                                    *)

\* A list is read with its entries; one of a file or a snapshot passed CheckAllowList.
\* A host has a name: splitTarget refuses one that has none.
Listing == Seq([labels : Seq(STRING), wild : BOOLEAN, dots : Nat])
Accepted == {l \in Listing : CheckAllowList(l)}
NamedHost == {h \in [labels : Seq(STRING), dots : Nat] : h.labels \notin {<<>>, <<NoLabel>>}}
Bounds == [cpus : Nat, mem : Nat]
Request == [host : NamedHost, port : Int, method : STRING, scheme : STRING, plausible : BOOLEAN]

GrantInputs ==
    [kind : {"address"}, addr : [form : STRING, addr : STRING]]
    \cup [kind : {"reach"}, policy : Accepted, meta : Accepted, asked : Listing, given : BOOLEAN,
          host : NamedHost]
    \cup [kind : {"size"}, cfg : [res : Nat, legacy : Nat], asked : Nat, typed : BOOLEAN, host : Nat]
    \cup [kind : {"snapshot"}, cfg : Bounds, meta : Bounds, host : Bounds]
    \cup [kind : {"target"}, allow : Listing, ports : Seq(Nat), req : Request]

\* No door grants a machine more than the file, the snapshot and the host bound it to.
GrantsHeld ==
    /\ item.kind = "address" => AddressesChecked(item.addr)
    /\ item.kind = "reach" => /\ ReachHeld(item.policy, item.meta, item.asked, item.given, item.host)
                              /\ LiteralsExact(item.asked, item.host)
    /\ item.kind = "size" => SizesHeld(item.cfg, item.asked, item.typed, 2, item.host)
    /\ item.kind = "snapshot" => SnapshotHeld(item.cfg, item.meta, item.host)
    /\ item.kind = "target" /\ Decide(item.allow, item.ports, item.req) =>
           splitTarget(item.req).port \in Range(EffectivePorts(item.ports))
================================================================================
