------------------------------ MODULE Credentials ------------------------------
(***************************************************************************)
(* Where a credential may be spent, and keeping it from coming back        *)
(* (internal/egress secret.go, scope.go, scrub.go).                        *)
(*                                                                         *)
(* A request path is the sequence of its segments: "/a/" is <<"a", "">>,   *)
(* "/" is <<"">>.  Odd segments hold bytes other than the few that every   *)
(* server reads alike; an origin may make something else of them.  A body  *)
(* is a sequence of bytes, delivered in pieces.                            *)
(***************************************************************************)
EXTENDS Grants

CONSTANTS
    Odd,       \* segments with a byte outside literalAndNormal's list
    Reread,    \* what an origin may read an odd segment as: a sequence of segments
    minScrub,  \* the shortest value that is scrubbed
    Star       \* the byte that replaces

ASSUME CredentialsAssumption ==
    /\ minScrub \in Nat \ {0} /\ Star \in STRING
    /\ Odd \subseteq STRING /\ Reread \in [Odd -> Seq(STRING)]

--------------------------------------------------------------------------------
(* Bindings                                                                     *)

\* validDomain: an address, or two labels that are not all numbers, none without a letter
\* or a digit.
validDomain(d) ==
    ipLiteral(d) \/ (Len(d) >= 2 /\ ~numericLabels(d) /\ Range(d) \cap {NoLabel, "-"} = {})

\* canonicalScopePath: normal form, or that with the slash that names a collection.
canonicalScopePath(path) ==
    LET c == Clean(path)
    IN  path = (IF c = <<>> THEN <<NoName>> ELSE c) \/ (c # <<>> /\ path = Append(c, NoName))

\* ParseSecretSpec of a spec taken apart: its name, its host, an optional path.
ParseSecretSpec(spec) ==
    IF /\ ~spec.badByte /\ spec.name # NoName /\ spec.ats = 1
       /\ spec.scheme \in {"none", "bearer", "basic"}
       /\ spec.hasPath => ~spec.host.wild /\ canonicalScopePath(spec.path)
       /\ validDomain(NormaliseDomain(spec.host))
    THEN [ok |-> TRUE, domain |-> NormaliseDomain(spec.host),
          path |-> IF spec.hasPath THEN spec.path ELSE <<>>,
          scheme |-> IF spec.scheme = "basic" THEN "Basic" ELSE "Bearer"]
    ELSE [ok |-> FALSE, domain |-> <<>>, path |-> <<>>, scheme |-> NoName]

\* bindsHost: a secret with a path is for its own host only.
bindsHost(secret, host) ==
    IF secret.path # <<>> THEN host = secret.domain ELSE domainCovers(secret.domain, host)
secretsFor(secrets, host) == Kept(secrets, {s \in Range(secrets) : bindsHost(s, HostName(host))})

\* literalAndNormal compares the decoded path with its clean form, "//" included.
literalAndNormal(path) ==
    LET c == Clean(path)
    IN  /\ Range(path) \cap Odd = {}
        /\ path \in IF c = <<>> THEN {<<NoName>>, <<NoName, NoName>>} ELSE {c, Append(c, NoName)}

\* Mutant: a prefix is a prefix, whatever follows it.
coveredAnyEnd(prefix, path) ==
    IF Last(prefix) # NoName THEN IsPrefix(prefix, path)
    ELSE path = Front(prefix) \/ (Len(path) >= Len(prefix) /\ IsPrefix(Front(prefix), path))

covered(prefix, path) ==
    IF Last(prefix) # NoName THEN path = prefix
    ELSE path = Front(prefix) \/ (Len(path) >= Len(prefix) /\ IsPrefix(Front(prefix), path))

covers(scope, path) ==
    scope = <<>> \/ (canonicalScopePath(scope) /\ literalAndNormal(path) /\ covered(scope, path))

\* What an origin may route a path to: as it is, with its odd segments reread, and
\* either of these with dot segments and doubled slashes resolved.
ReadAs(segment) == IF segment \in Odd THEN Reread[segment] ELSE <<segment>>
Routes(path) ==
    LET reread == Concat([i \in 1..Len(path) |-> ReadAs(path[i])])
    IN  {Clean(path), Clean(reread)}

\* A credential bound to a path is attached only to requests that every such origin
\* routes beneath that path (covers).
ScopeHolds(scope, path) ==
    scope # <<>> /\ covers(scope, path) =>
        \A r \in Routes(path) :
            IF Last(scope) = NoName THEN IsPrefix(Front(scope), r) ELSE r = scope

\* A binding that is accepted is used by requests for its own host, and one with a path
\* by no other (ParseSecretSpec, secretsFor): FuzzParseSecret's assertion.
BindingReaches(spec, host) ==
    LET s == ParseSecretSpec(spec)
    IN  s.ok => /\ bindsHost(s, s.domain)
                /\ s.path # <<>> /\ secretsFor(<<s>>, host) # <<>> => HostName(host) = s.domain
                /\ secretsFor(<<s>>, host) # <<>> => Len(HostName(host)) >= 2

--------------------------------------------------------------------------------
(* Echo suppression                                                             *)

Occurs(v, at, b) == at + Len(v) - 1 <= Len(b) /\ SubSeq(b, at, at + Len(v) - 1) = v

\* newScrubber: values worth matching, in order, and the length of the longest.
Patterns(values) == Kept(values, {v \in Range(values) : Len(v) >= minScrub})
MaxLen(pats) ==
    Looped([i \in 1..Len(pats) |-> [n \in Nat |-> IF Len(pats[i]) > n THEN Len(pats[i]) ELSE n]],
           0, Len(pats))

\* scrub, for one value: an occurrence is starred, and the search goes on behind it.
Starred(b, k, length) ==
    [n \in 1..Len(b) |-> IF n \in k..(k + length - 1) THEN Star ELSE b[n]]
ScrubAt(v, k, s) ==
    IF k >= s.next /\ Occurs(v, k, s.body)
    THEN [body |-> Starred(s.body, k, Len(v)), next |-> k + Len(v)] ELSE s
Searches == [body : Seq(STRING), next : Nat]
ScrubOne(b, v) ==
    Looped([k \in 1..Len(b) |-> [s \in Searches |-> ScrubAt(v, k, s)]],
           [body |-> b, next |-> 1], Len(b)).body

scrub(pats, b) ==
    Looped([i \in 1..Len(pats) |-> [out \in Seq(STRING) |-> ScrubOne(out, pats[i])]], b, Len(pats))

\* Mutant: nothing is held back.
HoldNothing(pats) == 0
\* What is held back until more has come: it may be the start of a value.
Hold(pats) == MaxLen(pats) - 1

\* scrubReader.Read: scrub what has come, hand on up to n bytes of all but its tail,
\* and read more when there is only the tail.  At the end a turn changes nothing.
Deliveries == [read : Nat, buf : Seq(STRING), out : Seq(STRING)]
ReadOn(pats, pieces, n, d) ==
    LET eof == d.read = Len(pieces)
        hold == IF eof THEN 0 ELSE Hold(pats)
        clean == scrub(pats, d.buf)
        k == IF Len(d.buf) - hold < n THEN Len(d.buf) - hold ELSE n
    IN  IF Len(d.buf) > hold
        THEN [read |-> d.read, buf |-> SubSeq(clean, k + 1, Len(clean)),
              out |-> d.out \o SubSeq(clean, 1, k)]
        ELSE IF eof THEN d
        ELSE [read |-> d.read + 1, buf |-> d.buf \o pieces[d.read + 1], out |-> d.out]
\* Whoever copies the body asks until its end: a turn hands on a byte or takes a piece.
ReadAll(pats, pieces, n) ==
    LET turns == Len(pieces) + Len(Concat(pieces))
    IN  Looped([t \in 1..turns |-> [d \in Deliveries |-> ReadOn(pats, pieces, n, d)]],
               [read |-> 0, buf |-> <<>>, out |-> <<>>], turns).out

\* wrap: without a value to match the body passes as it is.
Deliver(values, pieces, n) ==
    LET pats == Patterns(values)
    IN  IF pats = <<>> THEN Concat(pieces) ELSE ReadAll(pats, pieces, n)

\* However a body is cut and read, its length is kept, no value worth matching is in what
\* the guest gets, and only bytes of such a value are replaced (scrub, scrubReader).
EchoSuppressed(values, pieces, n) ==
    LET body == Concat(pieces)
        out == Deliver(values, pieces, n)
        pats == Patterns(values)
    IN  /\ Len(out) = Len(body)
        /\ \A i \in DOMAIN pats, k \in DOMAIN out : ~Occurs(pats[i], k, out)
        /\ \A k \in DOMAIN body : out[k] # body[k] =>
               out[k] = Star /\ \E i \in DOMAIN pats, m \in DOMAIN body :
                                    Occurs(pats[i], m, body) /\ k \in m..(m + Len(pats[i]) - 1)

\* scrubResponse: what becomes of a response.  A body in an encoding that cannot be read
\* is refused, unless there is no body.
scrubResponse(values, resp) ==
    CASE Patterns(values) = <<>> -> "as it is"
      [] Patterns(values) # <<>> /\ resp.bodyless -> "headers scrubbed"
      [] Patterns(values) # <<>> /\ ~resp.bodyless /\ resp.codings \ {NoLabel, "identity"} # {} -> "refused"
      [] OTHER -> "all scrubbed"

\* What scrub says: it "replaces every occurrence in b".  Where two values overlap, the
\* second is left in part, and how much depends on how the body was cut.
EveryByteReplaced(values, pieces, n) ==
    LET body == Concat(pieces)
        out == Deliver(values, pieces, n)
        pats == Patterns(values)
    IN  \A i \in DOMAIN pats, m \in DOMAIN body :
            Occurs(pats[i], m, body) => \A k \in m..(m + Len(pats[i]) - 1) : out[k] = Star

--------------------------------------------------------------------------------
(* What is promised of one input: a request's path, a binding, a body in pieces, *)
(* or a response                                                                *)

\* What is promised is promised of values without a star: to scrub one beside another that
\* has a star may write that other.  Whoever reads a body has room for a byte.
CredentialInput(i) ==
    \/ i \in [kind : {"scope"}, scope : Seq(STRING), path : Seq(STRING)]
    \/ /\ i.kind = "spec" /\ i.spec.host.labels \in Seq(STRING)
       /\ i.host \in [labels : Seq(STRING), dots : Nat]
    \/ /\ i.kind = "echo" /\ i.values \in Seq(Seq(STRING \ {Star}))
       /\ i.pieces \in Seq(Seq(STRING)) /\ i.room \in Nat \ {0}
    \/ /\ i.kind = "response" /\ i.values \in Seq(Seq(STRING)) /\ i.resp.bodyless \in BOOLEAN
       /\ i.resp.codings \subseteq STRING

\* A credential goes only where it is bound to, and does not come back.
CredentialsHeld ==
    /\ item.kind = "scope" => ScopeHolds(item.scope, item.path)
    /\ item.kind = "spec" => BindingReaches(item.spec, item.host)
    /\ item.kind = "echo" => EchoSuppressed(item.values, item.pieces, item.room)
    /\ item.kind = "response" =>
           (scrubResponse(item.values, item.resp) = "all scrubbed"
                => item.resp.codings \subseteq {NoLabel, "identity"})
================================================================================
