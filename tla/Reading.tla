-------------------------------- MODULE Reading --------------------------------
(***************************************************************************)
(* Lines off a wire or a file and what is made of them: the frame reader   *)
(* of every channel (internal/proto), the bridge that copies an MCP        *)
(* session and watches it (host/mcp.go, host/mcpobserve.go), the live      *)
(* views of a record (host/watch.go, host/log.go) and the digest every     *)
(* view shows (internal/digest).                                           *)
(*                                                                         *)
(* A stream is a sequence of characters; a read takes as many of them as   *)
(* its place in a list of sizes says, and one after that.                  *)
(***************************************************************************)
EXTENDS Integers, Sequences, FiniteSets, TLC, SequencesExt, FiniteSetsExt

CONSTANTS
    MaxFrame,         \* MaxMCPLine, the newline included
    MaxRest,          \* maxDrainOverlong, maxTeeOverlongRelay
    maxBlankLines,
    MaxDistinctKeys

--------------------------------------------------------------------------------
(* Frames                                                                       *)

NL == "n"
From(s, pos) == SubSeq(s, pos + 1, Len(s))

\* bufio.Scanner at pos: a line, a buffer that is full without one, or the end.
Scan(s, pos) ==
    LET rest == From(s, pos)
        nl == SelectInSeq(rest, LAMBDA c : c = NL)
    IN  CASE nl \in 1..MaxFrame -> [is |-> "line", line |-> SubSeq(rest, 1, nl - 1), pos |-> pos + nl]
          [] nl \notin 1..MaxFrame /\ Len(rest) >= MaxFrame ->
                 [is |-> "too long", line |-> <<>>, pos |-> pos + MaxFrame]
          [] OTHER -> [is |-> IF rest = <<>> THEN "end" ELSE "line", line |-> rest, pos |-> Len(s)]

\* The next read of the rest: where it ends, and where in it the line does (0 if not).
SizeOf(sizes, n) == IF n <= Len(sizes) THEN sizes[n] ELSE 1
ReadAt(s, pos, size) ==
    LET last == IF pos + size > Len(s) THEN Len(s) ELSE pos + size
    IN  [pos |-> last, nl |-> SelectInSeq(SubSeq(s, pos + 1, last), LAMBDA c : c = NL)]

\* DrainOverlongLine: to the end of the read that holds the line's end.
RECURSIVE DrainOverlongLine(_, _, _, _, _)
DrainOverlongLine(s, pos, sizes, n, total) ==
    LET r == ReadAt(s, pos, SizeOf(sizes, n))
        sum == total + (r.pos - pos)
    IN  CASE r.nl > 0 -> [ok |-> TRUE, pos |-> r.pos, reads |-> n]
          [] r.nl = 0 /\ (sum > MaxRest \/ r.pos = Len(s)) -> [ok |-> FALSE, pos |-> r.pos, reads |-> n]
          [] OTHER -> DrainOverlongLine(s, r.pos, sizes, n + 1, sum)

\* Mutant: what was read past the line goes with it.
relayRestDrops(s, pos, sizes, n, total) == DrainOverlongLine(s, pos, sizes, n, total)

\* relayRestOfLine: to the line's end; what was read past it is read again.
RECURSIVE relayRestOfLine(_, _, _, _, _)
relayRestOfLine(s, pos, sizes, n, total) ==
    LET r == ReadAt(s, pos, SizeOf(sizes, n))
        sum == total + (r.pos - pos)
    IN  CASE r.nl > 0 -> [ok |-> TRUE, pos |-> pos + r.nl, reads |-> n]
          [] r.nl = 0 /\ sum > MaxRest -> [ok |-> FALSE, pos |-> r.pos, reads |-> n]
          [] r.nl = 0 /\ sum <= MaxRest /\ r.pos = Len(s) -> [ok |-> TRUE, pos |-> r.pos, reads |-> n]
          [] OTHER -> relayRestOfLine(s, r.pos, sizes, n + 1, sum)

\* Reader.Read and mcpSession.serve: the frames of a stream, and the answer to each line
\* that is none.  Lines without content are passed over, so many in a row.
RECURSIVE serve(_, _, _, _, _)
serve(s, pos, sizes, n, blanks) ==
    LET t == Scan(s, pos)
    IN  CASE t.is = "end" -> <<>>
          [] t.is = "line" /\ t.line # <<>> -> <<t.line>> \o serve(s, t.pos, sizes, n, 0)
          [] t.is = "line" /\ t.line = <<>> ->
                 IF blanks >= maxBlankLines THEN << <<"flood">> >> ELSE serve(s, t.pos, sizes, n, blanks + 1)
          [] t.is = "too long" ->
                 LET d == DrainOverlongLine(s, t.pos, sizes, n, 0)
                 IN  IF d.ok THEN << <<"too long">> >> \o serve(s, d.pos, sizes, d.reads + 1, 0)
                     ELSE << <<"too long">> >>

\* tee: what the sink is shown and how much was passed on.
RECURSIVE tee(_, _, _, _)
tee(s, pos, sizes, n) ==
    LET t == Scan(s, pos)
    IN  CASE t.is = "end" -> [shown |-> <<>>, relayed |-> SubSeq(s, 1, pos)]
          [] t.is = "line" -> LET after == tee(s, t.pos, sizes, n)
                              IN  [after EXCEPT !.shown = <<t.line>> \o @]
          [] t.is = "too long" ->
                 LET r == relayRestOfLine(s, t.pos, sizes, n, 0)
                 IN  IF r.ok THEN tee(s, r.pos, sizes, r.reads + 1)
                     ELSE [shown |-> <<>>, relayed |-> SubSeq(s, 1, r.pos)]

\* The lines of a stream, the last one with or without its end.
RECURSIVE Lines(_)
Lines(s) ==
    LET nl == SelectInSeq(s, LAMBDA c : c = NL)
    IN  CASE s = <<>> -> <<>>
          [] s # <<>> /\ nl = 0 -> <<s>>
          [] OTHER -> <<SubSeq(s, 1, nl - 1)>> \o Lines(From(s, nl))
Fits(line) == Len(line) < MaxFrame

\* What a Writer sends, a Reader reads, in order and whole, however the bytes arrive; the
\* bridge passes on all it is given and shows all of it that fits, however long a line is.
FramesHeld(s, sizes) ==
    LET lines == Lines(s)
        long == \E i \in DOMAIN lines : ~Fits(lines[i])
        t == tee(s, 0, sizes, 1)
    IN  /\ ~long /\ maxBlankLines >= Len(s) =>
               serve(s, 0, sizes, 1, 0) = SelectSeq(lines, LAMBDA l : l # <<>>)
        /\ IsPrefix(t.relayed, s)
        /\ (\A i \in DOMAIN lines : Len(lines[i]) <= MaxRest) =>
               /\ t.relayed = s
               /\ t.shown = SelectSeq(lines, Fits)

\* What DrainOverlongLine says: "Draining first leaves the stream sitting on a clean frame
\* boundary".  The frames that follow in the same read are gone, or begin in the middle.
CleanBoundary(s, sizes) ==
    LET lines == Lines(s)
    IN  (\A i \in DOMAIN lines : Len(lines[i]) <= MaxRest) =>
            SelectSeq(serve(s, 0, sizes, 1, 0), LAMBDA f : f # <<"too long">>)
                = SelectSeq(lines, LAMBDA l : l # <<>> /\ Fits(l))

\* followSession and tail: what is there when the file is looked at, up to its end, is a
\* line, whether it is one or not; a half is no event.
followSession(s, sizes) ==
    LET Look(st, n) ==
            LET seen == SubSeq(s, st.pos + 1, IF st.pos + n > Len(s) THEN Len(s) ELSE st.pos + n)
            IN  [pos |-> st.pos + Len(seen), out |-> st.out \o Lines(seen)]
    IN  FoldLeft(Look, [pos |-> 0, out |-> <<>>], sizes \o <<Len(s)>>).out

\* tail's comment: it "follows the recorder from the beginning".  An event that is looked
\* at while it is being written is in no view.
EveryEventShown(s, sizes) == s # <<>> /\ Last(s) = NL => followSession(s, sizes) = Lines(s)

--------------------------------------------------------------------------------
(* The bridge's observer                                                        *)

\* A session is a sequence of steps [at, id]: a request is "seen" (fromClient has kept it),
\* a command "started" (fromClient has recorded it), and an answer "noted" (fromGuest).  The
\* tee passes bytes on before it shows them, so an answer may be noted before its request
\* is seen.  tool[id] is exec, write, or another; how[id] is what the guest answers: ok,
\* error (a result that says so), unreadable, or none (no result at all).
Recording(st, type, id) == [st EXCEPT !.record = Append(@, [type |-> type, id |-> id])]

fromClient(st, id) == [st EXCEPT !.calls = @ \cup {id}]

\* Mutant: a write is recorded whatever the guest says of it.
fromGuestAnyWrite(st, id, tool, how) ==
    LET answered == [st EXCEPT !.calls = @ \ {id}]
    IN  CASE how[id] = "none" \/ id \notin st.calls -> st
          [] id \in st.calls /\ tool[id] = "write" -> Recording(answered, "write", id)
          [] id \in st.calls /\ tool[id] = "exec" -> Recording(answered, "exit", id)
          [] OTHER -> answered

fromGuest(st, id, tool, how) ==
    LET answered == [st EXCEPT !.calls = @ \ {id}]
    IN  CASE how[id] = "none" \/ id \notin st.calls -> st
          [] id \in st.calls /\ tool[id] = "write" /\ how[id] = "ok" -> Recording(answered, "write", id)
          [] id \in st.calls /\ tool[id] = "exec" /\ how[id] \in {"ok", "error"} -> Recording(answered, "exit", id)
          [] OTHER -> answered

observer(steps, tool, how) ==
    FoldLeft(LAMBDA st, s : CASE s.at = "seen" -> fromClient(st, s.id)
                              [] s.at = "started" -> Recording(st, "start", s.id)
                              [] s.at = "noted" -> fromGuest(st, s.id, tool, how),
             [calls |-> {}, record |-> <<>>], steps)

\* answerOutstanding, when the bridge closes.
outstanding(steps, tool, how) == observer(steps, tool, how).calls

Took(steps, at, id) == [at |-> at, id |-> id] \in Range(steps)
Before(steps, a, b, id) ==
    \A j \in DOMAIN steps : steps[j] = [at |-> b, id |-> id] =>
        \E i \in 1..(j - 1) : steps[i] = [at |-> a, id |-> id]

\* The two directions are two goroutines, and neither waits for the other: each takes its
\* steps in order, one request after the other.
Plausible(steps, tool) ==
    /\ \A i \in DOMAIN steps : steps[i].at = "started" =>
           /\ tool[steps[i].id] = "exec"
           /\ Before(steps, "seen", "started", steps[i].id)
    /\ \A i \in DOMAIN steps, id \in DOMAIN tool :
           steps[i].at = "seen" /\ steps[i].id # id /\ tool[id] = "exec"
               => (Took(SubSeq(steps, 1, i), "seen", id) => Took(SubSeq(steps, 1, i), "started", id))

\* A write is in the record only if the guest says it was done, a command's exit only if it
\* was answered, and nothing twice; a call that was answered with a result is not answered
\* again, and its result is recorded, where the request was seen before the answer.
ObserverHeld(steps, tool, how) ==
    LET st == observer(steps, tool, how)
        Recorded(type, id) == Cardinality({i \in DOMAIN st.record : st.record[i] = [type |-> type, id |-> id]})
    IN  \A id \in DOMAIN tool :
            /\ Recorded("write", id) <= (IF how[id] = "ok" /\ Took(steps, "noted", id) THEN 1 ELSE 0)
            /\ Recorded("exit", id) <= (IF how[id] \in {"ok", "error"} /\ Took(steps, "noted", id) THEN 1 ELSE 0)
            /\ Before(steps, "seen", "noted", id) /\ Took(steps, "noted", id) /\ how[id] # "none" =>
                   /\ id \notin st.calls
                   /\ tool[id] = "exec" /\ how[id] # "unreadable" => Recorded("exit", id) = 1
                   /\ tool[id] = "write" /\ how[id] = "ok" => Recorded("write", id) = 1

\* What answerOutstanding says: it answers "every tool call the guest never got to answer".
\* An answer that is noted before the request is seen is answered again, and what it wrote
\* is not in the record.
AnsweredOnce(steps, tool, how) ==
    \A id \in outstanding(steps, tool, how) : ~Took(steps, "noted", id) \/ how[id] = "none"

\* What fromClient says: "A command is recorded the moment it is asked for".  Its exit may
\* be recorded before it is.
StartsFirst(steps, tool, how) ==
    LET record == observer(steps, tool, how).record
    IN  \A i \in DOMAIN record : record[i].type = "exit" =>
            \E j \in 1..(i - 1) : record[j] = [type |-> "start", id |-> record[i].id]

--------------------------------------------------------------------------------
(* The digest                                                                   *)

\* An event is [type, agent, call, good, name]: the agent is "" for the session's own; good
\* is allowed, exit 0, delivered; name is a host, a peer, a store's key or a secret.
Counters == {"commands", "failed", "files", "allowed", "blocked", "secrets", "messages", "refused"}
Tabled == {"domains", "pairs", "store", "secrets"}
NoCounters == [c \in Counters |-> 0]
DigestNew == [agents |-> <<>>, counters |-> ("" :> NoCounters), peers |-> <<>>, boot |-> 0,
              tables |-> [t \in Tabled |-> <<>>], cut |-> {}, foreign |-> 0, open |-> <<>>, timeline |-> <<>>]

\* Mutant: who has spoken is still somebody who is only spoken of.
agentKeepsPeer(d, name) ==
    IF name = "" \/ name \in Range(d.agents) THEN d
    ELSE [d EXCEPT !.agents = Append(@, name), !.counters = (name :> NoCounters) @@ @]

\* agent and peer: found or made; a peer that turns out an agent is no longer listed as
\* only a peer.
agent(d, name) ==
    IF name = "" \/ name \in Range(d.agents) THEN d
    ELSE [d EXCEPT !.agents = Append(@, name), !.counters = (name :> NoCounters) @@ @,
                   !.peers = SelectSeq(@, LAMBDA p : p # name)]
peer(d, name) ==
    IF name = "" \/ name \in Range(d.agents) \cup Range(d.peers) THEN d
    ELSE IF Len(d.peers) >= MaxDistinctKeys THEN [d EXCEPT !.cut = @ \cup {"peers"}]
    ELSE [d EXCEPT !.peers = Append(@, name)]

\* pair, domain, store and the list of secrets: made the first time, up to so many.
Minted(d, table, key) ==
    IF key \in DOMAIN d.tables[table] THEN d
    ELSE IF Cardinality(DOMAIN d.tables[table]) >= MaxDistinctKeys THEN [d EXCEPT !.cut = @ \cup {table}]
    ELSE [d EXCEPT !.tables[table] = (key :> [good |-> 0, bad |-> 0]) @@ @]
Bumped(was, table, key, good) ==
    LET d == Minted(was, table, key)
        which == IF good THEN "good" ELSE "bad"
    IN  IF key \in DOMAIN d.tables[table] THEN [d EXCEPT !.tables[table][key][which] = @ + 1] ELSE d

count(d, e, what) == [d EXCEPT !.counters[e.agent][what] = @ + 1]

absorbOutput(d, e, n) ==
    IF e.call \in DOMAIN d.open THEN [d EXCEPT !.timeline[d.open[e.call]].output = Append(@, n)] ELSE d
absorbExit(d, e, n) ==
    LET told == IF e.call \in DOMAIN d.open
                THEN [d EXCEPT !.timeline[d.open[e.call]].exit = n,
                               !.open = [c \in DOMAIN @ \ {e.call} |-> @[c]]]
                ELSE d
    IN  IF e.good THEN told ELSE count(told, e, "failed")

\* Absorb, of the nth event.  Messages and refusals are counted for the session alone.
Absorb(was, e, n) ==
    LET d == agent(was, e.agent)
        Listed(c) == [c EXCEPT !.timeline = Append(@, [event |-> n, output |-> <<>>, exit |-> 0])]
        Ours(c, what) == count(c, [e EXCEPT !.agent = ""], what)
    IN  CASE e.type = "output" -> absorbOutput(d, e, n)
          [] e.type = "exit" -> absorbExit(d, e, n)
          [] e.type = "start" ->
                 LET c == Listed(count(d, e, "commands"))
                 IN  [c EXCEPT !.open = (e.call :> Len(c.timeline)) @@ @]
          [] e.type = "ready" -> Listed(IF e.agent = "" THEN [d EXCEPT !.boot = n] ELSE d)
          [] e.type = "write" -> Listed(count(d, e, "files"))
          [] e.type = "foreign" -> Listed([d EXCEPT !.foreign = @ + 1])
          [] e.type = "egress" ->
                 LET c == Listed(count(d, e, IF e.good THEN "allowed" ELSE "blocked"))
                 IN  IF e.name = "" THEN c ELSE Bumped(c, "domains", e.name, e.good)
          [] e.type = "secret" -> Listed(Minted(count(d, e, "secrets"), "secrets", e.name))
          [] e.type = "message" ->
                 Listed(Bumped(peer(Ours(d, IF e.good THEN "messages" ELSE "refused"), e.name),
                               "pairs", <<e.agent, e.name>>, e.good))
          [] e.type = "store" ->
                 Listed(Bumped(IF e.good THEN d ELSE Ours(d, "refused"), "store", e.name, e.good))
          [] e.type = "spawn" -> Listed(peer(IF e.good THEN d ELSE Ours(d, "refused"), e.name))

Digested(events) ==
    FoldLeft(LAMBDA d, n : Absorb(d, events[n], n), DigestNew, [n \in DOMAIN events |-> n])

Number(events, Is(_)) == Cardinality({n \in DOMAIN events : Is(events[n])})
Tally(d, what) == FoldSet(LAMBDA a, sum : sum + d.counters[a][what], 0, DOMAIN d.counters)

\* The command an output or an exit is of: the last its own agent started with that call.
Owner(events, n) ==
    LET own == {m \in 1..(n - 1) : /\ events[m].type = "start" /\ events[m].call = events[n].call
                                   /\ events[m].agent = events[n].agent}
    IN  IF own = {} THEN 0 ELSE Max(own)

Attributed(events) ==
    LET d == Digested(events)
    IN  \A i \in DOMAIN d.timeline :
            LET t == d.timeline[i]
            IN  /\ \A n \in Range(t.output) : Owner(events, n) = t.event
                /\ t.exit # 0 => Owner(events, t.exit) = t.event

\* Calls are told apart: no two agents use one name for theirs.
CallsApart(events) ==
    \A m, n \in DOMAIN events : events[m].call # "" /\ events[m].call = events[n].call
                                    => events[m].agent = events[n].agent

Lasting(events, type) == SelectLastInSeq(events, LAMBDA e : e.type = type /\ e.agent = "")
TableOf(e) == CASE e.type = "egress" -> "domains" [] e.type = "message" -> "pairs" [] e.type = "store" -> "store"
                [] OTHER -> ""

\* Every event is counted once, under who caused it; the totals are the sums; a table's
\* are, unless the view says that it is cut; the session's boot is its own and not an
\* agent's; whoever speaks is an agent and nobody is listed twice; a command's output and
\* exit are its own.
DigestHeld(events) ==
    LET d == Digested(events)
    IN  /\ Tally(d, "commands") = Number(events, LAMBDA e : e.type = "start")
        /\ Tally(d, "failed") = Number(events, LAMBDA e : e.type = "exit" /\ ~e.good)
        /\ Tally(d, "allowed") + Tally(d, "blocked") + d.foreign =
               Number(events, LAMBDA e : e.type \in {"egress", "foreign"})
        /\ Tally(d, "refused") =
               Number(events, LAMBDA e : e.type \in {"message", "store", "spawn"} /\ ~e.good)
        /\ \A t \in Tabled \ (d.cut \cup {"secrets"}) :
               FoldSet(LAMBDA k, sum : sum + d.tables[t][k].bad, 0, DOMAIN d.tables[t])
                   = Number(events, LAMBDA e : TableOf(e) = t /\ ~e.good /\ e.name # "")
        /\ d.boot = Lasting(events, "ready")
        /\ Range(d.agents) = {events[n].agent : n \in DOMAIN events} \ {""}
        /\ IsInjective(d.agents \o d.peers)
        /\ "peers" \notin d.cut =>
               {events[n].name : n \in {m \in DOMAIN events : events[m].type \in {"message", "spawn"}}}
                   \subseteq Range(d.agents) \cup Range(d.peers)
        /\ CallsApart(events) => Attributed(events)

\* What absorbExit says: a command's exit is folded "into the command.start entry it
\* belongs to".  Two agents of a team whose clients both count from 1 share a call.
AlwaysAttributed(events) == Attributed(events)
====
