--------------------------------- MODULE Egress ---------------------------------
(***************************************************************************)
(* The egress proxy of one sandbox (internal/egress): an accept loop that  *)
(* takes a slot before it accepts, one handler per connection, three ways  *)
(* to serve one (a tunnel; a terminated CONNECT to a host some secret is   *)
(* bound to; a plain request that is forwarded), and a Close that waits    *)
(* for the handlers.                                                       *)
(*                                                                         *)
(* Time is counted in ticks, and a deadline is what is left until it: a    *)
(* tick is taken only when no deadline has expired, so a wait that has one *)
(* ends by it.  A wait on something the code sets no deadline for is Never.*)
(*                                                                         *)
(* Bounds: a connection makes at most MaxRequests requests, which is the   *)
(* code's own bound; ages are counted up to AgeMax.                        *)
(***************************************************************************)
EXTENDS Integers, Sequences, FiniteSets, FiniteSetsExt, Functions

CONSTANTS
    Conns,        \* connections to the proxy's port
    Guest,        \* the one address that is served (Proxy.Peer)
    Strangers,    \* other addresses that can reach the port
    MaxForeign,   \* maxForeignPeersRecorded
    Slots,        \* maxConcurrentConnections
    Secrets,      \* the secrets bound to the host, in order
    Header,       \* readHeaderTimeout
    Stall,        \* bodyStallTimeout
    TunnelStall,  \* tunnelStallTimeout
    Idle,         \* terminatedIdleTimeout
    IdleBudget,   \* maxTerminatedIdleTotal, also ResponseHeaderTimeout
    Ceiling,      \* maxTerminatedConnTime
    Dial,         \* upstreamDialTimeout and the origin's handshake
    MaxRequests,  \* maxRequestsPerTerminatedConn
    None

ASSUME EgressAssumption ==
    /\ {MaxForeign, Slots, Header, Stall, TunnelStall, Idle, IdleBudget, Ceiling, Dial,
        MaxRequests} \subseteq Nat \ {0}
    /\ Guest \notin Strangers /\ None \notin Strangers
    /\ Secrets \in Seq(Range(Secrets))

Never == -1
Dirs == {"out", "in"}
NoCopy == [d \in Dirs |-> Never]

\* The longest a connection is held once its ceiling has started: a request that
\* is sent just before the ceiling still has its dial and its wait for an answer.
LongestLife == Ceiling + Dial + IdleBudget
AgeMax == LongestLife + 1

VARIABLES
    accept,    \* where Serve has got to
    hand,      \* the connection it has accepted and not yet started
    sem,       \* slots taken
    wg,        \* handlers Close waits for
    closing,   \* where Close has got to
    seen,      \* foreignSeen
    pc,        \* where each connection's handler has got to
    from,      \* each connection's remote address
    leg,       \* how it is served
    left,      \* what is left of the deadline the handler waits under
    copies,    \* in a tunnel, what is left for each direction's copy
    quiet,     \* in a tunnel, how long no byte has crossed either way
    age,       \* how long ago its ceiling started
    idle,      \* idleSpent
    reqs,      \* requests read
    fits,      \* the secrets whose host and scope the current request is within
    attached,  \* the credential on the current request
    gone,      \* that request's header has left (WroteHeaders)
    unsaid,    \* how often a credential left and OnSecret has not said so
    carried,   \* a byte of the guest's has left through the proxy
    reports,   \* Attempts reported
    muted,     \* an origin has kept it waiting past its ceiling
    wronged    \* a direction of a tunnel was cut while bytes moved

connVars == <<pc, from, leg, left, copies, quiet, age, idle, reqs, fits, attached,
              gone, unsaid, carried, reports, muted, wronged>>
serveVars == <<accept, hand, sem, wg, closing, seen>>
vars == <<serveVars, connVars>>

Init ==
    /\ accept = "acquire" /\ hand = None /\ sem = 0 /\ wg = 0
    /\ closing = "open" /\ seen = {}
    /\ pc = [c \in Conns |-> "outside"]
    /\ from = [c \in Conns |-> None]
    /\ leg = [c \in Conns |-> "none"]
    /\ left = [c \in Conns |-> Never]
    /\ copies = [c \in Conns |-> NoCopy]
    /\ quiet = [c \in Conns |-> 0]
    /\ age = [c \in Conns |-> 0]
    /\ idle = [c \in Conns |-> 0]
    /\ reqs = [c \in Conns |-> 0]
    /\ fits = [c \in Conns |-> {}]
    /\ attached = [c \in Conns |-> None]
    /\ gone = [c \in Conns |-> FALSE]
    /\ unsaid = [c \in Conns |-> 0]
    /\ carried = [c \in Conns |-> FALSE]
    /\ reports = [c \in Conns |-> 0]
    /\ muted = [c \in Conns |-> FALSE]
    /\ wronged = FALSE

Put(f, c, v) == [f EXCEPT ![c] = v]

--------------------------------------------------------------------------------
(* Serve and Close                                                              *)

\* A connection reaches the port's backlog.
Connect(c, a) ==
    /\ pc[c] = "outside" /\ closing = "open"
    /\ pc' = Put(pc, c, "queued")
    /\ from' = Put(from, c, a)
    /\ UNCHANGED <<serveVars, leg, left, copies, quiet, age, idle, reqs,
                   fits, attached, gone, unsaid, carried, reports, muted,
                   wronged>>

Acquire ==
    /\ accept = "acquire" /\ sem < Slots
    /\ accept' = "accept" /\ sem' = sem + 1
    /\ UNCHANGED <<hand, wg, closing, seen, connVars>>

Accept(c) ==
    /\ accept = "accept" /\ closing = "open" /\ pc[c] = "queued"
    /\ accept' = "start" /\ hand' = c
    /\ UNCHANGED <<sem, wg, closing, seen, connVars>>

AcceptFails ==
    /\ accept = "accept" /\ closing # "open"
    /\ accept' = "ended" /\ sem' = sem - 1
    /\ UNCHANGED <<hand, wg, closing, seen, connVars>>

\* Added to the group after Accept has returned: Close may have waited already.
Start ==
    /\ accept = "start"
    /\ accept' = "acquire" /\ hand' = None /\ wg' = wg + 1
    /\ pc' = Put(pc, hand, "checking")
    /\ UNCHANGED <<sem, closing, seen, from, leg, left, copies, quiet, age,
                   idle, reqs, fits, attached, gone, unsaid, carried,
                   reports, muted, wronged>>

\* The listener closes; what waits in the backlog is reset.
CloseListener ==
    /\ closing = "open"
    /\ closing' = "waiting"
    /\ pc' = [c \in Conns |->
                IF pc[c] = "queued" /\ c # hand THEN "done" ELSE pc[c]]
    /\ UNCHANGED <<accept, hand, sem, wg, seen, from, leg, left, copies,
                   quiet, age, idle, reqs, fits, attached, gone, unsaid,
                   carried, reports, muted, wronged>>

CloseReturns ==
    /\ closing = "waiting" /\ wg = 0
    /\ closing' = "closed"
    /\ UNCHANGED <<accept, hand, sem, wg, seen, connVars>>

\* The deferred calls: the connection is closed, the slot given back and the
\* group told.  What the model remembers of the connection's life goes with it.
Leave(c) ==
    /\ pc[c] = "ending"
    /\ pc' = Put(pc, c, "done")
    /\ sem' = sem - 1 /\ wg' = wg - 1
    /\ from' = Put(from, c, None) /\ leg' = Put(leg, c, "none")
    /\ age' = Put(age, c, 0) /\ idle' = Put(idle, c, 0) /\ quiet' = Put(quiet, c, 0)
    /\ reqs' = Put(reqs, c, 0)
    /\ unsaid' = Put(unsaid, c, 0)
    /\ carried' = Put(carried, c, FALSE) /\ reports' = Put(reports, c, 0)
    /\ muted' = Put(muted, c, FALSE)
    /\ UNCHANGED <<accept, hand, closing, seen, left, copies, fits, attached,
                   gone, wronged>>

--------------------------------------------------------------------------------
(* Ends and waits                                                               *)

\* A handler ends, having reported n Attempts on the way out.
Ends(c, n) ==
    /\ pc' = Put(pc, c, "ending")
    /\ left' = Put(left, c, Never)
    /\ copies' = Put(copies, c, NoCopy)
    /\ reports' = Put(reports, c, reports[c] + n)

\* A handler waits at p for at most t, or without a deadline.
Waits(c, p, t) ==
    /\ pc' = Put(pc, c, p)
    /\ left' = Put(left, c, t)
    /\ UNCHANGED <<copies, reports>>

\* notAfter: no deadline on the guest's side passes the ceiling.
NotAfter(c, t) == Min({t, Max({Ceiling - age[c], 0})})

--------------------------------------------------------------------------------
(* handle                                                                       *)

ForeignPeer(c) ==
    /\ pc[c] = "checking" /\ from[c] # Guest
    /\ IF from[c] \in seen \/ Cardinality(seen) >= MaxForeign
       THEN Ends(c, 0) /\ UNCHANGED seen
       ELSE Ends(c, 1) /\ seen' = seen \cup {from[c]}
    /\ UNCHANGED <<accept, hand, sem, wg, closing, from, leg, quiet, age,
                   idle, reqs, fits, attached, gone, unsaid, carried, muted,
                   wronged>>

ReadHeader(c) ==
    /\ pc[c] = "checking" /\ from[c] = Guest
    /\ Waits(c, "header", Header)
    /\ UNCHANGED <<serveVars, from, leg, quiet, age, idle, reqs, fits,
                   attached, gone, unsaid, carried, muted, wronged>>

\* The guest hangs up (not reported); or it sends what does not parse, names a host
\* or a port that is not allowed, or nothing until the deadline (all reported).
HeaderRefused(c, n) ==
    /\ pc[c] = "header" /\ n \in {0, 1} /\ (n = 0 => left[c] # 0)
    /\ Ends(c, n)
    /\ UNCHANGED <<serveVars, from, leg, quiet, age, idle, reqs, fits,
                   attached, gone, unsaid, carried, muted, wronged>>

--------------------------------------------------------------------------------
(* tunnel                                                                       *)

DialTunnel(c) ==
    /\ pc[c] = "header" /\ left[c] # 0
    /\ leg' = Put(leg, c, "tunnel")
    /\ Waits(c, "dialing", Dial)
    /\ UNCHANGED <<serveVars, from, quiet, age, idle, reqs, fits, attached,
                   gone, unsaid, carried, muted, wronged>>

\* The dial fails or resolves to an unsafe address (reported), or the guest is gone
\* when it is told of the connection, which returns without a word.
DialFails(c, n) ==
    /\ pc[c] = "dialing" /\ n \in {0, 1} /\ (n = 0 => left[c] # 0)
    /\ Ends(c, n)
    /\ UNCHANGED <<serveVars, from, leg, quiet, age, idle, reqs, fits,
                   attached, gone, unsaid, carried, muted, wronged>>

\* tunnelClock.arm and progress: both directions of both connections.
Arm(c) == Put(copies, c, [d \in Dirs |->
              IF copies[c][d] = Never /\ pc[c] = "copying" THEN Never
              ELSE NotAfter(c, TunnelStall)])

StartCopies(c) ==
    /\ pc[c] = "dialing" /\ left[c] # 0
    /\ pc' = Put(pc, c, "copying")
    /\ left' = Put(left, c, Never)
    /\ copies' = Arm(c)
    /\ UNCHANGED <<serveVars, from, leg, quiet, age, idle, reqs, fits,
                   attached, gone, unsaid, carried, reports, muted, wronged>>

\* Mutant: bytes re-arm the direction they cross in.
ProgressOneSide(c, d) ==
    /\ pc[c] = "copying" /\ copies[c][d] # Never
    /\ copies[c][d] # 0 \/ age[c] < Ceiling
    /\ copies' = [copies EXCEPT ![c][d] = NotAfter(c, TunnelStall)]
    /\ quiet' = Put(quiet, c, 0)
    /\ carried' = Put(carried, c, TRUE)
    /\ UNCHANGED <<serveVars, pc, from, leg, left, age, idle, reqs, fits,
                   attached, gone, unsaid, reports, muted, wronged>>

\* Bytes cross one way.  They may have been read before a deadline that has expired
\* since, and re-arm the clock even so; at the ceiling they cannot.
Progress(c, d) ==
    /\ pc[c] = "copying" /\ copies[c][d] # Never
    /\ copies[c][d] # 0 \/ age[c] < Ceiling
    /\ copies' = Arm(c)
    /\ quiet' = Put(quiet, c, 0)
    /\ carried' = Put(carried, c, TRUE)
    /\ UNCHANGED <<serveVars, pc, from, leg, left, age, idle, reqs, fits,
                   attached, gone, unsaid, reports, muted, wronged>>

\* One direction ends: at the end of its input, on an error, or by its deadline.
\* When both have, the handler reports and ends.
CopyEnds(c, d) ==
    /\ pc[c] = "copying" /\ copies[c][d] # Never
    /\ wronged' = (wronged \/ (copies[c][d] = 0 /\ quiet[c] < TunnelStall
                               /\ age[c] < Ceiling))
    /\ IF \A o \in Dirs \ {d} : copies[c][o] = Never
       THEN Ends(c, 1)
       ELSE /\ copies' = [copies EXCEPT ![c][d] = Never]
            /\ UNCHANGED <<pc, left, reports>>
    /\ UNCHANGED <<serveVars, from, leg, quiet, age, idle, reqs, fits,
                   attached, gone, unsaid, carried, muted>>

--------------------------------------------------------------------------------
(* terminate: the guest's side of the connection                                *)

Handshake(c) ==
    /\ pc[c] = "header" /\ left[c] # 0
    /\ leg' = Put(leg, c, "terminated")
    /\ Waits(c, "handshake", NotAfter(c, Header))
    /\ UNCHANGED <<serveVars, from, quiet, age, idle, reqs, fits, attached,
                   gone, unsaid, carried, muted, wronged>>

\* The guest pins its own certificates or times out, which is reported, or is gone
\* when the connection is announced to it, which is not.
HandshakeFails(c, n) ==
    /\ pc[c] = "handshake" /\ n \in {0, 1} /\ (n = 0 => left[c] # 0)
    /\ Ends(c, n)
    /\ UNCHANGED <<serveVars, from, leg, quiet, age, idle, reqs, fits,
                   attached, gone, unsaid, carried, muted, wronged>>

\* What the loop allows for the wait for the next request, which may be nothing.
GapBound(c) == Min({IF reqs[c] = 0 THEN Header ELSE Idle, IdleBudget - idle[c]})

\* The top of the loop: too many requests, too old, or idle for too long.
NextRequest(c) ==
    IF reqs[c] >= MaxRequests \/ age[c] >= Ceiling \/ GapBound(c) <= 0
    THEN Ends(c, 1)
    ELSE Waits(c, "gap", NotAfter(c, GapBound(c)))

HandshakeDone(c) ==
    /\ pc[c] = "handshake" /\ left[c] # 0
    /\ NextRequest(c)
    /\ UNCHANGED <<serveVars, from, leg, quiet, age, idle, reqs, fits,
                   attached, gone, unsaid, carried, muted, wronged>>

GapEnds(c) ==
    /\ pc[c] = "gap" /\ left[c] # 0
    /\ Waits(c, "heading", NotAfter(c, Header))
    /\ UNCHANGED <<serveVars, from, leg, quiet, age, idle, reqs, fits,
                   attached, gone, unsaid, carried, muted, wronged>>

\* The guest hangs up, is silent or sends what does not parse: one Attempt, the last.
\* A header over the limit is reported as such, and then with the connection.
RequestRefused(c, n) ==
    /\ pc[c] \in {"gap", "heading"} /\ n \in {1, 2}
    /\ n = 2 => pc[c] = "heading" /\ left[c] # 0
    /\ Ends(c, n)
    /\ UNCHANGED <<serveVars, from, leg, quiet, age, idle, reqs, fits,
                   attached, gone, unsaid, carried, muted, wronged>>

\* The first secret bound to the host whose scope covers the request, when the
\* request names the host its connection was opened to.
pick(sameHost, covering) ==
    LET able == {i \in DOMAIN Secrets : Secrets[i] \in covering}
    IN  IF ~sameHost \/ able = {} THEN None ELSE Secrets[Min(able)]

\* A request is read: its credential is attached, or OnWithheld told why not.
TakeRequest(c, sameHost, covering) ==
    /\ pc[c] = "heading" /\ left[c] # 0
    /\ reqs' = Put(reqs, c, reqs[c] + 1)
    /\ fits' = Put(fits, c, IF sameHost THEN covering ELSE {})
    /\ attached' = Put(attached, c, pick(sameHost, covering))
    /\ gone' = Put(gone, c, FALSE)
    /\ Waits(c, "reaching", Dial)
    /\ UNCHANGED <<serveVars, from, leg, quiet, age, idle, unsaid, carried,
                   muted, wronged>>

--------------------------------------------------------------------------------
(* A request on its way to the origin and back, on either leg                   *)

\* Mutant: the forwarded exchange is re-issued without the context.
OnOriginBare(c, t) == t

\* forwardHTTP puts the whole exchange under a context that ends at the ceiling;
\* on the terminated leg nothing but the transport's own timers covers it.
OnOrigin(c, t) == CASE leg[c] = "terminated" -> t
                    [] t = Never -> NotAfter(c, Ceiling)
                    [] OTHER -> NotAfter(c, t)

\* Never with a credential: one that is bound to the host is withheld.
Forward(c) ==
    /\ pc[c] = "header" /\ left[c] # 0
    /\ leg' = Put(leg, c, "plain")
    /\ attached' = Put(attached, c, None)
    /\ Waits(c, "reaching", NotAfter(c, Dial))
    /\ UNCHANGED <<serveVars, from, quiet, age, idle, reqs, fits, gone,
                   unsaid, carried, muted, wronged>>

\* The header goes to the origin, and a credential with it.
SendHeader(c) ==
    /\ pc[c] = "reaching" /\ left[c] # 0
    /\ gone' = Put(gone, c, TRUE)
    /\ carried' = Put(carried, c, TRUE)
    /\ unsaid' = Put(unsaid, c, unsaid[c] + IF attached[c] # None THEN 1 ELSE 0)
    /\ \/ Waits(c, "taking", NotAfter(c, Stall))
       \/ Waits(c, "answer", OnOrigin(c, IdleBudget))
    /\ UNCHANGED <<serveVars, from, leg, quiet, age, idle, reqs, fits,
                   attached, muted, wronged>>

\* The body: read from the guest under the rolling clock, written to the origin.
TakeBody(c) ==
    /\ pc[c] = "taking" /\ left[c] # 0
    /\ Waits(c, "giving", OnOrigin(c, Never))
    /\ UNCHANGED <<serveVars, from, leg, quiet, age, idle, reqs, fits,
                   attached, gone, unsaid, carried, muted, wronged>>

GiveBody(c) ==
    /\ pc[c] = "giving" /\ left[c] # 0
    /\ \/ Waits(c, "taking", NotAfter(c, Stall))
       \/ Waits(c, "answer", OnOrigin(c, IdleBudget))
    /\ UNCHANGED <<serveVars, from, leg, quiet, age, idle, reqs, fits,
                   attached, gone, unsaid, carried, muted, wronged>>

\* Mutant: OnSecret is told only when RoundTrip returned an answer.
LogsIfAnswered(c, answered) ==
    unsaid' = Put(unsaid, c, unsaid[c] - IF attached[c] # None /\ answered THEN 1 ELSE 0)

\* OnSecret is told when RoundTrip returned an answer, or had sent the header.
LogsSecret(c, answered) ==
    unsaid' = Put(unsaid, c,
                  unsaid[c] - IF attached[c] # None /\ (answered \/ gone[c]) THEN 1 ELSE 0)

\* attached and sent are variables of one turn of the loop.
RequestOver(c) ==
    /\ fits' = Put(fits, c, {})
    /\ attached' = Put(attached, c, None)
    /\ gone' = Put(gone, c, FALSE)

\* RoundTrip fails: no connection, a stalled body, an error, a timer.
RoundTripFails(c) ==
    /\ pc[c] \in {"reaching", "taking", "giving", "answer"}
    /\ LogsSecret(c, FALSE)
    /\ Ends(c, 1)
    /\ RequestOver(c)
    /\ UNCHANGED <<serveVars, from, leg, quiet, age, idle, reqs, carried,
                   muted, wronged>>

\* An answer whose encoding hides what must be scrubbed is refused.
Answered(c, scrubbable) ==
    /\ pc[c] = "answer" /\ left[c] # 0
    /\ LogsSecret(c, TRUE)
    /\ IF scrubbable THEN Waits(c, "drawing", OnOrigin(c, Never)) ELSE Ends(c, 1)
    /\ RequestOver(c)
    /\ UNCHANGED <<serveVars, from, leg, quiet, age, idle, reqs, carried,
                   muted, wronged>>

\* The answer's body: read from the origin, written to the guest.
DrawBody(c) ==
    /\ pc[c] = "drawing" /\ left[c] # 0
    /\ Waits(c, "handing", NotAfter(c, Stall))
    /\ UNCHANGED <<serveVars, from, leg, quiet, age, idle, reqs, fits,
                   attached, gone, unsaid, carried, muted, wronged>>

HandBody(c) ==
    /\ pc[c] = "handing" /\ left[c] # 0
    /\ Waits(c, "drawing", OnOrigin(c, Never))
    /\ UNCHANGED <<serveVars, from, leg, quiet, age, idle, reqs, fits,
                   attached, gone, unsaid, carried, muted, wronged>>

\* The answer is over.  It ends the connection when a write failed or the connection
\* cannot carry another; the plain leg carries one.
AnswerEnds(c, again) ==
    /\ pc[c] \in {"drawing", "handing"}
    /\ again => left[c] # 0 /\ leg[c] = "terminated"
    /\ IF again THEN NextRequest(c) ELSE Ends(c, 1)
    /\ UNCHANGED <<serveVars, from, leg, quiet, age, idle, reqs, fits,
                   attached, gone, unsaid, carried, muted, wronged>>

--------------------------------------------------------------------------------
(* Time                                                                         *)

\* The ceiling has started.
Aging == {"handshake", "gap", "heading", "reaching", "taking", "giving", "answer",
          "drawing", "handing", "copying"}

\* The waits that are charged to the idle budget of a terminated connection.
Charged == {"gap", "heading", "reaching", "taking", "giving", "answer"}

\* The one wait that nothing bounds: a terminated connection's origin that stops
\* taking the request's body, or stops in the middle of its answer's.
Unbounded(c) == leg[c] = "terminated" /\ pc[c] \in {"giving", "drawing"}

Less(t) == IF t = Never THEN Never ELSE t - 1

Tick ==
    /\ \A c \in Conns : left[c] # 0 /\ \A d \in Dirs : copies[c][d] # 0
    /\ \E c \in Conns : pc[c] \in Aging \cup {"header", "dialing"}
    /\ left' = [c \in Conns |-> Less(left[c])]
    /\ copies' = [c \in Conns |-> [d \in Dirs |-> Less(copies[c][d])]]
    /\ quiet' = [c \in Conns |-> IF pc[c] = "copying" THEN Min({quiet[c] + 1, Ceiling})
                                 ELSE quiet[c]]
    /\ age' = [c \in Conns |-> IF pc[c] \in Aging THEN Min({age[c] + 1, AgeMax})
                               ELSE age[c]]
    /\ idle' = [c \in Conns |-> IF pc[c] \in Charged /\ leg[c] = "terminated"
                                THEN Min({idle[c] + 1, IdleBudget}) ELSE idle[c]]
    /\ muted' = [c \in Conns |-> muted[c] \/ (Unbounded(c) /\ age[c] >= Ceiling)]
    /\ UNCHANGED <<serveVars, pc, from, leg, reqs, fits, attached, gone,
                   unsaid, carried, reports, wronged>>

--------------------------------------------------------------------------------

Handler(c) ==
    \/ ForeignPeer(c) \/ ReadHeader(c)
    \/ \E n \in 0..1 : HeaderRefused(c, n) \/ DialFails(c, n) \/ HandshakeFails(c, n)
    \/ StartCopies(c)
    \/ \E d \in Dirs : Progress(c, d) \/ CopyEnds(c, d)
    \/ HandshakeDone(c) \/ GapEnds(c)
    \/ \E n \in 1..2 : RequestRefused(c, n)
    \/ \E same \in BOOLEAN, covering \in SUBSET Range(Secrets) :
           TakeRequest(c, same, covering)
    \/ DialTunnel(c) \/ Handshake(c) \/ Forward(c)
    \/ SendHeader(c) \/ TakeBody(c) \/ GiveBody(c) \/ RoundTripFails(c)
    \/ \E scrubbable \in BOOLEAN : Answered(c, scrubbable)
    \/ DrawBody(c) \/ HandBody(c)
    \/ \E again \in BOOLEAN : AnswerEnds(c, again)

Next ==
    \/ Acquire \/ AcceptFails \/ Start \/ CloseListener \/ CloseReturns \/ Tick
    \/ \E c \in Conns : Accept(c) \/ Leave(c) \/ Handler(c)
    \/ \E c \in Conns, a \in Strangers \cup {Guest} : Connect(c, a)

\* Every goroutine keeps running, time passes, and a wait whose deadline has expired
\* ends.  Neither the guest nor an origin is assumed to do anything.
Expired(c) == left[c] = 0 \/ (\E d \in Dirs : copies[c][d] = 0) \/ pc[c] = "checking"

Fairness ==
    /\ WF_vars(Acquire) /\ WF_vars(AcceptFails) /\ WF_vars(Start)
    /\ WF_vars(CloseReturns) /\ WF_vars(Tick)
    /\ \A c \in Conns : WF_vars(Leave(c)) /\ WF_vars(Expired(c) /\ Handler(c))

Spec == Init /\ [][Next]_vars /\ Fairness

--------------------------------------------------------------------------------

Served == {c \in Conns : pc[c] \notin {"outside", "queued", "done"}}
Exchange == {"reaching", "taking", "giving", "answer"}

\* Slots and the group count exactly the handlers that run, with the slot the loop
\* holds before it accepts (Serve, S5a).
SlotsExact ==
    /\ sem = Cardinality(Served) + (IF accept \in {"accept", "start"} THEN 1 ELSE 0)
    /\ sem <= Slots
    /\ wg = Cardinality(Served)

\* Only the guest is served, only a terminated request carries a credential, and
\* the credential is one whose host and scope the request is within (handle, pick).
OnlyEntitled ==
    \A c \in Conns :
        /\ from[c] \in Strangers => pc[c] \in {"queued", "checking", "ending", "done"}
        /\ attached[c] # None => leg[c] = "terminated" /\ attached[c] \in fits[c]

\* Every time a credential left, the record says so once the request is over, also
\* when the request then failed; and never when none left (OnSecret, terminate.go).
SecretsAccounted ==
    \A c \in Conns :
        unsaid[c] =
            (IF pc[c] \in Exchange /\ gone[c] /\ attached[c] # None THEN 1 ELSE 0)

\* What the proxy holds and what it says: slots, entitlement, credentials, and that a
\* connection that carried something is reported by the end of its handler.
EgressSafe ==
    /\ SlotsExact /\ OnlyEntitled /\ SecretsAccounted
    /\ \A c \in Conns : pc[c] = "ending" /\ carried[c] => reports[c] \in 1..2

\* No connection outlives its ceiling by more than one dial and one answer, unless an
\* origin kept it in that wait past its ceiling; and no direction of a tunnel is cut while
\* bytes cross the other way (the clocks of proxy.go and terminate.go).
Timely ==
    /\ \A c \in Conns : age[c] > LongestLife => muted[c]
    /\ ~wronged

\* Close returns, whatever the guest does, unless an origin holds a terminated
\* connection for ever (Close, proxy.go).
CloseEnds ==
    (<>[](closing = "waiting")) => \E c \in Conns : <>[]Unbounded(c)

\* What terminate.go says of maxTerminatedConnTime: "the ceiling on the whole
\* connection, however the time is spent".  An origin that is silent in the middle of
\* an answer holds the connection past it.
CeilingHolds == \A c \in Conns : age[c] <= LongestLife

\* Close "waits": no handler runs when it has returned.  A connection accepted just
\* before is added to the group after the wait.
NothingAfterClose == closing = "closed" => Served = {}

--------------------------------------------------------------------------------
(* Inductive strengthenings, for EgressProofs.                                  *)

TypeOK ==
    /\ accept \in {"acquire", "accept", "start", "ended"}
    /\ closing \in {"open", "waiting", "closed"}
    /\ pc \in [Conns -> {"outside", "queued", "checking", "header", "dialing"}
                        \cup Aging \cup {"ending", "done"}]
    /\ from \in [Conns -> Strangers \cup {Guest, None}]
    /\ leg \in [Conns -> {"none", "tunnel", "terminated", "plain"}]
    /\ left \in [Conns -> Nat \cup {Never}]
    /\ copies \in [Conns -> [Dirs -> Nat \cup {Never}]]
    /\ {quiet, age, idle, reqs, reports} \subseteq [Conns -> Nat]
    /\ fits \in [Conns -> SUBSET Range(Secrets)]
    /\ attached \in [Conns -> Range(Secrets) \cup {None}]
    /\ {gone, carried, muted} \subseteq [Conns -> BOOLEAN]
    /\ unsaid \in [Conns -> Int] /\ wronged \in BOOLEAN

\* The connection the accept loop holds is still to be started; those that are
\* served are finitely many.
HandHeld ==
    /\ accept = "start" => hand \in Conns /\ pc[hand] = "queued"
    /\ IsFiniteSet(Served)

\* A credential is on a request only while it is exchanged, and once its body or
\* its answer is awaited the header has left.
OneRequest(c) ==
    /\ pc[c] \in {"handshake", "gap", "heading"} => leg[c] = "terminated"
    /\ pc[c] \notin Exchange => attached[c] = None
    /\ pc[c] = "reaching" /\ attached[c] # None => ~gone[c]
    /\ pc[c] \in Exchange \ {"reaching"} => gone[c]

\* Attempts are reported by the end of the handler, and nothing leaves before the
\* connection is let through.
SaidAtEnd(c) ==
    /\ pc[c] # "ending" => reports[c] = 0
    /\ pc[c] \in {"outside", "queued", "checking", "header", "dialing", "handshake"} =>
         ~carried[c]

\* A deadline that has not expired ends by the given age.
By(c, t, limit) == t # Never /\ (t = 0 \/ age[c] + t <= limit)

\* Each wait ends by the ceiling; on the terminated leg the dial may pass it, and the
\* answer that dial's end, unless the origin was muted before.
InTime(c) ==
    /\ pc[c] \in {"handshake", "gap", "heading", "taking", "handing"} =>
         By(c, left[c], Ceiling)
    /\ pc[c] \in {"reaching", "giving", "answer", "drawing"} /\ leg[c] # "terminated" =>
         By(c, left[c], Ceiling)
    /\ leg[c] = "terminated" =>
         /\ pc[c] = "reaching" => By(c, left[c], Ceiling + Dial)
         /\ pc[c] = "answer"   => left[c] # Never
                                  /\ (By(c, left[c], LongestLife) \/ muted[c])
         /\ pc[c] = "giving"   => age[c] <= Ceiling \/ muted[c]
    /\ age[c] > LongestLife => muted[c]

\* A direction's deadline is never sooner than the tunnel's stall or the ceiling.
CopyInTime(c, d) ==
    copies[c][d] # Never =>
        /\ By(c, copies[c][d], Ceiling)
        /\ \/ copies[c][d] + quiet[c] >= TunnelStall
           \/ copies[c][d] + age[c] >= Ceiling

CopiesInTime(c) ==
    /\ IF pc[c] = "copying"
       THEN quiet[c] <= age[c] /\ \E d \in Dirs : copies[c][d] # Never
       ELSE copies[c] = NoCopy
    /\ pc[c] \notin {"copying", "ending"} => quiet[c] = 0
    /\ \A d \in Dirs : CopyInTime(c, d)

Told    == \A c \in Conns : OneRequest(c) /\ SaidAtEnd(c)
Clocked == \A c \in Conns : InTime(c) /\ CopiesInTime(c)
================================================================================
