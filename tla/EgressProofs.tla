---------------------------- MODULE EgressProofs ----------------------------
(***************************************************************************)
(* Theorems about Egress, for every set of connections, of strangers and   *)
(* of secrets, and for every positive limit; about the grants the proxy    *)
(* and the commands hold a machine to, and about where a credential may go *)
(* and whether it comes back, for every input.                             *)
(***************************************************************************)
EXTENDS Egress, Credentials, ListProofs

\* The smaller, and the larger, of two numbers.
LEMMA OfTwo ==
  ASSUME NEW a \in Int, NEW b \in Int
  PROVE  /\ Min({a, b}) = IF a <= b THEN a ELSE b
         /\ Max({a, b}) = IF a >= b THEN a ELSE b
BY DEF Min, Max

\* The limits are positive numbers.
LEMMA LimitsAre ==
  /\ MaxForeign \in Nat \ {0} /\ Slots \in Nat \ {0} /\ Header \in Nat \ {0}
  /\ Stall \in Nat \ {0} /\ TunnelStall \in Nat \ {0} /\ Idle \in Nat \ {0}
  /\ IdleBudget \in Nat \ {0} /\ Ceiling \in Nat \ {0} /\ Dial \in Nat \ {0}
  /\ LongestLife = Ceiling + Dial + IdleBudget /\ AgeMax = LongestLife + 1
BY EgressAssumption DEF LongestLife, AgeMax

\* A guest-side deadline is what was asked for or what is left until the ceiling
\* (notAfter, proxy.go).
LEMMA NotAfterIs ==
  ASSUME TypeOK, NEW c \in Conns, NEW t \in Nat
  PROVE  /\ NotAfter(c, t) \in Nat /\ NotAfter(c, t) <= t
         /\ NotAfter(c, t) = 0 \/ age[c] + NotAfter(c, t) <= Ceiling
         /\ NotAfter(c, t) = t \/ age[c] + NotAfter(c, t) >= Ceiling
<1>1. age[c] \in Nat /\ Ceiling \in Nat
  BY LimitsAre DEF TypeOK
<1>2. PICK k \in Int : k = Ceiling - age[c]
  BY <1>1
<1>3. Max({k, 0}) = IF k >= 0 THEN k ELSE 0
  BY OfTwo
<1>4. PICK l \in Int : l = Max({k, 0})
  BY <1>3
<1>5. Min({t, l}) = IF t <= l THEN t ELSE l
  BY OfTwo
<1>6. NotAfter(c, t) = Min({t, l})
  BY <1>2, <1>4 DEF NotAfter
<1> QED  BY <1>1, <1>2, <1>3, <1>4, <1>5, <1>6

\* The gap between two requests is a number, positive when the loop waits (terminate.go).
LEMMA GapIs ==
  ASSUME TypeOK, NEW c \in Conns
  PROVE  GapBound(c) \in Int
<1>1. reqs[c] \in Nat /\ idle[c] \in Nat
  BY DEF TypeOK
<1> QED  BY <1>1, LimitsAre, OfTwo DEF GapBound

\* A credential is attached only when the request is within its host and scope (pick).
LEMMA PickIs ==
  ASSUME NEW same \in BOOLEAN, NEW covering \in SUBSET Range(Secrets)
  PROVE  /\ pick(same, covering) \in Range(Secrets) \cup {None}
         /\ pick(same, covering) # None => same /\ pick(same, covering) \in covering
<1> DEFINE able == {i \in DOMAIN Secrets : Secrets[i] \in covering}
<1>1. able \subseteq Nat
  BY EgressAssumption
<1>2. CASE same /\ able # {}
  <2>1. PICK n \in able : \A m \in able : n <= m
    BY <1>1, <1>2, LeastOf
  <2>2. Min(able) \in able
    BY <2>1 DEF Min
  <2>3. Secrets[Min(able)] \in covering
    BY <2>2
  <2>4. pick(same, covering) = Secrets[Min(able)]
    BY <1>2 DEF pick
  <2> QED  BY <1>2, <2>3, <2>4
<1>3. CASE ~same \/ able = {}
  <2>1. pick(same, covering) = None
    BY <1>3 DEF pick
  <2> QED  BY <2>1
<1> QED  BY <1>2, <1>3

\* The parts of TypeOK a handler's wait or its end changes, and the others.
WaitTyped ==
    /\ pc \in [Conns -> {"outside", "queued", "checking", "header", "dialing"}
                        \cup Aging \cup {"ending", "done"}]
    /\ left \in [Conns -> Nat \cup {Never}]
    /\ copies \in [Conns -> [Dirs -> Nat \cup {Never}]]
    /\ reports \in [Conns -> Nat]

RestTyped ==
    /\ accept \in {"acquire", "accept", "start", "ended"}
    /\ closing \in {"open", "waiting", "closed"}
    /\ from \in [Conns -> Strangers \cup {Guest, None}]
    /\ leg \in [Conns -> {"none", "tunnel", "terminated", "plain"}]
    /\ quiet \in [Conns -> Nat] /\ age \in [Conns -> Nat]
    /\ idle \in [Conns -> Nat] /\ reqs \in [Conns -> Nat]
    /\ fits \in [Conns -> SUBSET Range(Secrets)]
    /\ attached \in [Conns -> Range(Secrets) \cup {None}]
    /\ gone \in [Conns -> BOOLEAN] /\ carried \in [Conns -> BOOLEAN]
    /\ muted \in [Conns -> BOOLEAN]
    /\ unsaid \in [Conns -> Int] /\ wronged \in BOOLEAN

\* Whoever reports or waits has a type (handle, tunnel, terminate).
LEMMA TypeParts ==
  /\ TypeOK <=> WaitTyped /\ RestTyped
  /\ TypeOK' <=> WaitTyped' /\ RestTyped'
BY DEF TypeOK, WaitTyped, RestTyped

\* A handler that ends keeps the types.
LEMMA EndsTyped ==
  ASSUME WaitTyped, NEW c \in Conns, NEW n \in Nat, Ends(c, n)
  PROVE  WaitTyped'
<1>1. NoCopy \in [Dirs -> Nat \cup {Never}]
  BY DEF NoCopy, Never
<1> QED  BY <1>1 DEF WaitTyped, Ends, Put

\* A handler that waits keeps the types.
LEMMA WaitsTyped ==
  ASSUME WaitTyped, NEW c \in Conns, NEW p \in {"header", "dialing"} \cup Aging,
         NEW t \in Nat \cup {Never}, Waits(c, p, t)
  PROVE  WaitTyped'
BY DEF WaitTyped, Waits, Put

\* No step of the proxy breaks a type.
LEMMA TypeNext ==
  TypeOK /\ HandHeld /\ [Next]_vars => TypeOK'
<1> SUFFICES ASSUME TypeOK, HandHeld, [Next]_vars
             PROVE  TypeOK'
  OBVIOUS
<1> USE DEF serveVars, connVars
<1>na. \A k \in Conns, t \in Nat : NotAfter(k, t) \in Nat
  BY NotAfterIs
<1>no. \A k \in Conns, t \in Nat \cup {Never} : OnOrigin(k, t) \in Nat \cup {Never}
  BY <1>na, LimitsAre DEF OnOrigin, Never
<1>nx. ASSUME NEW c \in Conns, NextRequest(c)
       PROVE  WaitTyped'
  <2>1. GapBound(c) \in Int
    BY GapIs
  <2>2. CASE Ends(c, 1)
    BY <2>2, TypeParts, EndsTyped
  <2>3. CASE GapBound(c) > 0 /\ Waits(c, "gap", NotAfter(c, GapBound(c)))
    BY <2>1, <2>3, <1>na, TypeParts, WaitsTyped DEF Aging
  <2> QED  BY <1>nx, <2>1, <2>2, <2>3 DEF NextRequest
<1>mi. \A k, l \in Nat : Min({k, l}) \in Nat
  BY OfTwo
<1> USE LimitsAre DEF Aging, Never
<1>1. CASE Acquire
  BY <1>1, <1>na DEF TypeOK, Acquire
<1>2. CASE AcceptFails
  BY <1>2, <1>na DEF TypeOK, AcceptFails
<1>3. CASE Start
  BY <1>3, <1>na DEF TypeOK, HandHeld, Start, Put
<1>4. CASE CloseListener
  BY <1>4, <1>na DEF TypeOK, CloseListener
<1>5. CASE CloseReturns
  BY <1>5, <1>na DEF TypeOK, CloseReturns
<1>6. CASE Tick
  <2>1. \A t \in Nat \cup {Never} : t # 0 => Less(t) \in Nat \cup {Never}
    BY DEF Less
  <2>2. \A k \in Conns : left[k] \in Nat \cup {Never} /\ left[k] # 0
    BY <1>6, TypeParts DEF WaitTyped, Tick
  <2>3. \A k \in Conns, d \in Dirs : copies[k][d] \in Nat \cup {Never} /\ copies[k][d] # 0
    BY <1>6, TypeParts DEF WaitTyped, Tick
  <2>4. left' \in [Conns -> Nat \cup {Never}]
    BY <1>6, <2>1, <2>2 DEF Tick
  <2>5. copies' \in [Conns -> [Dirs -> Nat \cup {Never}]]
    BY <1>6, <2>1, <2>3 DEF Tick
  <2>6. WaitTyped'
    BY <1>6, <2>4, <2>5, TypeParts DEF WaitTyped, Tick
  <2>7. quiet' \in [Conns -> Nat]
    <3>1. \A k \in Conns : Min({quiet[k] + 1, Ceiling}) \in Nat /\ quiet[k] \in Nat
      <4> TAKE k \in Conns
      <4>1. quiet[k] \in Nat
        BY TypeParts DEF RestTyped
      <4>2. PICK n \in Nat : n = quiet[k] + 1
        BY <4>1
      <4> QED  BY <4>1, <4>2, <1>mi
    <3> QED  BY <1>6, <3>1, TypeParts DEF RestTyped, Tick
  <2>8. age' \in [Conns -> Nat]
    <3>1. \A k \in Conns : Min({age[k] + 1, AgeMax}) \in Nat /\ age[k] \in Nat
      <4> TAKE k \in Conns
      <4>1. age[k] \in Nat
        BY TypeParts DEF RestTyped
      <4>2. PICK n \in Nat : n = age[k] + 1
        BY <4>1
      <4> QED  BY <4>1, <4>2, <1>mi
    <3> QED  BY <1>6, <3>1, TypeParts DEF RestTyped, Tick
  <2>9. idle' \in [Conns -> Nat]
    <3>1. \A k \in Conns : Min({idle[k] + 1, IdleBudget}) \in Nat /\ idle[k] \in Nat
      <4> TAKE k \in Conns
      <4>1. idle[k] \in Nat
        BY TypeParts DEF RestTyped
      <4>2. PICK n \in Nat : n = idle[k] + 1
        BY <4>1
      <4> QED  BY <4>1, <4>2, <1>mi
    <3> QED  BY <1>6, <3>1, TypeParts DEF RestTyped, Tick
  <2>10. muted' \in [Conns -> BOOLEAN]
    BY <1>6, TypeParts DEF RestTyped, Tick
  <2>11. RestTyped'
    BY <1>6, <2>7, <2>8, <2>9, <2>10, TypeParts DEF RestTyped, Tick
  <2> QED  BY <2>6, <2>11, TypeParts
<1>7. ASSUME NEW c \in Conns, Accept(c)
      PROVE  TypeOK'
  BY <1>7, <1>na DEF TypeOK, Accept
<1>8. ASSUME NEW c \in Conns, Leave(c)
      PROVE  TypeOK'
  BY <1>8, <1>na DEF TypeOK, Leave, Put
<1>9. ASSUME NEW c \in Conns, ForeignPeer(c)
      PROVE  TypeOK'
  <2>1. WaitTyped'
    BY <1>9, TypeParts, EndsTyped DEF ForeignPeer
  <2>2. RestTyped'
    BY <1>9, TypeParts DEF RestTyped, ForeignPeer
  <2> QED  BY <2>1, <2>2, TypeParts
<1>10. ASSUME NEW c \in Conns, ReadHeader(c)
      PROVE  TypeOK'
  BY <1>10, <1>na DEF TypeOK, ReadHeader, Waits, Put
<1>11. ASSUME NEW c \in Conns, NEW n \in 0..1, HeaderRefused(c, n)
      PROVE  TypeOK'
  <2>1. WaitTyped'
    BY <1>11, TypeParts, EndsTyped DEF HeaderRefused
  <2>2. RestTyped'
    BY <1>11, TypeParts DEF RestTyped, HeaderRefused
  <2> QED  BY <2>1, <2>2, TypeParts
<1>12. ASSUME NEW c \in Conns, NEW n \in 0..1, DialFails(c, n)
      PROVE  TypeOK'
  <2>1. WaitTyped'
    BY <1>12, TypeParts, EndsTyped DEF DialFails
  <2>2. RestTyped'
    BY <1>12, TypeParts DEF RestTyped, DialFails
  <2> QED  BY <2>1, <2>2, TypeParts
<1>13. ASSUME NEW c \in Conns, NEW n \in 0..1, HandshakeFails(c, n)
      PROVE  TypeOK'
  <2>1. WaitTyped'
    BY <1>13, TypeParts, EndsTyped DEF HandshakeFails
  <2>2. RestTyped'
    BY <1>13, TypeParts DEF RestTyped, HandshakeFails
  <2> QED  BY <2>1, <2>2, TypeParts
<1>14. ASSUME NEW c \in Conns, StartCopies(c)
      PROVE  TypeOK'
  BY <1>14, <1>na DEF TypeOK, StartCopies, Arm, Put
<1>15. ASSUME NEW c \in Conns, NEW d \in Dirs, Progress(c, d)
      PROVE  TypeOK'
  BY <1>15, <1>na DEF TypeOK, Progress, Arm, Put
<1>16. ASSUME NEW c \in Conns, NEW d \in Dirs, CopyEnds(c, d)
      PROVE  TypeOK'
  <2>1. WaitTyped'
    <3>1. CASE Ends(c, 1)
      BY <3>1, TypeParts, EndsTyped
    <3>2. CASE copies' = [copies EXCEPT ![c][d] = Never] /\ UNCHANGED <<pc, left, reports>>
      BY <3>2, TypeParts DEF WaitTyped
    <3> QED  BY <1>16, <3>1, <3>2 DEF CopyEnds
  <2>2. RestTyped'
    BY <1>16, TypeParts DEF RestTyped, CopyEnds
  <2> QED  BY <2>1, <2>2, TypeParts
<1>17. ASSUME NEW c \in Conns, HandshakeDone(c)
      PROVE  TypeOK'
  <2>1. WaitTyped'
    BY <1>17, <1>nx, TypeParts DEF HandshakeDone
  <2>2. RestTyped'
    BY <1>17, TypeParts DEF RestTyped, HandshakeDone
  <2> QED  BY <2>1, <2>2, TypeParts
<1>18. ASSUME NEW c \in Conns, GapEnds(c)
      PROVE  TypeOK'
  BY <1>18, <1>na DEF TypeOK, GapEnds, Waits, Put
<1>19. ASSUME NEW c \in Conns, NEW n \in 1..2, RequestRefused(c, n)
      PROVE  TypeOK'
  <2>1. WaitTyped'
    BY <1>19, TypeParts, EndsTyped DEF RequestRefused
  <2>2. RestTyped'
    BY <1>19, TypeParts DEF RestTyped, RequestRefused
  <2> QED  BY <2>1, <2>2, TypeParts
<1>20. ASSUME NEW c \in Conns, NEW same \in BOOLEAN, NEW covering \in SUBSET Range(Secrets),
             TakeRequest(c, same, covering)
      PROVE  TypeOK'
  <2>1. WaitTyped'
    BY <1>20, TypeParts, WaitsTyped DEF TakeRequest, Aging
  <2>2. RestTyped'
    BY <1>20, PickIs, TypeParts DEF RestTyped, TakeRequest, Put
  <2> QED  BY <2>1, <2>2, TypeParts
<1>21. ASSUME NEW c \in Conns, DialTunnel(c)
      PROVE  TypeOK'
  BY <1>21, <1>na DEF TypeOK, DialTunnel, Waits, Put
<1>22. ASSUME NEW c \in Conns, Handshake(c)
      PROVE  TypeOK'
  BY <1>22, <1>na DEF TypeOK, Handshake, Waits, Put
<1>23. ASSUME NEW c \in Conns, Forward(c)
      PROVE  TypeOK'
  BY <1>23, <1>na DEF TypeOK, Forward, Waits, Put
<1>24. ASSUME NEW c \in Conns, SendHeader(c)
      PROVE  TypeOK'
  <2>1. WaitTyped'
    BY <1>24, <1>na, <1>no, TypeParts, WaitsTyped DEF SendHeader, Aging
  <2>2. RestTyped'
    BY <1>24, TypeParts DEF RestTyped, SendHeader, Put
  <2> QED  BY <2>1, <2>2, TypeParts
<1>25. ASSUME NEW c \in Conns, TakeBody(c)
      PROVE  TypeOK'
  BY <1>25, <1>na DEF TypeOK, TakeBody, OnOrigin, Waits, Put
<1>26. ASSUME NEW c \in Conns, GiveBody(c)
      PROVE  TypeOK'
  <2>1. WaitTyped'
    BY <1>26, <1>na, <1>no, TypeParts, WaitsTyped DEF GiveBody, Aging
  <2>2. RestTyped'
    BY <1>26, TypeParts DEF RestTyped, GiveBody
  <2> QED  BY <2>1, <2>2, TypeParts
<1>27. ASSUME NEW c \in Conns, RoundTripFails(c)
      PROVE  TypeOK'
  <2>1. WaitTyped'
    BY <1>27, TypeParts, EndsTyped DEF RoundTripFails
  <2>2. RestTyped'
    BY <1>27, TypeParts DEF RestTyped, RoundTripFails, LogsSecret, RequestOver, Put
  <2> QED  BY <2>1, <2>2, TypeParts
<1>28. ASSUME NEW c \in Conns, NEW scrubbable \in BOOLEAN, Answered(c, scrubbable)
      PROVE  TypeOK'
  <2>1. WaitTyped'
    BY <1>28, <1>na, <1>no, TypeParts, WaitsTyped, EndsTyped DEF Answered, Aging
  <2>2. RestTyped'
    BY <1>28, TypeParts DEF RestTyped, Answered, LogsSecret, RequestOver, Put
  <2> QED  BY <2>1, <2>2, TypeParts
<1>29. ASSUME NEW c \in Conns, DrawBody(c)
      PROVE  TypeOK'
  BY <1>29, <1>na DEF TypeOK, DrawBody, Waits, Put
<1>30. ASSUME NEW c \in Conns, HandBody(c)
      PROVE  TypeOK'
  BY <1>30, <1>na DEF TypeOK, HandBody, OnOrigin, Waits, Put
<1>31. ASSUME NEW c \in Conns, NEW again \in BOOLEAN, AnswerEnds(c, again)
      PROVE  TypeOK'
  <2>1. WaitTyped'
    BY <1>31, <1>nx, TypeParts, EndsTyped DEF AnswerEnds
  <2>2. RestTyped'
    BY <1>31, TypeParts DEF RestTyped, AnswerEnds
  <2> QED  BY <2>1, <2>2, TypeParts
<1>32. ASSUME NEW c \in Conns, NEW a \in Strangers \cup {Guest}, Connect(c, a)
      PROVE  TypeOK'
  BY <1>32, <1>na DEF TypeOK, Connect, Put
<1>33. CASE UNCHANGED vars
  BY <1>33, <1>na DEF TypeOK, vars
<1> QED
  BY <1>1, <1>2, <1>3, <1>4, <1>5, <1>6, <1>7, <1>8, <1>9, <1>10, <1>11,
     <1>12, <1>13, <1>14, <1>15, <1>16, <1>17, <1>18, <1>19, <1>20, <1>21, <1>22,
     <1>23, <1>24, <1>25, <1>26, <1>27, <1>28, <1>29, <1>30, <1>31, <1>32, <1>33
  DEF Next, Handler

\* A request's header leaves once, and a handler reports when it ends (terminate.go).
LEMMA ToldNext ==
  TypeOK /\ HandHeld /\ Told /\ [Next]_vars => Told'
<1> SUFFICES ASSUME TypeOK, HandHeld, Told, [Next]_vars
             PROVE  Told'
  OBVIOUS
<1> USE DEF serveVars, connVars
<1> USE DEF Aging, Exchange
<1>1. CASE Acquire
  BY <1>1 DEF TypeOK, Told, OneRequest, SaidAtEnd, Acquire
<1>2. CASE AcceptFails
  BY <1>2 DEF TypeOK, Told, OneRequest, SaidAtEnd, AcceptFails
<1>3. CASE Start
  BY <1>3 DEF TypeOK, HandHeld, Told, OneRequest, SaidAtEnd, Start, Put
<1>4. CASE CloseListener
  BY <1>4 DEF TypeOK, Told, OneRequest, SaidAtEnd, CloseListener
<1>5. CASE CloseReturns
  BY <1>5 DEF TypeOK, Told, OneRequest, SaidAtEnd, CloseReturns
<1>6. CASE Tick
  BY <1>6 DEF TypeOK, Told, OneRequest, SaidAtEnd, Tick
<1>7. ASSUME NEW c \in Conns, Accept(c)
      PROVE  Told'
  BY <1>7 DEF TypeOK, Told, OneRequest, SaidAtEnd, Accept
<1>8. ASSUME NEW c \in Conns, Leave(c)
      PROVE  Told'
  BY <1>8 DEF TypeOK, Told, OneRequest, SaidAtEnd, Leave, Put
<1>9. ASSUME NEW c \in Conns, ForeignPeer(c)
      PROVE  Told'
  BY <1>9 DEF TypeOK, Told, OneRequest, SaidAtEnd, ForeignPeer, Ends, Put
<1>10. ASSUME NEW c \in Conns, ReadHeader(c)
      PROVE  Told'
  BY <1>10 DEF TypeOK, Told, OneRequest, SaidAtEnd, ReadHeader, Waits, Put
<1>11. ASSUME NEW c \in Conns, NEW n \in 0..1, HeaderRefused(c, n)
      PROVE  Told'
  BY <1>11 DEF TypeOK, Told, OneRequest, SaidAtEnd, HeaderRefused, Ends, Put
<1>12. ASSUME NEW c \in Conns, NEW n \in 0..1, DialFails(c, n)
      PROVE  Told'
  BY <1>12 DEF TypeOK, Told, OneRequest, SaidAtEnd, DialFails, Ends, Put
<1>13. ASSUME NEW c \in Conns, NEW n \in 0..1, HandshakeFails(c, n)
      PROVE  Told'
  BY <1>13 DEF TypeOK, Told, OneRequest, SaidAtEnd, HandshakeFails, Ends, Put
<1>14. ASSUME NEW c \in Conns, StartCopies(c)
      PROVE  Told'
  BY <1>14 DEF TypeOK, Told, OneRequest, SaidAtEnd, StartCopies, Arm, Put
<1>15. ASSUME NEW c \in Conns, NEW d \in Dirs, Progress(c, d)
      PROVE  Told'
  BY <1>15 DEF TypeOK, Told, OneRequest, SaidAtEnd, Progress, Arm, Put
<1>16. ASSUME NEW c \in Conns, NEW d \in Dirs, CopyEnds(c, d)
      PROVE  Told'
  BY <1>16 DEF TypeOK, Told, OneRequest, SaidAtEnd, CopyEnds, Ends, Put
<1>17. ASSUME NEW c \in Conns, HandshakeDone(c)
      PROVE  Told'
  BY <1>17 DEF TypeOK, Told, OneRequest, SaidAtEnd, HandshakeDone, NextRequest, Ends, Waits, Put
<1>18. ASSUME NEW c \in Conns, GapEnds(c)
      PROVE  Told'
  BY <1>18 DEF TypeOK, Told, OneRequest, SaidAtEnd, GapEnds, Waits, Put
<1>19. ASSUME NEW c \in Conns, NEW n \in 1..2, RequestRefused(c, n)
      PROVE  Told'
  BY <1>19 DEF TypeOK, Told, OneRequest, SaidAtEnd, RequestRefused, Ends, Put
<1>20. ASSUME NEW c \in Conns, NEW same \in BOOLEAN, NEW covering \in SUBSET Range(Secrets),
             TakeRequest(c, same, covering)
      PROVE  Told'
  BY <1>20 DEF TypeOK, Told, OneRequest, SaidAtEnd, TakeRequest, Waits, Put
<1>21. ASSUME NEW c \in Conns, DialTunnel(c)
      PROVE  Told'
  BY <1>21 DEF TypeOK, Told, OneRequest, SaidAtEnd, DialTunnel, Waits, Put
<1>22. ASSUME NEW c \in Conns, Handshake(c)
      PROVE  Told'
  BY <1>22 DEF TypeOK, Told, OneRequest, SaidAtEnd, Handshake, Waits, Put
<1>23. ASSUME NEW c \in Conns, Forward(c)
      PROVE  Told'
  BY <1>23 DEF TypeOK, Told, OneRequest, SaidAtEnd, Forward, Waits, Put
<1>24. ASSUME NEW c \in Conns, SendHeader(c)
      PROVE  Told'
  BY <1>24 DEF TypeOK, Told, OneRequest, SaidAtEnd, SendHeader, OnOrigin, Waits, Put
<1>25. ASSUME NEW c \in Conns, TakeBody(c)
      PROVE  Told'
  BY <1>25 DEF TypeOK, Told, OneRequest, SaidAtEnd, TakeBody, OnOrigin, Waits, Put
<1>26. ASSUME NEW c \in Conns, GiveBody(c)
      PROVE  Told'
  BY <1>26 DEF TypeOK, Told, OneRequest, SaidAtEnd, GiveBody, OnOrigin, Waits, Put
<1>27. ASSUME NEW c \in Conns, RoundTripFails(c)
      PROVE  Told'
  BY <1>27 DEF TypeOK, Told, OneRequest, SaidAtEnd, RoundTripFails, LogsSecret, RequestOver, Ends, Put
<1>28. ASSUME NEW c \in Conns, NEW scrubbable \in BOOLEAN, Answered(c, scrubbable)
      PROVE  Told'
  BY <1>28 DEF TypeOK, Told, OneRequest, SaidAtEnd, Answered, LogsSecret, RequestOver, OnOrigin, Waits, Ends, Put
<1>29. ASSUME NEW c \in Conns, DrawBody(c)
      PROVE  Told'
  BY <1>29 DEF TypeOK, Told, OneRequest, SaidAtEnd, DrawBody, Waits, Put
<1>30. ASSUME NEW c \in Conns, HandBody(c)
      PROVE  Told'
  BY <1>30 DEF TypeOK, Told, OneRequest, SaidAtEnd, HandBody, OnOrigin, Waits, Put
<1>31. ASSUME NEW c \in Conns, NEW again \in BOOLEAN, AnswerEnds(c, again)
      PROVE  Told'
  BY <1>31 DEF TypeOK, Told, OneRequest, SaidAtEnd, AnswerEnds, NextRequest, Ends, Waits, Put
<1>32. ASSUME NEW c \in Conns, NEW a \in Strangers \cup {Guest}, Connect(c, a)
      PROVE  Told'
  BY <1>32 DEF TypeOK, Told, OneRequest, SaidAtEnd, Connect, Put
<1>33. CASE UNCHANGED vars
  BY <1>33 DEF TypeOK, Told, OneRequest, SaidAtEnd, vars
<1> QED
  BY <1>1, <1>2, <1>3, <1>4, <1>5, <1>6, <1>7, <1>8, <1>9, <1>10, <1>11,
     <1>12, <1>13, <1>14, <1>15, <1>16, <1>17, <1>18, <1>19, <1>20, <1>21, <1>22,
     <1>23, <1>24, <1>25, <1>26, <1>27, <1>28, <1>29, <1>30, <1>31, <1>32, <1>33
  DEF Next, Handler

\* The last part of EgressSafe: a connection that carried something is reported.
Reported ==
    \A c \in Conns : pc[c] = "ending" /\ carried[c] => reports[c] \in 1..2

\* Only the guest is served, and a credential goes only where its scope is (handle, pick).
LEMMA EntitledNext ==
  TypeOK /\ HandHeld /\ Told /\ OnlyEntitled /\ [Next]_vars => OnlyEntitled'
<1> SUFFICES ASSUME TypeOK, HandHeld, Told, OnlyEntitled, [Next]_vars
             PROVE  OnlyEntitled'
  OBVIOUS
<1> USE DEF serveVars, connVars
<1> USE EgressAssumption DEF Aging, Exchange
<1>f. ASSUME NEW c \in Conns, UNCHANGED <<from, leg, fits, attached>>,
             \A k \in Conns \ {c} : pc'[k] = pc[k],
             pc'[c] = "ending" \/ pc[c] \notin {"queued", "checking", "ending", "done"}
      PROVE  OnlyEntitled'
  BY <1>f DEF OnlyEntitled
<1>1. CASE Acquire
  BY <1>1 DEF TypeOK, Told, OneRequest, OnlyEntitled, Acquire
<1>2. CASE AcceptFails
  BY <1>2 DEF TypeOK, Told, OneRequest, OnlyEntitled, AcceptFails
<1>3. CASE Start
  BY <1>3 DEF TypeOK, HandHeld, Told, OneRequest, OnlyEntitled, Start, Put
<1>4. CASE CloseListener
  BY <1>4 DEF TypeOK, Told, OneRequest, OnlyEntitled, CloseListener
<1>5. CASE CloseReturns
  BY <1>5 DEF TypeOK, Told, OneRequest, OnlyEntitled, CloseReturns
<1>6. CASE Tick
  BY <1>6 DEF TypeOK, Told, OneRequest, OnlyEntitled, Tick
<1>7. ASSUME NEW c \in Conns, Accept(c)
      PROVE  OnlyEntitled'
  BY <1>7 DEF TypeOK, Told, OneRequest, OnlyEntitled, Accept
<1>8. ASSUME NEW c \in Conns, Leave(c)
      PROVE  OnlyEntitled'
  BY ZenonT(60), <1>8 DEF TypeOK, Told, OneRequest, OnlyEntitled, Leave, Put
<1>9. ASSUME NEW c \in Conns, ForeignPeer(c)
      PROVE  OnlyEntitled'
  BY SMTT(30), <1>f, <1>9 DEF TypeOK, ForeignPeer, Ends, Put
<1>10. ASSUME NEW c \in Conns, ReadHeader(c)
      PROVE  OnlyEntitled'
  BY <1>10 DEF TypeOK, Told, OneRequest, OnlyEntitled, ReadHeader, Waits, Put
<1>11. ASSUME NEW c \in Conns, NEW n \in 0..1, HeaderRefused(c, n)
      PROVE  OnlyEntitled'
  BY <1>11 DEF TypeOK, Told, OneRequest, OnlyEntitled, HeaderRefused, Ends, Put
<1>12. ASSUME NEW c \in Conns, NEW n \in 0..1, DialFails(c, n)
      PROVE  OnlyEntitled'
  BY SMTT(30), <1>12 DEF TypeOK, Told, OneRequest, OnlyEntitled, DialFails, Ends, Put
<1>13. ASSUME NEW c \in Conns, NEW n \in 0..1, HandshakeFails(c, n)
      PROVE  OnlyEntitled'
  BY <1>13 DEF TypeOK, Told, OneRequest, OnlyEntitled, HandshakeFails, Ends, Put
<1>14. ASSUME NEW c \in Conns, StartCopies(c)
      PROVE  OnlyEntitled'
  BY <1>14 DEF TypeOK, Told, OneRequest, OnlyEntitled, StartCopies, Arm, Put
<1>15. ASSUME NEW c \in Conns, NEW d \in Dirs, Progress(c, d)
      PROVE  OnlyEntitled'
  BY <1>15 DEF TypeOK, Told, OneRequest, OnlyEntitled, Progress, Arm, Put
<1>16. ASSUME NEW c \in Conns, NEW d \in Dirs, CopyEnds(c, d)
      PROVE  OnlyEntitled'
  BY ZenonT(60), <1>16 DEF TypeOK, Told, OneRequest, OnlyEntitled, CopyEnds, Ends, Put
<1>17. ASSUME NEW c \in Conns, HandshakeDone(c)
      PROVE  OnlyEntitled'
  BY <1>f, <1>17 DEF TypeOK, HandshakeDone, NextRequest, Ends, Waits, Put
<1>18. ASSUME NEW c \in Conns, GapEnds(c)
      PROVE  OnlyEntitled'
  BY <1>18 DEF TypeOK, Told, OneRequest, OnlyEntitled, GapEnds, Waits, Put
<1>19. ASSUME NEW c \in Conns, NEW n \in 1..2, RequestRefused(c, n)
      PROVE  OnlyEntitled'
  BY <1>f, <1>19 DEF TypeOK, RequestRefused, Ends, Put
<1>20. ASSUME NEW c \in Conns, NEW same \in BOOLEAN, NEW covering \in SUBSET Range(Secrets),
             TakeRequest(c, same, covering)
      PROVE  OnlyEntitled'
  <2>1. from' = from /\ leg' = leg /\ leg[c] = "terminated"
    BY <1>20 DEF TypeOK, Told, OneRequest, TakeRequest
  <2>2. \A k \in Conns : pc'[k] = IF k = c THEN "reaching" ELSE pc[k]
    BY <1>20 DEF TypeOK, TakeRequest, Waits, Put
  <2>3. PICK p : p = pick(same, covering)
    OBVIOUS
  <2>4. p # None => same /\ p \in covering
    BY <2>3, PickIs
  <2>5. \A k \in Conns : /\ attached'[k] = IF k = c THEN p ELSE attached[k]
                         /\ fits'[k] = IF k = c THEN IF same THEN covering ELSE {} ELSE fits[k]
    BY <1>20, <2>3 DEF TypeOK, TakeRequest, Put
  <2>6. from[c] \notin Strangers
    BY <1>20 DEF OnlyEntitled, TakeRequest
  <2> QED  BY <2>1, <2>2, <2>4, <2>5, <2>6 DEF OnlyEntitled
<1>21. ASSUME NEW c \in Conns, DialTunnel(c)
      PROVE  OnlyEntitled'
  BY ZenonT(60), <1>21 DEF TypeOK, Told, OneRequest, OnlyEntitled, DialTunnel, Waits, Put
<1>22. ASSUME NEW c \in Conns, Handshake(c)
      PROVE  OnlyEntitled'
  BY SMTT(30), <1>22 DEF TypeOK, Told, OneRequest, OnlyEntitled, Handshake, Waits, Put
<1>23. ASSUME NEW c \in Conns, Forward(c)
      PROVE  OnlyEntitled'
  BY <1>23 DEF TypeOK, Told, OneRequest, OnlyEntitled, Forward, Waits, Put
<1>24. ASSUME NEW c \in Conns, SendHeader(c)
      PROVE  OnlyEntitled'
  BY <1>f, <1>24 DEF TypeOK, SendHeader, OnOrigin, Waits, Put
<1>25. ASSUME NEW c \in Conns, TakeBody(c)
      PROVE  OnlyEntitled'
  BY <1>25 DEF TypeOK, Told, OneRequest, OnlyEntitled, TakeBody, OnOrigin, Waits, Put
<1>26. ASSUME NEW c \in Conns, GiveBody(c)
      PROVE  OnlyEntitled'
  BY <1>f, <1>26 DEF TypeOK, GiveBody, OnOrigin, Waits, Put
<1>27. ASSUME NEW c \in Conns, RoundTripFails(c)
      PROVE  OnlyEntitled'
  BY <1>27 DEF TypeOK, Told, OneRequest, OnlyEntitled, RoundTripFails, LogsSecret, RequestOver, Ends, Put
<1>28. ASSUME NEW c \in Conns, NEW scrubbable \in BOOLEAN, Answered(c, scrubbable)
      PROVE  OnlyEntitled'
  <2>1. \A k \in Conns : /\ attached'[k] = IF k = c THEN None ELSE attached[k]
                         /\ fits'[k] = IF k = c THEN {} ELSE fits[k]
                         /\ k # c => pc'[k] = pc[k]
    BY SMTT(30), <1>28 DEF TypeOK, Answered, RequestOver, Waits, Ends, Put
  <2>2. from' = from /\ leg' = leg /\ pc[c] = "answer"
    BY <1>28 DEF Answered
  <2> QED  BY <2>1, <2>2 DEF OnlyEntitled
<1>29. ASSUME NEW c \in Conns, DrawBody(c)
      PROVE  OnlyEntitled'
  BY <1>29 DEF TypeOK, Told, OneRequest, OnlyEntitled, DrawBody, Waits, Put
<1>30. ASSUME NEW c \in Conns, HandBody(c)
      PROVE  OnlyEntitled'
  BY <1>30 DEF TypeOK, Told, OneRequest, OnlyEntitled, HandBody, OnOrigin, Waits, Put
<1>31. ASSUME NEW c \in Conns, NEW again \in BOOLEAN, AnswerEnds(c, again)
      PROVE  OnlyEntitled'
  BY <1>f, <1>31 DEF TypeOK, AnswerEnds, NextRequest, Ends, Waits, Put
<1>32. ASSUME NEW c \in Conns, NEW a \in Strangers \cup {Guest}, Connect(c, a)
      PROVE  OnlyEntitled'
  BY <1>32 DEF TypeOK, Told, OneRequest, OnlyEntitled, Connect, Put
<1>33. CASE UNCHANGED vars
  BY <1>33 DEF TypeOK, Told, OneRequest, OnlyEntitled, vars
<1> QED
  BY <1>1, <1>2, <1>3, <1>4, <1>5, <1>6, <1>7, <1>8, <1>9, <1>10, <1>11,
     <1>12, <1>13, <1>14, <1>15, <1>16, <1>17, <1>18, <1>19, <1>20, <1>21, <1>22,
     <1>23, <1>24, <1>25, <1>26, <1>27, <1>28, <1>29, <1>30, <1>31, <1>32, <1>33
  DEF Next, Handler

\* A credential that left is told of once, whatever became of its request (OnSecret).
LEMMA AccountedNext ==
  TypeOK /\ HandHeld /\ Told /\ SecretsAccounted /\ [Next]_vars => SecretsAccounted'
<1> SUFFICES ASSUME TypeOK, HandHeld, Told, SecretsAccounted, [Next]_vars
             PROVE  SecretsAccounted'
  OBVIOUS
<1> USE DEF serveVars, connVars
<1> USE DEF Aging, Exchange
<1>1. CASE Acquire
  BY <1>1 DEF TypeOK, Told, OneRequest, SecretsAccounted, Acquire
<1>2. CASE AcceptFails
  BY <1>2 DEF TypeOK, Told, OneRequest, SecretsAccounted, AcceptFails
<1>3. CASE Start
  BY <1>3 DEF TypeOK, HandHeld, Told, OneRequest, SecretsAccounted, Start, Put
<1>4. CASE CloseListener
  BY <1>4 DEF TypeOK, Told, OneRequest, SecretsAccounted, CloseListener
<1>5. CASE CloseReturns
  BY <1>5 DEF TypeOK, Told, OneRequest, SecretsAccounted, CloseReturns
<1>6. CASE Tick
  BY <1>6 DEF TypeOK, Told, OneRequest, SecretsAccounted, Tick
<1>7. ASSUME NEW c \in Conns, Accept(c)
      PROVE  SecretsAccounted'
  BY <1>7 DEF TypeOK, Told, OneRequest, SecretsAccounted, Accept
<1>8. ASSUME NEW c \in Conns, Leave(c)
      PROVE  SecretsAccounted'
  BY <1>8 DEF TypeOK, Told, OneRequest, SecretsAccounted, Leave, Put
<1>9. ASSUME NEW c \in Conns, ForeignPeer(c)
      PROVE  SecretsAccounted'
  BY <1>9 DEF TypeOK, Told, OneRequest, SecretsAccounted, ForeignPeer, Ends, Put
<1>10. ASSUME NEW c \in Conns, ReadHeader(c)
      PROVE  SecretsAccounted'
  BY <1>10 DEF TypeOK, Told, OneRequest, SecretsAccounted, ReadHeader, Waits, Put
<1>11. ASSUME NEW c \in Conns, NEW n \in 0..1, HeaderRefused(c, n)
      PROVE  SecretsAccounted'
  BY <1>11 DEF TypeOK, Told, OneRequest, SecretsAccounted, HeaderRefused, Ends, Put
<1>12. ASSUME NEW c \in Conns, NEW n \in 0..1, DialFails(c, n)
      PROVE  SecretsAccounted'
  BY <1>12 DEF TypeOK, Told, OneRequest, SecretsAccounted, DialFails, Ends, Put
<1>13. ASSUME NEW c \in Conns, NEW n \in 0..1, HandshakeFails(c, n)
      PROVE  SecretsAccounted'
  BY <1>13 DEF TypeOK, Told, OneRequest, SecretsAccounted, HandshakeFails, Ends, Put
<1>14. ASSUME NEW c \in Conns, StartCopies(c)
      PROVE  SecretsAccounted'
  BY <1>14 DEF TypeOK, Told, OneRequest, SecretsAccounted, StartCopies, Arm, Put
<1>15. ASSUME NEW c \in Conns, NEW d \in Dirs, Progress(c, d)
      PROVE  SecretsAccounted'
  BY <1>15 DEF TypeOK, Told, OneRequest, SecretsAccounted, Progress, Arm, Put
<1>16. ASSUME NEW c \in Conns, NEW d \in Dirs, CopyEnds(c, d)
      PROVE  SecretsAccounted'
  BY <1>16 DEF TypeOK, Told, OneRequest, SecretsAccounted, CopyEnds, Ends, Put
<1>17. ASSUME NEW c \in Conns, HandshakeDone(c)
      PROVE  SecretsAccounted'
  BY <1>17 DEF TypeOK, Told, OneRequest, SecretsAccounted, HandshakeDone, NextRequest, Ends, Waits, Put
<1>18. ASSUME NEW c \in Conns, GapEnds(c)
      PROVE  SecretsAccounted'
  BY <1>18 DEF TypeOK, Told, OneRequest, SecretsAccounted, GapEnds, Waits, Put
<1>19. ASSUME NEW c \in Conns, NEW n \in 1..2, RequestRefused(c, n)
      PROVE  SecretsAccounted'
  BY <1>19 DEF TypeOK, Told, OneRequest, SecretsAccounted, RequestRefused, Ends, Put
<1>20. ASSUME NEW c \in Conns, NEW same \in BOOLEAN, NEW covering \in SUBSET Range(Secrets),
             TakeRequest(c, same, covering)
      PROVE  SecretsAccounted'
  BY <1>20 DEF TypeOK, Told, OneRequest, SecretsAccounted, TakeRequest, Waits, Put
<1>21. ASSUME NEW c \in Conns, DialTunnel(c)
      PROVE  SecretsAccounted'
  BY <1>21 DEF TypeOK, Told, OneRequest, SecretsAccounted, DialTunnel, Waits, Put
<1>22. ASSUME NEW c \in Conns, Handshake(c)
      PROVE  SecretsAccounted'
  BY <1>22 DEF TypeOK, Told, OneRequest, SecretsAccounted, Handshake, Waits, Put
<1>23. ASSUME NEW c \in Conns, Forward(c)
      PROVE  SecretsAccounted'
  BY <1>23 DEF TypeOK, Told, OneRequest, SecretsAccounted, Forward, Waits, Put
<1>24. ASSUME NEW c \in Conns, SendHeader(c)
      PROVE  SecretsAccounted'
  BY <1>24 DEF TypeOK, Told, OneRequest, SecretsAccounted, SendHeader, OnOrigin, Waits, Put
<1>25. ASSUME NEW c \in Conns, TakeBody(c)
      PROVE  SecretsAccounted'
  BY <1>25 DEF TypeOK, Told, OneRequest, SecretsAccounted, TakeBody, OnOrigin, Waits, Put
<1>26. ASSUME NEW c \in Conns, GiveBody(c)
      PROVE  SecretsAccounted'
  BY <1>26 DEF TypeOK, Told, OneRequest, SecretsAccounted, GiveBody, OnOrigin, Waits, Put
<1>27. ASSUME NEW c \in Conns, RoundTripFails(c)
      PROVE  SecretsAccounted'
  BY <1>27 DEF TypeOK, Told, OneRequest, SecretsAccounted, RoundTripFails, LogsSecret, RequestOver, Ends, Put
<1>28. ASSUME NEW c \in Conns, NEW scrubbable \in BOOLEAN, Answered(c, scrubbable)
      PROVE  SecretsAccounted'
  BY <1>28 DEF TypeOK, Told, OneRequest, SecretsAccounted, Answered, LogsSecret, RequestOver, OnOrigin, Waits, Ends, Put
<1>29. ASSUME NEW c \in Conns, DrawBody(c)
      PROVE  SecretsAccounted'
  BY <1>29 DEF TypeOK, Told, OneRequest, SecretsAccounted, DrawBody, Waits, Put
<1>30. ASSUME NEW c \in Conns, HandBody(c)
      PROVE  SecretsAccounted'
  BY <1>30 DEF TypeOK, Told, OneRequest, SecretsAccounted, HandBody, OnOrigin, Waits, Put
<1>31. ASSUME NEW c \in Conns, NEW again \in BOOLEAN, AnswerEnds(c, again)
      PROVE  SecretsAccounted'
  BY <1>31 DEF TypeOK, Told, OneRequest, SecretsAccounted, AnswerEnds, NextRequest, Ends, Waits, Put
<1>32. ASSUME NEW c \in Conns, NEW a \in Strangers \cup {Guest}, Connect(c, a)
      PROVE  SecretsAccounted'
  BY <1>32 DEF TypeOK, Told, OneRequest, SecretsAccounted, Connect, Put
<1>33. CASE UNCHANGED vars
  BY <1>33 DEF TypeOK, Told, OneRequest, SecretsAccounted, vars
<1> QED
  BY <1>1, <1>2, <1>3, <1>4, <1>5, <1>6, <1>7, <1>8, <1>9, <1>10, <1>11,
     <1>12, <1>13, <1>14, <1>15, <1>16, <1>17, <1>18, <1>19, <1>20, <1>21, <1>22,
     <1>23, <1>24, <1>25, <1>26, <1>27, <1>28, <1>29, <1>30, <1>31, <1>32, <1>33
  DEF Next, Handler

\* A handler whose connection carried something reports on its way out.
LEMMA ReportedNext ==
  TypeOK /\ HandHeld /\ Told /\ Reported /\ [Next]_vars => Reported'
<1> SUFFICES ASSUME TypeOK, HandHeld, Told, Reported, [Next]_vars
             PROVE  Reported'
  OBVIOUS
<1> USE DEF serveVars, connVars
<1> USE DEF Aging, Exchange
<1>1. CASE Acquire
  BY <1>1 DEF TypeOK, Told, SaidAtEnd, Reported, Acquire
<1>2. CASE AcceptFails
  BY <1>2 DEF TypeOK, Told, SaidAtEnd, Reported, AcceptFails
<1>3. CASE Start
  BY <1>3 DEF TypeOK, HandHeld, Told, SaidAtEnd, Reported, Start, Put
<1>4. CASE CloseListener
  BY <1>4 DEF TypeOK, Told, SaidAtEnd, Reported, CloseListener
<1>5. CASE CloseReturns
  BY <1>5 DEF TypeOK, Told, SaidAtEnd, Reported, CloseReturns
<1>6. CASE Tick
  BY <1>6 DEF TypeOK, Told, SaidAtEnd, Reported, Tick
<1>7. ASSUME NEW c \in Conns, Accept(c)
      PROVE  Reported'
  BY <1>7 DEF TypeOK, Told, SaidAtEnd, Reported, Accept
<1>8. ASSUME NEW c \in Conns, Leave(c)
      PROVE  Reported'
  BY <1>8 DEF TypeOK, Told, SaidAtEnd, Reported, Leave, Put
<1>9. ASSUME NEW c \in Conns, ForeignPeer(c)
      PROVE  Reported'
  BY <1>9 DEF TypeOK, Told, SaidAtEnd, Reported, ForeignPeer, Ends, Put
<1>10. ASSUME NEW c \in Conns, ReadHeader(c)
      PROVE  Reported'
  BY <1>10 DEF TypeOK, Told, SaidAtEnd, Reported, ReadHeader, Waits, Put
<1>11. ASSUME NEW c \in Conns, NEW n \in 0..1, HeaderRefused(c, n)
      PROVE  Reported'
  BY <1>11 DEF TypeOK, Told, SaidAtEnd, Reported, HeaderRefused, Ends, Put
<1>12. ASSUME NEW c \in Conns, NEW n \in 0..1, DialFails(c, n)
      PROVE  Reported'
  BY <1>12 DEF TypeOK, Told, SaidAtEnd, Reported, DialFails, Ends, Put
<1>13. ASSUME NEW c \in Conns, NEW n \in 0..1, HandshakeFails(c, n)
      PROVE  Reported'
  BY <1>13 DEF TypeOK, Told, SaidAtEnd, Reported, HandshakeFails, Ends, Put
<1>14. ASSUME NEW c \in Conns, StartCopies(c)
      PROVE  Reported'
  BY <1>14 DEF TypeOK, Told, SaidAtEnd, Reported, StartCopies, Arm, Put
<1>15. ASSUME NEW c \in Conns, NEW d \in Dirs, Progress(c, d)
      PROVE  Reported'
  BY <1>15 DEF TypeOK, Told, SaidAtEnd, Reported, Progress, Arm, Put
<1>16. ASSUME NEW c \in Conns, NEW d \in Dirs, CopyEnds(c, d)
      PROVE  Reported'
  <2>1. CASE Ends(c, 1)
    BY <1>16, <2>1 DEF TypeOK, Told, SaidAtEnd, Reported, CopyEnds, Ends, Put
  <2>2. CASE UNCHANGED <<pc, left, reports>>
    BY <1>16, <2>2 DEF Reported, CopyEnds
  <2> QED  BY <1>16, <2>1, <2>2 DEF CopyEnds
<1>17. ASSUME NEW c \in Conns, HandshakeDone(c)
      PROVE  Reported'
  BY <1>17 DEF TypeOK, Told, SaidAtEnd, Reported, HandshakeDone, NextRequest, Ends, Waits, Put
<1>18. ASSUME NEW c \in Conns, GapEnds(c)
      PROVE  Reported'
  BY <1>18 DEF TypeOK, Told, SaidAtEnd, Reported, GapEnds, Waits, Put
<1>19. ASSUME NEW c \in Conns, NEW n \in 1..2, RequestRefused(c, n)
      PROVE  Reported'
  BY <1>19 DEF TypeOK, Told, SaidAtEnd, Reported, RequestRefused, Ends, Put
<1>20. ASSUME NEW c \in Conns, NEW same \in BOOLEAN, NEW covering \in SUBSET Range(Secrets),
             TakeRequest(c, same, covering)
      PROVE  Reported'
  BY <1>20 DEF TypeOK, Told, SaidAtEnd, Reported, TakeRequest, Waits, Put
<1>21. ASSUME NEW c \in Conns, DialTunnel(c)
      PROVE  Reported'
  BY <1>21 DEF TypeOK, Told, SaidAtEnd, Reported, DialTunnel, Waits, Put
<1>22. ASSUME NEW c \in Conns, Handshake(c)
      PROVE  Reported'
  BY <1>22 DEF TypeOK, Told, SaidAtEnd, Reported, Handshake, Waits, Put
<1>23. ASSUME NEW c \in Conns, Forward(c)
      PROVE  Reported'
  BY <1>23 DEF TypeOK, Told, SaidAtEnd, Reported, Forward, Waits, Put
<1>24. ASSUME NEW c \in Conns, SendHeader(c)
      PROVE  Reported'
  BY <1>24 DEF TypeOK, Told, SaidAtEnd, Reported, SendHeader, OnOrigin, Waits, Put
<1>25. ASSUME NEW c \in Conns, TakeBody(c)
      PROVE  Reported'
  BY <1>25 DEF TypeOK, Told, SaidAtEnd, Reported, TakeBody, OnOrigin, Waits, Put
<1>26. ASSUME NEW c \in Conns, GiveBody(c)
      PROVE  Reported'
  BY <1>26 DEF TypeOK, Told, SaidAtEnd, Reported, GiveBody, OnOrigin, Waits, Put
<1>27. ASSUME NEW c \in Conns, RoundTripFails(c)
      PROVE  Reported'
  BY <1>27 DEF TypeOK, Told, SaidAtEnd, Reported, RoundTripFails, LogsSecret, RequestOver, Ends, Put
<1>28. ASSUME NEW c \in Conns, NEW scrubbable \in BOOLEAN, Answered(c, scrubbable)
      PROVE  Reported'
  BY <1>28 DEF TypeOK, Told, SaidAtEnd, Reported, Answered, LogsSecret, RequestOver, OnOrigin, Waits, Ends, Put
<1>29. ASSUME NEW c \in Conns, DrawBody(c)
      PROVE  Reported'
  BY <1>29 DEF TypeOK, Told, SaidAtEnd, Reported, DrawBody, Waits, Put
<1>30. ASSUME NEW c \in Conns, HandBody(c)
      PROVE  Reported'
  BY <1>30 DEF TypeOK, Told, SaidAtEnd, Reported, HandBody, OnOrigin, Waits, Put
<1>31. ASSUME NEW c \in Conns, NEW again \in BOOLEAN, AnswerEnds(c, again)
      PROVE  Reported'
  BY <1>31 DEF TypeOK, Told, SaidAtEnd, Reported, AnswerEnds, NextRequest, Ends, Waits, Put
<1>32. ASSUME NEW c \in Conns, NEW a \in Strangers \cup {Guest}, Connect(c, a)
      PROVE  Reported'
  BY <1>32 DEF TypeOK, Told, SaidAtEnd, Reported, Connect, Put
<1>33. CASE UNCHANGED vars
  BY <1>33 DEF TypeOK, Told, SaidAtEnd, Reported, vars
<1> QED
  BY <1>1, <1>2, <1>3, <1>4, <1>5, <1>6, <1>7, <1>8, <1>9, <1>10, <1>11,
     <1>12, <1>13, <1>14, <1>15, <1>16, <1>17, <1>18, <1>19, <1>20, <1>21, <1>22,
     <1>23, <1>24, <1>25, <1>26, <1>27, <1>28, <1>29, <1>30, <1>31, <1>32, <1>33
  DEF Next, Handler

\* The states the proxy starts in.
LEMMA EgressInit ==
  Init => /\ TypeOK /\ HandHeld /\ Told /\ OnlyEntitled /\ SecretsAccounted /\ Reported
          /\ SlotsExact /\ Clocked /\ Timely
<1> SUFFICES ASSUME Init
             PROVE  /\ TypeOK /\ HandHeld /\ Told /\ OnlyEntitled /\ SecretsAccounted
                    /\ Reported /\ SlotsExact /\ Clocked /\ Timely
  OBVIOUS
<1> USE EgressAssumption, LimitsAre DEF Init, Exchange
<1>1. Served = {}
  BY DEF Served
<1>2. TypeOK
  <2>1. NoCopy \in [Dirs -> Nat \cup {Never}]
    BY DEF NoCopy
  <2>2. WaitTyped
    BY <2>1 DEF WaitTyped
  <2>3. RestTyped
    <3>1. /\ accept \in {"acquire", "accept", "start", "ended"}
          /\ closing \in {"open", "waiting", "closed"} /\ wronged \in BOOLEAN
      OBVIOUS
    <3>2. /\ from \in [Conns -> Strangers \cup {Guest, None}]
          /\ leg \in [Conns -> {"none", "tunnel", "terminated", "plain"}]
          /\ attached \in [Conns -> Range(Secrets) \cup {None}]
      OBVIOUS
    <3>3. fits \in [Conns -> SUBSET Range(Secrets)]
      OBVIOUS
    <3>4. /\ quiet \in [Conns -> Nat] /\ age \in [Conns -> Nat]
          /\ idle \in [Conns -> Nat] /\ reqs \in [Conns -> Nat] /\ unsaid \in [Conns -> Int]
      OBVIOUS
    <3>5. /\ gone \in [Conns -> BOOLEAN] /\ carried \in [Conns -> BOOLEAN]
          /\ muted \in [Conns -> BOOLEAN]
      OBVIOUS
    <3> QED  BY <3>1, <3>2, <3>3, <3>4, <3>5 DEF RestTyped
  <2> QED  BY <2>2, <2>3, TypeParts
<1>3. HandHeld
  BY <1>1, FS_EmptySet DEF HandHeld
<1>4. Told /\ OnlyEntitled /\ SecretsAccounted /\ Reported
  BY DEF Told, OneRequest, SaidAtEnd, OnlyEntitled, SecretsAccounted, Reported
<1>5. SlotsExact
  BY <1>1, FS_EmptySet DEF SlotsExact
<1>6. Clocked
  BY DEF Clocked, InTime, CopiesInTime, CopyInTime, NoCopy, Never
<1>7. Timely
  BY DEF Timely
<1> QED  BY <1>2, <1>3, <1>4, <1>5, <1>6, <1>7

\* A slot and a place in the group are taken and given back together (Serve).
LEMMA SlotsNext ==
  TypeOK /\ HandHeld /\ SlotsExact /\ [Next]_vars => (HandHeld /\ SlotsExact)'
<1> SUFFICES ASSUME TypeOK, HandHeld, SlotsExact, [Next]_vars
             PROVE  (HandHeld /\ SlotsExact)'
  OBVIOUS
<1> USE DEF serveVars, connVars
<1>a. Cardinality(Served) \in Nat /\ IsFiniteSet(Served) /\ Slots \in Nat
  BY FS_CardinalityType, LimitsAre DEF HandHeld
<1>f. ASSUME NEW c \in Conns, UNCHANGED <<accept, hand, sem, wg>>,
             \A k \in Conns \ {c} : pc'[k] = pc[k],
             pc[c] \notin {"outside", "queued", "done"},
             pc'[c] \notin {"outside", "queued", "done"}
      PROVE  (HandHeld /\ SlotsExact)'
  <2>1. Served' = Served
    BY <1>f DEF Served
  <2> QED  BY <1>f, <2>1 DEF HandHeld, SlotsExact
<1> USE DEF Aging
<1>1. CASE Acquire
  <2>1. Served' = Served
    BY <1>1 DEF Served, Acquire
  <2> QED  BY <1>1, <1>a, <2>1 DEF HandHeld, SlotsExact, Acquire
<1>2. CASE AcceptFails
  <2>1. Served' = Served
    BY <1>2 DEF Served, AcceptFails
  <2> QED  BY <1>2, <1>a, <2>1 DEF HandHeld, SlotsExact, AcceptFails
<1>3. CASE Start
  <2>1. hand \in Conns /\ pc[hand] = "queued"
    BY <1>3 DEF HandHeld, Start
  <2>2. Served' = Served \cup {hand} /\ hand \notin Served
    BY <1>3, <2>1 DEF TypeOK, Served, Start, Put
  <2>3. Cardinality(Served') = Cardinality(Served) + 1 /\ IsFiniteSet(Served')
    BY <2>2, <1>a, FS_AddElement
  <2> QED  BY <1>3, <1>a, <2>3 DEF HandHeld, SlotsExact, Start
<1>4. CASE CloseListener
  <2>1. Served' = Served
    BY <1>4 DEF TypeOK, Served, CloseListener
  <2>2. accept = "start" => pc'[hand] = "queued"
    BY <1>4 DEF HandHeld, CloseListener
  <2> QED  BY <1>4, <1>a, <2>1, <2>2 DEF HandHeld, SlotsExact, CloseListener
<1>5. CASE CloseReturns
  <2>1. Served' = Served
    BY <1>5 DEF Served, CloseReturns
  <2> QED  BY <1>5, <1>a, <2>1 DEF HandHeld, SlotsExact, CloseReturns
<1>6. CASE Tick
  <2>1. Served' = Served
    BY <1>6 DEF Served, Tick
  <2> QED  BY <1>6, <1>a, <2>1 DEF HandHeld, SlotsExact, Tick
<1>7. ASSUME NEW c \in Conns, Accept(c)
      PROVE  (HandHeld /\ SlotsExact)'
  <2>1. Served' = Served
    BY <1>7 DEF Served, Accept
  <2> QED  BY <1>7, <1>a, <2>1 DEF HandHeld, SlotsExact, Accept
<1>8. ASSUME NEW c \in Conns, Leave(c)
      PROVE  (HandHeld /\ SlotsExact)'
  <2>1. Served' = Served \ {c} /\ c \in Served
    BY <1>8 DEF TypeOK, Served, Leave, Put
  <2>2. Cardinality(Served') = Cardinality(Served) - 1 /\ IsFiniteSet(Served')
    BY <2>1, <1>a, FS_RemoveElement
  <2>3. accept = "start" => pc'[hand] = "queued"
    BY <1>8 DEF TypeOK, HandHeld, Leave, Put
  <2> QED  BY <1>8, <1>a, <2>2, <2>3 DEF HandHeld, SlotsExact, Leave
<1>9. ASSUME NEW c \in Conns, ForeignPeer(c)
      PROVE  (HandHeld /\ SlotsExact)'
  BY <1>f, <1>9 DEF TypeOK, ForeignPeer, Ends, Put
<1>10. ASSUME NEW c \in Conns, ReadHeader(c)
      PROVE  (HandHeld /\ SlotsExact)'
  BY <1>f, <1>10 DEF TypeOK, ReadHeader, Waits, Put
<1>11. ASSUME NEW c \in Conns, NEW n \in 0..1, HeaderRefused(c, n)
      PROVE  (HandHeld /\ SlotsExact)'
  BY <1>f, <1>11 DEF TypeOK, HeaderRefused, Ends, Put
<1>12. ASSUME NEW c \in Conns, NEW n \in 0..1, DialFails(c, n)
      PROVE  (HandHeld /\ SlotsExact)'
  BY <1>f, <1>12 DEF TypeOK, DialFails, Ends, Put
<1>13. ASSUME NEW c \in Conns, NEW n \in 0..1, HandshakeFails(c, n)
      PROVE  (HandHeld /\ SlotsExact)'
  BY <1>f, <1>13 DEF TypeOK, HandshakeFails, Ends, Put
<1>14. ASSUME NEW c \in Conns, StartCopies(c)
      PROVE  (HandHeld /\ SlotsExact)'
  BY <1>f, <1>14 DEF TypeOK, StartCopies, Arm, Put
<1>15. ASSUME NEW c \in Conns, NEW d \in Dirs, Progress(c, d)
      PROVE  (HandHeld /\ SlotsExact)'
  BY <1>f, <1>15 DEF TypeOK, Progress, Arm, Put
<1>16. ASSUME NEW c \in Conns, NEW d \in Dirs, CopyEnds(c, d)
      PROVE  (HandHeld /\ SlotsExact)'
  <2>1. CASE Ends(c, 1)
    BY <1>f, <1>16, <2>1 DEF TypeOK, CopyEnds, Ends, Put
  <2>2. CASE UNCHANGED <<pc, left, reports>>
    BY <1>f, <1>16, <2>2 DEF CopyEnds
  <2> QED  BY <1>16, <2>1, <2>2 DEF CopyEnds
<1>17. ASSUME NEW c \in Conns, HandshakeDone(c)
      PROVE  (HandHeld /\ SlotsExact)'
  BY <1>f, <1>17 DEF TypeOK, HandshakeDone, NextRequest, Ends, Waits, Put
<1>18. ASSUME NEW c \in Conns, GapEnds(c)
      PROVE  (HandHeld /\ SlotsExact)'
  BY <1>f, <1>18 DEF TypeOK, GapEnds, Waits, Put
<1>19. ASSUME NEW c \in Conns, NEW n \in 1..2, RequestRefused(c, n)
      PROVE  (HandHeld /\ SlotsExact)'
  BY <1>f, <1>19 DEF TypeOK, RequestRefused, Ends, Put
<1>20. ASSUME NEW c \in Conns, NEW same \in BOOLEAN, NEW covering \in SUBSET Range(Secrets),
             TakeRequest(c, same, covering)
      PROVE  (HandHeld /\ SlotsExact)'
  BY <1>f, <1>20 DEF TypeOK, TakeRequest, Waits, Put
<1>21. ASSUME NEW c \in Conns, DialTunnel(c)
      PROVE  (HandHeld /\ SlotsExact)'
  BY <1>f, <1>21 DEF TypeOK, DialTunnel, Waits, Put
<1>22. ASSUME NEW c \in Conns, Handshake(c)
      PROVE  (HandHeld /\ SlotsExact)'
  BY <1>f, <1>22 DEF TypeOK, Handshake, Waits, Put
<1>23. ASSUME NEW c \in Conns, Forward(c)
      PROVE  (HandHeld /\ SlotsExact)'
  BY <1>f, <1>23 DEF TypeOK, Forward, Waits, Put
<1>24. ASSUME NEW c \in Conns, SendHeader(c)
      PROVE  (HandHeld /\ SlotsExact)'
  BY <1>f, <1>24 DEF TypeOK, SendHeader, OnOrigin, Waits, Put
<1>25. ASSUME NEW c \in Conns, TakeBody(c)
      PROVE  (HandHeld /\ SlotsExact)'
  BY <1>f, <1>25 DEF TypeOK, TakeBody, OnOrigin, Waits, Put
<1>26. ASSUME NEW c \in Conns, GiveBody(c)
      PROVE  (HandHeld /\ SlotsExact)'
  BY <1>f, <1>26 DEF TypeOK, GiveBody, OnOrigin, Waits, Put
<1>27. ASSUME NEW c \in Conns, RoundTripFails(c)
      PROVE  (HandHeld /\ SlotsExact)'
  BY <1>f, <1>27 DEF TypeOK, RoundTripFails, LogsSecret, RequestOver, Ends, Put
<1>28. ASSUME NEW c \in Conns, NEW scrubbable \in BOOLEAN, Answered(c, scrubbable)
      PROVE  (HandHeld /\ SlotsExact)'
  BY <1>f, <1>28 DEF TypeOK, Answered, LogsSecret, RequestOver, OnOrigin, Waits, Ends, Put
<1>29. ASSUME NEW c \in Conns, DrawBody(c)
      PROVE  (HandHeld /\ SlotsExact)'
  BY <1>f, <1>29 DEF TypeOK, DrawBody, Waits, Put
<1>30. ASSUME NEW c \in Conns, HandBody(c)
      PROVE  (HandHeld /\ SlotsExact)'
  BY <1>f, <1>30 DEF TypeOK, HandBody, OnOrigin, Waits, Put
<1>31. ASSUME NEW c \in Conns, NEW again \in BOOLEAN, AnswerEnds(c, again)
      PROVE  (HandHeld /\ SlotsExact)'
  BY <1>f, <1>31 DEF TypeOK, AnswerEnds, NextRequest, Ends, Waits, Put
<1>32. ASSUME NEW c \in Conns, NEW a \in Strangers \cup {Guest}, Connect(c, a)
      PROVE  (HandHeld /\ SlotsExact)'
  <2>1. Served' = Served
    BY <1>32 DEF TypeOK, Served, Connect, Put
  <2>2. accept = "start" => pc'[hand] = "queued"
    BY <1>32 DEF TypeOK, HandHeld, Connect, Put
  <2> QED  BY <1>32, <1>a, <2>1, <2>2 DEF HandHeld, SlotsExact, Connect
<1>33. CASE UNCHANGED vars
  <2>1. Served' = Served
    BY <1>33 DEF Served, vars
  <2> QED  BY <1>33, <1>a, <2>1 DEF HandHeld, SlotsExact, vars
<1> QED
  BY <1>1, <1>2, <1>3, <1>4, <1>5, <1>6, <1>7, <1>8, <1>9, <1>10, <1>11,
     <1>12, <1>13, <1>14, <1>15, <1>16, <1>17, <1>18, <1>19, <1>20, <1>21, <1>22,
     <1>23, <1>24, <1>25, <1>26, <1>27, <1>28, <1>29, <1>30, <1>31, <1>32, <1>33
  DEF Next, Handler

\* A connection no step touches keeps its deadlines, and one whose handler ends has none.
LEMMA ClockStays ==
  ASSUME Clocked, NEW k \in Conns,
         pc'[k] = pc[k], leg'[k] = leg[k], left'[k] = left[k], copies'[k] = copies[k],
         quiet'[k] = quiet[k], age'[k] = age[k], muted'[k] = muted[k]
  PROVE  InTime(k)' /\ CopiesInTime(k)'
BY DEF Clocked, InTime, By, CopiesInTime, CopyInTime

\* Every wait the code bounds ends by its bound, a tick at a time (the clocks of
\* proxy.go and terminate.go).
LEMMA ClockedNext ==
  TypeOK /\ HandHeld /\ Told /\ Clocked /\ [Next]_vars => Clocked'
<1> SUFFICES ASSUME TypeOK, HandHeld, Told, Clocked, [Next]_vars
             PROVE  Clocked'
  OBVIOUS
<1> USE DEF serveVars, connVars
<1> USE LimitsAre DEF Never
<1>na. \A k \in Conns, t \in Nat :
         /\ NotAfter(k, t) \in Nat /\ NotAfter(k, t) <= t
         /\ NotAfter(k, t) = 0 \/ age[k] + NotAfter(k, t) <= Ceiling
         /\ NotAfter(k, t) = t \/ age[k] + NotAfter(k, t) >= Ceiling
  BY NotAfterIs
<1>ty. \A k \in Conns : /\ left[k] \in Nat \cup {Never} /\ age[k] \in Nat /\ quiet[k] \in Nat
                        /\ copies[k] \in [Dirs -> Nat \cup {Never}]
                        /\ muted[k] \in BOOLEAN
  BY DEF TypeOK
<1>f. ASSUME NEW c \in Conns,
             \A k \in Conns \ {c} :
                 /\ pc'[k] = pc[k] /\ leg'[k] = leg[k] /\ left'[k] = left[k]
                 /\ copies'[k] = copies[k] /\ quiet'[k] = quiet[k] /\ age'[k] = age[k]
                 /\ muted'[k] = muted[k],
             InTime(c)', CopiesInTime(c)'
      PROVE  Clocked'
  <2>1. \A k \in Conns \ {c} : InTime(k)' /\ CopiesInTime(k)'
    BY <1>f, ClockStays
  <2> QED  BY <1>f, <2>1 DEF Clocked
<1>e. ASSUME NEW c \in Conns, NEW n, Ends(c, n), UNCHANGED <<leg, quiet, age, muted>>
      PROVE  Clocked'
  <2>1. pc'[c] = "ending" /\ copies'[c] = NoCopy
    BY <1>e DEF TypeOK, Ends, Put
  <2>2. InTime(c)'
    BY <1>e, <2>1 DEF Clocked, InTime
  <2>3. CopiesInTime(c)'
    BY <2>1 DEF CopiesInTime, CopyInTime, NoCopy
  <2> QED  BY <1>e, <1>f, <2>2, <2>3 DEF TypeOK, Ends, Put
<1>w. ASSUME NEW c \in Conns, NEW p, NEW t, NEW l, Waits(c, p, t),
             UNCHANGED <<quiet, age, muted>>, leg' = leg \/ leg' = Put(leg, c, l),
             pc[c] \notin {"copying", "ending"}, p \notin {"copying", "ending"},
             InTime(c)'
      PROVE  Clocked'
  <2>1. pc'[c] = p /\ UNCHANGED <<copies, quiet, age>>
    BY <1>w DEF TypeOK, Waits, Put
  <2>2. CopiesInTime(c)'
    BY <1>w, <2>1 DEF Clocked, CopiesInTime, CopyInTime, NoCopy
  <2> QED  BY <1>w, <1>f, <2>2 DEF TypeOK, Waits, Put
<1>n. ASSUME NEW c \in Conns, NextRequest(c), UNCHANGED <<leg, quiet, age, muted>>,
             leg[c] = "terminated", pc[c] \notin {"copying", "ending"}
      PROVE  Clocked'
  <2>1. CASE Ends(c, 1)
    BY <1>n, <2>1, <1>e
  <2>2. CASE GapBound(c) > 0 /\ Waits(c, "gap", NotAfter(c, GapBound(c)))
    <3>1. PICK g \in Nat : g = GapBound(c)
      BY <2>2, GapIs
    <3>2. /\ pc'[c] = "gap" /\ left'[c] = NotAfter(c, g) /\ age'[c] = age[c]
          /\ muted'[c] = muted[c] /\ leg'[c] = leg[c]
      BY <1>n, <2>2, <3>1 DEF TypeOK, Waits, Put
    <3>3. InTime(c)'
      BY <1>n, <3>2, <1>na, <1>ty DEF Clocked, InTime, By
    <3> QED  BY <1>n, <2>2, <3>3, <1>w
  <2> QED  BY <1>n, <2>1, <2>2, GapIs DEF NextRequest
<1>1. CASE Acquire
  BY <1>1, ClockStays DEF Clocked, Acquire
<1>2. CASE AcceptFails
  BY <1>2, ClockStays DEF Clocked, AcceptFails
<1>3. CASE Start
  <2>1. PICK c \in Conns : c = hand /\ pc[c] = "queued"
    BY <1>3 DEF HandHeld, Start
  <2>a. /\ pc'[c] = "checking"
        /\ UNCHANGED <<leg, left, copies, quiet, age, muted>>
    BY <1>3, <2>1 DEF TypeOK, Start, Put
  <2>b. InTime(c)'
    BY <2>1, <2>a DEF Clocked, InTime
  <2>c. CopiesInTime(c)'
    BY <2>1, <2>a DEF Clocked, CopiesInTime, CopyInTime, NoCopy
  <2>2. InTime(c)' /\ CopiesInTime(c)'
    BY <2>b, <2>c
  <2> QED  BY <1>3, <2>1, <2>2, <1>f DEF TypeOK, Start, Put
<1>4. CASE CloseListener
  <2> SUFFICES ASSUME NEW k \in Conns
               PROVE  InTime(k)' /\ CopiesInTime(k)'
    BY DEF Clocked
  <2>1. CASE pc'[k] = pc[k]
    BY <1>4, <2>1, ClockStays DEF CloseListener
  <2>2. CASE pc[k] = "queued" /\ pc'[k] = "done"
    BY <1>4, <2>2 DEF Clocked, InTime, CopiesInTime, CopyInTime, NoCopy, CloseListener
  <2> QED  BY <1>4, <2>1, <2>2 DEF CloseListener
<1>5. CASE CloseReturns
  BY <1>5, ClockStays DEF Clocked, CloseReturns
<1>6. CASE Tick
  <2> SUFFICES ASSUME NEW k \in Conns
               PROVE  InTime(k)' /\ CopiesInTime(k)'
    BY DEF Clocked
  <2>1. /\ left[k] # 0 /\ \A d \in Dirs : copies[k][d] # 0
        /\ UNCHANGED <<pc, leg>>
        /\ left'[k] = IF left[k] = Never THEN Never ELSE left[k] - 1
        /\ \A d \in Dirs : copies'[k][d] = IF copies[k][d] = Never THEN Never
                                           ELSE copies[k][d] - 1
        /\ copies'[k] = [d \in Dirs |-> copies'[k][d]]
        /\ muted'[k] = (muted[k] \/ (Unbounded(k) /\ age[k] >= Ceiling))
    BY <1>6, <1>ty DEF Tick, Less
  <2>2. age'[k] = IF pc[k] \in Aging /\ age[k] < AgeMax THEN age[k] + 1
                  ELSE IF pc[k] \in Aging THEN AgeMax ELSE age[k]
    <3>1. PICK n \in Nat : n = age[k] + 1
      BY <1>ty
    <3>2. PICK l \in Nat : l = AgeMax
      BY <1>ty
    <3>3. Min({n, l}) = IF n <= l THEN n ELSE l
      BY OfTwo
    <3>4. age'[k] = IF pc[k] \in Aging THEN Min({n, l}) ELSE age[k]
      BY <1>6, <3>1, <3>2 DEF Tick
    <3> QED  BY <1>ty, <3>1, <3>2, <3>3, <3>4
  <2>3. quiet'[k] = IF pc[k] = "copying" THEN IF quiet[k] + 1 <= Ceiling THEN quiet[k] + 1 ELSE Ceiling
                    ELSE quiet[k]
    <3>1. PICK n \in Nat : n = quiet[k] + 1
      BY <1>ty
    <3> QED  BY <1>6, <1>ty, <3>1, OfTwo DEF Tick
  <2>4. InTime(k) /\ CopiesInTime(k)
    BY DEF Clocked
  <2>5. CASE pc[k] = "copying"
    <3>1. PICK d \in Dirs : copies[k][d] \in Nat /\ copies[k][d] > 0
      BY <2>1, <2>4, <2>5, <1>ty DEF CopiesInTime
    <3>2. age[k] + copies[k][d] <= Ceiling
      BY <2>4, <2>5, <3>1, <2>1 DEF CopiesInTime, CopyInTime, By
    <3>3. age[k] + 1 <= Ceiling /\ age'[k] = age[k] + 1 /\ quiet[k] + 1 <= Ceiling
          /\ quiet'[k] = quiet[k] + 1
      BY <3>1, <3>2, <2>2, <2>3, <2>4, <2>5, <1>ty DEF CopiesInTime, Aging
    <3>4. InTime(k)'
      BY <2>1, <3>3, <2>5, <1>ty DEF InTime
    <3>5. ASSUME NEW e \in Dirs
          PROVE  CopyInTime(k, e)'
      BY <2>1, <2>4, <2>5, <3>3, <1>ty DEF CopiesInTime, CopyInTime, By
    <3>6. copies'[k][d] # Never
      BY <3>1, <2>1
    <3> QED  BY <2>1, <2>4, <2>5, <3>3, <3>4, <3>5, <3>6, <1>ty DEF CopiesInTime
  <2>6. CASE pc[k] # "copying"
    <3>1. CopiesInTime(k)'
      <4>1. copies[k] = NoCopy /\ copies'[k] = NoCopy
        BY <2>1, <2>4, <2>6 DEF CopiesInTime, NoCopy
      <4> QED  BY <4>1, <2>1, <2>3, <2>4, <2>6 DEF CopiesInTime, CopyInTime, NoCopy
    <3>2. InTime(k)'
      <4>1. CASE pc[k] \notin Aging
        BY <2>1, <2>2, <2>4, <4>1, <1>ty DEF InTime, Aging
      <4>2. CASE pc[k] \in Aging /\ By(k, left[k], Ceiling)
        BY <2>1, <2>2, <2>4, <4>2, <1>ty DEF InTime, By, Unbounded
      <4>3. CASE leg[k] = "terminated" /\ pc[k] = "reaching"
        BY <2>1, <2>2, <2>4, <4>3, <1>ty DEF InTime, By, Aging
      <4>4. CASE leg[k] = "terminated" /\ pc[k] = "answer"
        BY <2>1, <2>2, <2>4, <4>4, <1>ty DEF InTime, By, Aging
      <4>5. CASE leg[k] = "terminated" /\ pc[k] = "giving"
        <5>1. age[k] >= Ceiling => muted'[k]
          BY <2>1, <4>5 DEF Unbounded
        <5>2. muted[k] => muted'[k]
          BY <2>1
        <5> QED  BY <5>1, <5>2, <2>1, <2>2, <2>4, <4>5, <1>ty DEF InTime, By, Aging
      <4>6. CASE leg[k] = "terminated" /\ pc[k] = "drawing"
        <5>1. age[k] >= Ceiling => muted'[k]
          BY <2>1, <4>6 DEF Unbounded
        <5>2. muted[k] => muted'[k]
          BY <2>1
        <5> QED  BY <5>1, <5>2, <2>1, <2>2, <2>4, <4>6, <1>ty DEF InTime, By, Aging
      <4> QED  BY <2>4, <2>6, <4>1, <4>2, <4>3, <4>4, <4>5, <4>6 DEF InTime, Aging
    <3> QED  BY <3>1, <3>2
  <2> QED  BY <2>5, <2>6
<1>7. ASSUME NEW c \in Conns, Accept(c)
      PROVE  Clocked'
  BY <1>7, ClockStays DEF Clocked, Accept
<1>8. ASSUME NEW c \in Conns, Leave(c)
      PROVE  Clocked'
  <2>1. InTime(c)' /\ CopiesInTime(c)'
    <3>1. /\ pc'[c] = "done" /\ age'[c] = 0 /\ quiet'[c] = 0 /\ copies'[c] = NoCopy
          /\ leg'[c] = "none"
      BY <1>8 DEF TypeOK, Clocked, CopiesInTime, Leave, Put
    <3> QED  BY <3>1 DEF InTime, CopiesInTime, CopyInTime, NoCopy
  <2> QED  BY <1>8, <2>1, <1>f DEF TypeOK, Leave, Put
<1>9. ASSUME NEW c \in Conns, ForeignPeer(c)
      PROVE  Clocked'
  BY <1>9, <1>e DEF ForeignPeer
<1>10. ASSUME NEW c \in Conns, ReadHeader(c)
      PROVE  Clocked'
  <2>1. PICK t : t = Header /\ Waits(c, "header", t)
    BY <1>10 DEF ReadHeader
  <2>2. /\ pc'[c] = "header" /\ left'[c] = t /\ age'[c] = age[c] /\ muted'[c] = muted[c]
       /\ leg'[c] = leg[c]
    BY <1>10, <2>1 DEF TypeOK, Waits, Put, ReadHeader
  <2>3. InTime(c)'
    BY <1>10, <2>1, <2>2, <1>na, <1>ty DEF Told, OneRequest, Clocked, InTime, By, OnOrigin, ReadHeader
  <2> QED  BY <1>10, <2>1, <2>3, <1>w DEF ReadHeader
<1>11. ASSUME NEW c \in Conns, NEW n \in 0..1, HeaderRefused(c, n)
      PROVE  Clocked'
  BY <1>11, <1>e DEF HeaderRefused
<1>12. ASSUME NEW c \in Conns, NEW n \in 0..1, DialFails(c, n)
      PROVE  Clocked'
  BY <1>12, <1>e DEF DialFails
<1>13. ASSUME NEW c \in Conns, NEW n \in 0..1, HandshakeFails(c, n)
      PROVE  Clocked'
  BY <1>13, <1>e DEF HandshakeFails
<1>14. ASSUME NEW c \in Conns, StartCopies(c)
      PROVE  Clocked'
  <2>1. /\ pc'[c] = "copying" /\ age'[c] = age[c] /\ muted'[c] = muted[c] /\ quiet'[c] = 0
        /\ leg'[c] = leg[c] /\ \A d \in Dirs : copies'[c][d] = NotAfter(c, TunnelStall)
    BY <1>14 DEF TypeOK, Clocked, CopiesInTime, StartCopies, Arm, Put
  <2>2. InTime(c)'
    BY <1>14, <2>1 DEF Clocked, InTime
  <2>3. CopiesInTime(c)'
    <3>1. \A d \in Dirs : CopyInTime(c, d)'
      BY <2>1, <1>na, <1>ty DEF CopyInTime, By
    <3>2. \E d \in Dirs : copies'[c][d] # Never
      BY <2>1, <1>na DEF Dirs
    <3> QED  BY <2>1, <1>ty, <3>1, <3>2 DEF CopiesInTime
  <2> QED  BY <1>14, <2>2, <2>3, <1>f DEF TypeOK, StartCopies, Arm, Put
<1>15. ASSUME NEW c \in Conns, NEW d \in Dirs, Progress(c, d)
      PROVE  Clocked'
  <2>1. /\ pc'[c] = "copying" /\ age'[c] = age[c] /\ muted'[c] = muted[c] /\ quiet'[c] = 0
        /\ leg'[c] = leg[c]
        /\ \A e \in Dirs : copies'[c][e] = IF copies[c][e] = Never THEN Never
                                           ELSE NotAfter(c, TunnelStall)
    BY <1>15 DEF TypeOK, Progress, Arm, Put
  <2>2. InTime(c)'
    BY <1>15, <2>1 DEF Clocked, InTime
  <2>3. CopiesInTime(c)'
    <3>1. \A e \in Dirs : CopyInTime(c, e)'
      BY <2>1, <1>na, <1>ty DEF CopyInTime, By
    <3>2. \E e \in Dirs : copies'[c][e] # Never
      BY <1>15, <2>1, <1>na DEF Progress
    <3> QED  BY <2>1, <1>ty, <3>1, <3>2 DEF CopiesInTime
  <2> QED  BY <1>15, <2>2, <2>3, <1>f DEF TypeOK, Progress, Arm, Put
<1>16. ASSUME NEW c \in Conns, NEW d \in Dirs, CopyEnds(c, d)
      PROVE  Clocked'
  <2>1. CASE Ends(c, 1)
    BY <1>16, <2>1, <1>e DEF CopyEnds
  <2>2. CASE /\ \E e \in Dirs \ {d} : copies[c][e] # Never
             /\ copies' = [copies EXCEPT ![c][d] = Never] /\ UNCHANGED <<pc, left, reports>>
    <3>1. /\ UNCHANGED <<pc, left, leg, quiet, age, muted>>
          /\ \A e \in Dirs : copies'[c][e] = IF e = d THEN Never ELSE copies[c][e]
          /\ pc[c] = "copying"
      BY <1>16, <2>2, <1>ty DEF TypeOK, CopyEnds
    <3>2. InTime(c)'
      BY <3>1 DEF Clocked, InTime, By
    <3>3. CopiesInTime(c)'
      BY <2>2, <3>1 DEF Clocked, CopiesInTime, CopyInTime, By
    <3> QED  BY <1>16, <2>2, <3>1, <3>2, <3>3, <1>f DEF TypeOK
  <2> QED  BY <1>16, <2>1, <2>2 DEF CopyEnds
<1>17. ASSUME NEW c \in Conns, HandshakeDone(c)
      PROVE  Clocked'
  BY <1>17, <1>n DEF Told, OneRequest, HandshakeDone
<1>18. ASSUME NEW c \in Conns, GapEnds(c)
      PROVE  Clocked'
  <2>1. PICK t : t = NotAfter(c, Header) /\ Waits(c, "heading", t)
    BY <1>18 DEF GapEnds
  <2>2. /\ pc'[c] = "heading" /\ left'[c] = t /\ age'[c] = age[c] /\ muted'[c] = muted[c]
       /\ leg'[c] = leg[c]
    BY <1>18, <2>1 DEF TypeOK, Waits, Put, GapEnds
  <2>3. InTime(c)'
    BY <1>18, <2>1, <2>2, <1>na, <1>ty DEF Told, OneRequest, Clocked, InTime, By, OnOrigin, GapEnds
  <2> QED  BY <1>18, <2>1, <2>3, <1>w DEF GapEnds
<1>19. ASSUME NEW c \in Conns, NEW n \in 1..2, RequestRefused(c, n)
      PROVE  Clocked'
  BY <1>19, <1>e DEF RequestRefused
<1>20. ASSUME NEW c \in Conns, NEW same \in BOOLEAN, NEW covering \in SUBSET Range(Secrets),
             TakeRequest(c, same, covering)
      PROVE  Clocked'
  <2>1. PICK t : t = Dial /\ Waits(c, "reaching", t)
    BY <1>20 DEF TakeRequest
  <2>2. /\ pc'[c] = "reaching" /\ left'[c] = t /\ age'[c] = age[c] /\ muted'[c] = muted[c]
       /\ leg'[c] = leg[c]
    BY <1>20, <2>1 DEF TypeOK, Waits, Put, TakeRequest
  <2>3. InTime(c)'
    BY <1>20, <2>1, <2>2, <1>na, <1>ty DEF Told, OneRequest, Clocked, InTime, By, OnOrigin, TakeRequest
  <2> QED  BY <1>20, <2>1, <2>3, <1>w DEF TakeRequest
<1>21. ASSUME NEW c \in Conns, DialTunnel(c)
      PROVE  Clocked'
  <2>1. PICK t : t = Dial /\ Waits(c, "dialing", t)
    BY <1>21 DEF DialTunnel
  <2>2. /\ pc'[c] = "dialing" /\ left'[c] = t /\ age'[c] = age[c] /\ muted'[c] = muted[c]
       /\ leg'[c] = "tunnel"
    BY <1>21, <2>1 DEF TypeOK, Waits, Put, DialTunnel
  <2>3. InTime(c)'
    BY <1>21, <2>1, <2>2, <1>na, <1>ty DEF Told, OneRequest, Clocked, InTime, By, OnOrigin, DialTunnel
  <2> QED  BY <1>21, <2>1, <2>3, <1>w DEF DialTunnel
<1>22. ASSUME NEW c \in Conns, Handshake(c)
      PROVE  Clocked'
  <2>1. PICK t : t = NotAfter(c, Header) /\ Waits(c, "handshake", t)
    BY <1>22 DEF Handshake
  <2>2. /\ pc'[c] = "handshake" /\ left'[c] = t /\ age'[c] = age[c] /\ muted'[c] = muted[c]
       /\ leg'[c] = "terminated"
    BY <1>22, <2>1 DEF TypeOK, Waits, Put, Handshake
  <2>3. InTime(c)'
    BY <1>22, <2>1, <2>2, <1>na, <1>ty DEF Told, OneRequest, Clocked, InTime, By, OnOrigin, Handshake
  <2> QED  BY <1>22, <2>1, <2>3, <1>w DEF Handshake
<1>23. ASSUME NEW c \in Conns, Forward(c)
      PROVE  Clocked'
  <2>1. PICK t : t = NotAfter(c, Dial) /\ Waits(c, "reaching", t)
    BY <1>23 DEF Forward
  <2>2. /\ pc'[c] = "reaching" /\ left'[c] = t /\ age'[c] = age[c] /\ muted'[c] = muted[c]
       /\ leg'[c] = "plain"
    BY <1>23, <2>1 DEF TypeOK, Waits, Put, Forward
  <2>3. InTime(c)'
    BY <1>23, <2>1, <2>2, <1>na, <1>ty DEF Told, OneRequest, Clocked, InTime, By, OnOrigin, Forward
  <2> QED  BY <1>23, <2>1, <2>3, <1>w DEF Forward
<1>24. ASSUME NEW c \in Conns, SendHeader(c)
      PROVE  Clocked'
  <2>1. CASE Waits(c, "taking", NotAfter(c, Stall))
    <3>1. PICK t : t = NotAfter(c, Stall) /\ Waits(c, "taking", t)
      BY <1>24, <2>1 DEF SendHeader
    <3>2. /\ pc'[c] = "taking" /\ left'[c] = t /\ age'[c] = age[c] /\ muted'[c] = muted[c]
         /\ leg'[c] = leg[c]
      BY <1>24, <2>1, <3>1 DEF TypeOK, Waits, Put, SendHeader
    <3>3. InTime(c)'
      BY <1>24, <2>1, <3>1, <3>2, <1>na, <1>ty DEF Told, OneRequest, Clocked, InTime, By, OnOrigin, SendHeader
    <3> QED  BY <1>24, <2>1, <3>1, <3>3, <1>w DEF SendHeader
  <2>2. CASE Waits(c, "answer", OnOrigin(c, IdleBudget))
    <3>1. PICK t : t = OnOrigin(c, IdleBudget) /\ Waits(c, "answer", t)
      BY <1>24, <2>2 DEF SendHeader
    <3>2. /\ pc'[c] = "answer" /\ left'[c] = t /\ age'[c] = age[c] /\ muted'[c] = muted[c]
         /\ leg'[c] = leg[c]
      BY <1>24, <2>2, <3>1 DEF TypeOK, Waits, Put, SendHeader
    <3>3. InTime(c)'
      BY <1>24, <2>2, <3>1, <3>2, <1>na, <1>ty DEF Told, OneRequest, Clocked, InTime, By, OnOrigin, SendHeader
    <3> QED  BY <1>24, <2>2, <3>1, <3>3, <1>w DEF SendHeader
  <2> QED  BY <1>24, <2>1, <2>2 DEF SendHeader
<1>25. ASSUME NEW c \in Conns, TakeBody(c)
      PROVE  Clocked'
  <2>1. PICK t : t = OnOrigin(c, Never) /\ Waits(c, "giving", t)
    BY <1>25 DEF TakeBody
  <2>2. /\ pc'[c] = "giving" /\ left'[c] = t /\ age'[c] = age[c] /\ muted'[c] = muted[c]
       /\ leg'[c] = leg[c]
    BY <1>25, <2>1 DEF TypeOK, Waits, Put, TakeBody
  <2>3. InTime(c)'
    BY <1>25, <2>1, <2>2, <1>na, <1>ty DEF Told, OneRequest, Clocked, InTime, By, OnOrigin, TakeBody
  <2> QED  BY <1>25, <2>1, <2>3, <1>w DEF TakeBody
<1>26. ASSUME NEW c \in Conns, GiveBody(c)
      PROVE  Clocked'
  <2>1. CASE Waits(c, "taking", NotAfter(c, Stall))
    <3>1. PICK t : t = NotAfter(c, Stall) /\ Waits(c, "taking", t)
      BY <1>26, <2>1 DEF GiveBody
    <3>2. /\ pc'[c] = "taking" /\ left'[c] = t /\ age'[c] = age[c] /\ muted'[c] = muted[c]
         /\ leg'[c] = leg[c]
      BY <1>26, <2>1, <3>1 DEF TypeOK, Waits, Put, GiveBody
    <3>3. InTime(c)'
      BY <1>26, <2>1, <3>1, <3>2, <1>na, <1>ty DEF Told, OneRequest, Clocked, InTime, By, OnOrigin, GiveBody
    <3> QED  BY <1>26, <2>1, <3>1, <3>3, <1>w DEF GiveBody
  <2>2. CASE Waits(c, "answer", OnOrigin(c, IdleBudget))
    <3>1. PICK t : t = OnOrigin(c, IdleBudget) /\ Waits(c, "answer", t)
      BY <1>26, <2>2 DEF GiveBody
    <3>2. /\ pc'[c] = "answer" /\ left'[c] = t /\ age'[c] = age[c] /\ muted'[c] = muted[c]
         /\ leg'[c] = leg[c]
      BY <1>26, <2>2, <3>1 DEF TypeOK, Waits, Put, GiveBody
    <3>3. InTime(c)'
      BY <1>26, <2>2, <3>1, <3>2, <1>na, <1>ty DEF Told, OneRequest, Clocked, InTime, By, OnOrigin, GiveBody
    <3> QED  BY <1>26, <2>2, <3>1, <3>3, <1>w DEF GiveBody
  <2> QED  BY <1>26, <2>1, <2>2 DEF GiveBody
<1>27. ASSUME NEW c \in Conns, RoundTripFails(c)
      PROVE  Clocked'
  BY <1>27, <1>e DEF RoundTripFails
<1>28. ASSUME NEW c \in Conns, NEW scrubbable \in BOOLEAN, Answered(c, scrubbable)
      PROVE  Clocked'
  <2>1. CASE Ends(c, 1)
    BY <1>28, <2>1, <1>e DEF Answered
  <2>2. CASE Waits(c, "drawing", OnOrigin(c, Never))
    <3>1. PICK t : t = OnOrigin(c, Never) /\ Waits(c, "drawing", t)
      BY <1>28, <2>2 DEF Answered
    <3>2. /\ pc'[c] = "drawing" /\ left'[c] = t /\ age'[c] = age[c] /\ muted'[c] = muted[c]
         /\ leg'[c] = leg[c]
      BY <1>28, <2>2, <3>1 DEF TypeOK, Waits, Put, Answered
    <3>3. InTime(c)'
      BY <1>28, <2>2, <3>1, <3>2, <1>na, <1>ty DEF Told, OneRequest, Clocked, InTime, By, OnOrigin, Answered
    <3> QED  BY <1>28, <2>2, <3>1, <3>3, <1>w DEF Answered
  <2> QED  BY <1>28, <2>1, <2>2 DEF Answered
<1>29. ASSUME NEW c \in Conns, DrawBody(c)
      PROVE  Clocked'
  <2>1. PICK t : t = NotAfter(c, Stall) /\ Waits(c, "handing", t)
    BY <1>29 DEF DrawBody
  <2>2. /\ pc'[c] = "handing" /\ left'[c] = t /\ age'[c] = age[c] /\ muted'[c] = muted[c]
       /\ leg'[c] = leg[c]
    BY <1>29, <2>1 DEF TypeOK, Waits, Put, DrawBody
  <2>3. InTime(c)'
    BY <1>29, <2>1, <2>2, <1>na, <1>ty DEF Told, OneRequest, Clocked, InTime, By, OnOrigin, DrawBody
  <2> QED  BY <1>29, <2>1, <2>3, <1>w DEF DrawBody
<1>30. ASSUME NEW c \in Conns, HandBody(c)
      PROVE  Clocked'
  <2>1. PICK t : t = OnOrigin(c, Never) /\ Waits(c, "drawing", t)
    BY <1>30 DEF HandBody
  <2>2. /\ pc'[c] = "drawing" /\ left'[c] = t /\ age'[c] = age[c] /\ muted'[c] = muted[c]
       /\ leg'[c] = leg[c]
    BY <1>30, <2>1 DEF TypeOK, Waits, Put, HandBody
  <2>3. InTime(c)'
    BY <1>30, <2>1, <2>2, <1>na, <1>ty DEF Told, OneRequest, Clocked, InTime, By, OnOrigin, HandBody
  <2> QED  BY <1>30, <2>1, <2>3, <1>w DEF HandBody
<1>31. ASSUME NEW c \in Conns, NEW again \in BOOLEAN, AnswerEnds(c, again)
      PROVE  Clocked'
  <2>1. CASE Ends(c, 1)
    BY <1>31, <2>1, <1>e DEF AnswerEnds
  <2> QED  BY <1>31, <2>1, <1>n DEF AnswerEnds
<1>32. ASSUME NEW c \in Conns, NEW a \in Strangers \cup {Guest}, Connect(c, a)
      PROVE  Clocked'
  <2>a. /\ pc[c] = "outside" /\ pc'[c] = "queued"
        /\ UNCHANGED <<leg, left, copies, quiet, age, muted>>
    BY <1>32 DEF TypeOK, Connect, Put
  <2>b. InTime(c)'
    BY <2>a DEF Clocked, InTime
  <2>c. CopiesInTime(c)'
    BY <2>a DEF Clocked, CopiesInTime, CopyInTime, NoCopy
  <2>1. InTime(c)' /\ CopiesInTime(c)'
    BY <2>b, <2>c
  <2> QED  BY <1>32, <2>1, <1>f DEF TypeOK, Connect, Put
<1>33. CASE UNCHANGED vars
  BY <1>33, ClockStays DEF Clocked, vars
<1> QED
  BY <1>1, <1>2, <1>3, <1>4, <1>5, <1>6, <1>7, <1>8, <1>9, <1>10, <1>11,
     <1>12, <1>13, <1>14, <1>15, <1>16, <1>17, <1>18, <1>19, <1>20, <1>21, <1>22,
     <1>23, <1>24, <1>25, <1>26, <1>27, <1>28, <1>29, <1>30, <1>31, <1>32, <1>33
  DEF Next, Handler

\* No direction of a tunnel is cut while bytes cross, and none outlives its ceiling by
\* more than a dial and an answer unmuted (tunnelClock, terminate).
LEMMA TimelyNext ==
  TypeOK /\ Clocked /\ Timely /\ Clocked' /\ [Next]_vars => Timely'
<1> SUFFICES ASSUME TypeOK, Clocked, Timely, Clocked', [Next]_vars
             PROVE  Timely'
  OBVIOUS
<1> USE DEF serveVars, connVars
<1>t. wronged' = wronged \/ ~wronged' => Timely'
  BY DEF Timely, Clocked, InTime
<1>1. CASE Acquire
  BY <1>t, <1>1 DEF Acquire
<1>2. CASE AcceptFails
  BY <1>t, <1>2 DEF AcceptFails
<1>3. CASE Start
  BY <1>t, <1>3 DEF Start
<1>4. CASE CloseListener
  BY <1>t, <1>4 DEF CloseListener
<1>5. CASE CloseReturns
  BY <1>t, <1>5 DEF CloseReturns
<1>6. CASE Tick
  BY <1>t, <1>6 DEF Tick
<1>7. ASSUME NEW c \in Conns, Accept(c)
      PROVE  Timely'
  BY <1>t, <1>7 DEF Accept
<1>8. ASSUME NEW c \in Conns, Leave(c)
      PROVE  Timely'
  BY <1>t, <1>8 DEF Leave
<1>9. ASSUME NEW c \in Conns, ForeignPeer(c)
      PROVE  Timely'
  BY <1>t, <1>9 DEF ForeignPeer
<1>10. ASSUME NEW c \in Conns, ReadHeader(c)
      PROVE  Timely'
  BY <1>t, <1>10 DEF ReadHeader
<1>11. ASSUME NEW c \in Conns, NEW n \in 0..1, HeaderRefused(c, n)
      PROVE  Timely'
  BY <1>t, <1>11 DEF HeaderRefused
<1>12. ASSUME NEW c \in Conns, NEW n \in 0..1, DialFails(c, n)
      PROVE  Timely'
  BY <1>t, <1>12 DEF DialFails
<1>13. ASSUME NEW c \in Conns, NEW n \in 0..1, HandshakeFails(c, n)
      PROVE  Timely'
  BY <1>t, <1>13 DEF HandshakeFails
<1>14. ASSUME NEW c \in Conns, StartCopies(c)
      PROVE  Timely'
  BY <1>t, <1>14 DEF StartCopies
<1>15. ASSUME NEW c \in Conns, NEW d \in Dirs, Progress(c, d)
      PROVE  Timely'
  BY <1>t, <1>15 DEF Progress
<1>16. ASSUME NEW c \in Conns, NEW d \in Dirs, CopyEnds(c, d)
      PROVE  Timely'
  <2>1. ~(copies[c][d] = 0 /\ quiet[c] < TunnelStall /\ age[c] < Ceiling)
    <3>1. CopyInTime(c, d) /\ age[c] \in Nat /\ quiet[c] \in Nat
      BY DEF Clocked, CopiesInTime, TypeOK
    <3> QED  BY <1>16, <3>1, LimitsAre DEF CopyInTime, Never
  <2> QED  BY <1>t, <1>16, <2>1 DEF Timely, CopyEnds
<1>17. ASSUME NEW c \in Conns, HandshakeDone(c)
      PROVE  Timely'
  BY <1>t, <1>17 DEF HandshakeDone
<1>18. ASSUME NEW c \in Conns, GapEnds(c)
      PROVE  Timely'
  BY <1>t, <1>18 DEF GapEnds
<1>19. ASSUME NEW c \in Conns, NEW n \in 1..2, RequestRefused(c, n)
      PROVE  Timely'
  BY <1>t, <1>19 DEF RequestRefused
<1>20. ASSUME NEW c \in Conns, NEW same \in BOOLEAN, NEW covering \in SUBSET Range(Secrets),
             TakeRequest(c, same, covering)
      PROVE  Timely'
  BY <1>t, <1>20 DEF TakeRequest
<1>21. ASSUME NEW c \in Conns, DialTunnel(c)
      PROVE  Timely'
  BY <1>t, <1>21 DEF DialTunnel
<1>22. ASSUME NEW c \in Conns, Handshake(c)
      PROVE  Timely'
  BY <1>t, <1>22 DEF Handshake
<1>23. ASSUME NEW c \in Conns, Forward(c)
      PROVE  Timely'
  BY <1>t, <1>23 DEF Forward
<1>24. ASSUME NEW c \in Conns, SendHeader(c)
      PROVE  Timely'
  BY <1>t, <1>24 DEF SendHeader
<1>25. ASSUME NEW c \in Conns, TakeBody(c)
      PROVE  Timely'
  BY <1>t, <1>25 DEF TakeBody
<1>26. ASSUME NEW c \in Conns, GiveBody(c)
      PROVE  Timely'
  BY <1>t, <1>26 DEF GiveBody
<1>27. ASSUME NEW c \in Conns, RoundTripFails(c)
      PROVE  Timely'
  BY <1>t, <1>27 DEF RoundTripFails
<1>28. ASSUME NEW c \in Conns, NEW scrubbable \in BOOLEAN, Answered(c, scrubbable)
      PROVE  Timely'
  BY <1>t, <1>28 DEF Answered
<1>29. ASSUME NEW c \in Conns, DrawBody(c)
      PROVE  Timely'
  BY <1>t, <1>29 DEF DrawBody
<1>30. ASSUME NEW c \in Conns, HandBody(c)
      PROVE  Timely'
  BY <1>t, <1>30 DEF HandBody
<1>31. ASSUME NEW c \in Conns, NEW again \in BOOLEAN, AnswerEnds(c, again)
      PROVE  Timely'
  BY <1>t, <1>31 DEF AnswerEnds
<1>32. ASSUME NEW c \in Conns, NEW a \in Strangers \cup {Guest}, Connect(c, a)
      PROVE  Timely'
  BY <1>t, <1>32 DEF Connect
<1>33. CASE UNCHANGED vars
  BY <1>t, <1>33 DEF vars
<1> QED
  BY <1>1, <1>2, <1>3, <1>4, <1>5, <1>6, <1>7, <1>8, <1>9, <1>10, <1>11,
     <1>12, <1>13, <1>14, <1>15, <1>16, <1>17, <1>18, <1>19, <1>20, <1>21, <1>22,
     <1>23, <1>24, <1>25, <1>26, <1>27, <1>28, <1>29, <1>30, <1>31, <1>32, <1>33
  DEF Next, Handler

\* What the theorems rest on, in every state of the proxy.
THEOREM EgressInductiveHolds ==
  Spec => []( /\ TypeOK /\ HandHeld /\ Told /\ OnlyEntitled /\ SecretsAccounted /\ Reported
              /\ SlotsExact /\ Clocked /\ Timely)
<1> DEFINE Inv == /\ TypeOK /\ HandHeld /\ Told /\ OnlyEntitled /\ SecretsAccounted
                  /\ Reported /\ SlotsExact /\ Clocked /\ Timely
<1>1. Init => Inv
  BY EgressInit
<1>2. Inv /\ [Next]_vars => Inv'
  BY TypeNext, ToldNext, EntitledNext, AccountedNext, ReportedNext, SlotsNext, ClockedNext,
     TimelyNext
<1> QED  BY <1>1, <1>2, PTL DEF Spec

\* Slots are counted exactly, only the guest is served, a credential goes only where it
\* is entitled to and is always accounted for, and what was carried is reported (Serve,
\* handle, terminate).
THEOREM EgressIsSafe == Spec => []EgressSafe
<1>1. SlotsExact /\ OnlyEntitled /\ SecretsAccounted /\ Reported => EgressSafe
  BY DEF EgressSafe, Reported
<1> QED  BY <1>1, EgressInductiveHolds, PTL

\* No connection outlives its ceiling by more than one dial and one answer, unless an
\* origin kept it waiting past its ceiling, and no direction of a tunnel is cut while
\* bytes cross the other way (the clocks of proxy.go and terminate.go).
THEOREM EgressIsTimely == Spec => []Timely
BY EgressInductiveHolds, PTL

--------------------------------------------------------------------------------
(* The grants.                                                                  *)

\* A list of labels is the end of another when it agrees with it from the last label on
\* (strings.HasSuffix after a dot, domainCovers).
LEMMA SuffixIs ==
  ASSUME NEW S, NEW s \in Seq(S), NEW t \in Seq(S)
  PROVE  IsSuffix(s, t) <=> /\ Len(s) <= Len(t)
                            /\ \A i \in 1..Len(s) : s[i] = t[Len(t) - Len(s) + i]
<1>0. \A w \in Seq(S) : Reverse(w) \in Seq(S)
  BY DEF Reverse
<1>1. PICK r \in Seq(S), q \in Seq(S) : r = Reverse(s) /\ q = Reverse(t)
  BY <1>0
<1>2. /\ Len(r) = Len(s) /\ \A i \in 1..Len(s) : r[i] = s[Len(s) - i + 1]
      /\ Len(q) = Len(t) /\ \A i \in 1..Len(t) : q[i] = t[Len(t) - i + 1]
      /\ Len(s) \in Nat /\ Len(t) \in Nat
  BY <1>1 DEF Reverse
<1>3. IsPrefix(r, q) <=> Len(s) <= Len(t) /\ \A i \in 1..Len(s) : r[i] = q[i]
  BY <1>1, <1>2 DEF IsPrefix
<1>4. ASSUME Len(s) <= Len(t)
      PROVE  (\A i \in 1..Len(s) : r[i] = q[i])
                <=> (\A i \in 1..Len(s) : s[i] = t[Len(t) - Len(s) + i])
  <2>1. ASSUME \A i \in 1..Len(s) : r[i] = q[i], NEW i \in 1..Len(s)
        PROVE  s[i] = t[Len(t) - Len(s) + i]
    <3>1. PICK j \in 1..Len(s) : j = Len(s) - i + 1
      BY <1>2
    <3>2. Len(s) - j + 1 = i /\ Len(t) - j + 1 = Len(t) - Len(s) + i /\ j \in 1..Len(t)
      BY <1>2, <1>4, <3>1
    <3> QED  BY <1>2, <2>1, <3>1, <3>2
  <2>2. ASSUME \A i \in 1..Len(s) : s[i] = t[Len(t) - Len(s) + i], NEW i \in 1..Len(s)
        PROVE  r[i] = q[i]
    <3>1. PICK j \in 1..Len(s) : j = Len(s) - i + 1
      BY <1>2
    <3>2. Len(t) - Len(s) + j = Len(t) - i + 1 /\ i \in 1..Len(t)
      BY <1>2, <1>4, <3>1
    <3>3. s[j] = t[Len(t) - i + 1]
      BY <2>2, <3>2
    <3> QED  BY <1>2, <3>1, <3>2, <3>3
  <2> QED  BY <2>1, <2>2
<1> QED  BY <1>1, <1>3, <1>4 DEF IsSuffix

\* What is below a name that is below another is below that one (domainCovers).
LEMMA SuffixOfSuffix ==
  ASSUME NEW S, NEW s \in Seq(S), NEW t \in Seq(S), NEW u \in Seq(S),
         IsBelow(t, s), IsBelow(u, t)
  PROVE  IsBelow(u, s)
<1>1. /\ Len(s) < Len(t) /\ \A i \in 1..Len(s) : s[i] = t[Len(t) - Len(s) + i]
      /\ Len(t) < Len(u) /\ \A i \in 1..Len(t) : t[i] = u[Len(u) - Len(t) + i]
      /\ Len(s) \in Nat /\ Len(t) \in Nat /\ Len(u) \in Nat
  BY SuffixIs DEF IsBelow
<1>2. ASSUME NEW i \in 1..Len(s)
      PROVE  s[i] = u[Len(u) - Len(s) + i]
  <2>1. PICK j \in 1..Len(t) : j = Len(t) - Len(s) + i
    BY <1>1
  <2>2. Len(u) - Len(t) + j = Len(u) - Len(s) + i
    BY <1>1, <2>1
  <2> QED  BY <1>1, <2>1, <2>2
<1>3. Len(s) < Len(u)
  BY <1>1
<1> QED  BY <1>1, <1>2, <1>3, SuffixIs DEF IsBelow

\* What is left of a name has labels of the name.
LEMMA BelowKeeps ==
  ASSUME NEW S, NEW s \in Seq(S), NEW t \in Seq(S), IsBelow(t, s)
  PROVE  Range(s) \subseteq Range(t) /\ Len(s) < Len(t)
<1>1. /\ Len(s) < Len(t) /\ \A i \in 1..Len(s) : s[i] = t[Len(t) - Len(s) + i]
      /\ Len(s) \in Nat /\ Len(t) \in Nat
  BY SuffixIs DEF IsBelow
<1>2. \A i \in 1..Len(s) : Len(t) - Len(s) + i \in 1..Len(t)
  BY <1>1
<1>3. DOMAIN s = 1..Len(s) /\ DOMAIN t = 1..Len(t)
  OBVIOUS
<1> QED  BY <1>1, <1>2, <1>3 DEF Range

\* An entry of a list is a list of labels, and so is the name of a host.
LEMMA EntryLabels ==
  ASSUME NEW list \in Listing, NEW i \in DOMAIN list
  PROVE  NormaliseDomain(list[i]) \in Seq(STRING)
<1> DEFINE E == [labels : Seq(STRING), wild : BOOLEAN, dots : Nat]
<1>1. list \in Seq(E)
  BY DEF Listing
<1>2. list[i] \in E
  <2> HIDE DEF E
  <2> QED  BY <1>1
<1> QED  BY <1>2 DEF NormaliseDomain

\* A host keeps its labels, and gains one for each trailing dot but one (HostName).
LEMMA NameLabels ==
  ASSUME NEW host \in [labels : Seq(STRING), dots : Nat]
  PROVE  /\ HostName(host) \in Seq(STRING) /\ Len(HostName(host)) >= Len(host.labels)
         /\ host.dots <= 1 => HostName(host) = host.labels
         /\ host.dots > 1 => Len(HostName(host)) > Len(host.labels)
<1>1. PICK l \in Seq(STRING), n \in Nat : l = host.labels /\ n = host.dots
  OBVIOUS
<1>2. NoLabel \in STRING
  BY GrantsAssumption
<1>3. PICK m \in Nat : 1..(n - 1) = 1..m /\ (n <= 1 => m = 0) /\ (n > 1 => m > 0)
  <2>1. CASE n <= 1
    <3>1. 1..(n - 1) = 1..0
      BY <1>1, <2>1
    <3>2. ~(n > 1) /\ 0 \in Nat
      BY <1>1, <2>1
    <3> QED  BY <3>1, <3>2, Zenon
  <2>2. CASE n > 1
    <3>1. PICK m \in Nat : m = n - 1 /\ m > 0
      BY <1>1, <2>2
    <3> QED  BY <2>2, <3>1
  <2> QED  BY <1>1, <2>1, <2>2
<1>4. PICK d \in Seq(STRING) : d = [i \in 1..m |-> NoLabel] /\ Len(d) = m
  <2> DEFINE d == [i \in 1..m |-> NoLabel]
  <2>1. d \in Seq(STRING)
    BY <1>2, <1>3
  <2>2. Len(d) = m
    BY <1>2, <1>3
  <2> QED  BY <2>1, <2>2
<1>5. HostName(host) = l \o d
  BY <1>1, <1>3, <1>4 DEF HostName
<1>6. l \o d \in Seq(STRING) /\ Len(l \o d) = Len(l) + m /\ Len(l) \in Nat
  BY <1>1, <1>4
<1>7. m = 0 => l \o d = l
  BY <1>1, <1>4
<1> QED  BY <1>1, <1>3, <1>5, <1>6, <1>7

\* The entries of a list that was accepted cover no address (CheckAllowList).
LEMMA NoTail ==
  ASSUME NEW policy \in Accepted, NEW i \in DOMAIN policy, NEW d \in Seq(STRING),
         ~ipLiteral(NormaliseDomain(policy[i])), ipLiteral(d)
  PROVE  ~IsBelow(d, NormaliseDomain(policy[i]))
<1>1. PICK a \in Seq(STRING) : a = NormaliseDomain(policy[i])
  BY EntryLabels DEF Accepted
<1>2. a = <<NoLabel>> \/ (Len(a) >= 2 /\ ~numericLabels(a))
  BY <1>1 DEF Accepted, CheckAllowList
<1>3. ASSUME IsBelow(d, a)
      PROVE  FALSE
  <2>1. Range(a) \subseteq Numerals
    BY <1>3, BelowKeeps DEF ipLiteral
  <2>2. CASE a = <<NoLabel>>
    <3>1. NoLabel \in Range(a)
      BY <2>2 DEF Range
    <3> QED  BY <2>1, <3>1, GrantsAssumption
  <2>3. CASE Len(a) >= 2 /\ ~numericLabels(a)
    BY <2>1, <2>3 DEF numericLabels
  <2> QED  BY <1>2, <2>2, <2>3
<1> QED  BY <1>1, <1>3

\* A host that an entry covers, an accepted list of names covers when it contains the
\* entry: the commands' suffix rule and the proxy's agree on it (containsDomain,
\* allowsHost).
LEMMA CoverPasses ==
  ASSUME NEW policy \in Accepted, Names(policy), NEW e \in Seq(STRING), NEW h \in Seq(STRING),
         NEW i \in DOMAIN policy,
         e = NormaliseDomain(policy[i]) \/ IsBelow(e, NormaliseDomain(policy[i])),
         domainCovers(e, h)
  PROVE  domainCovers(NormaliseDomain(policy[i]), h)
<1>1. PICK a \in Seq(STRING) : a = NormaliseDomain(policy[i])
  BY EntryLabels DEF Accepted
<1>2. ~ipLiteral(a) /\ \A d \in Seq(STRING) : ipLiteral(d) => ~IsBelow(d, a)
  BY <1>1, NoTail DEF Names
<1>3. CASE e = a
  BY <1>1, <1>3
<1>4. CASE IsBelow(e, a)
  <2>1. CASE h = e
    BY <1>1, <1>2, <1>4, <2>1 DEF domainCovers
  <2>2. CASE ~ipLiteral(h) /\ IsBelow(h, e)
    <3>1. IsBelow(h, a)
      BY <1>4, <2>2, SuffixOfSuffix
    <3> QED  BY <1>1, <1>2, <2>2, <3>1 DEF domainCovers
  <2> QED  BY <2>1, <2>2 DEF domainCovers
<1> QED  BY <1>1, <1>3, <1>4

\* A list each of whose entries an accepted list of names contains grants no more hosts
\* than that one (resolve, restoreAllow).
LEMMA ListNarrows ==
  ASSUME NEW policy \in Accepted, Names(policy), NEW list \in Listing, NEW host \in NamedHost,
         \A i \in DOMAIN list : containsDomain(policy, list[i])
  PROVE  Narrows(list, policy, host)
<1>1. PICK h \in Seq(STRING) : h = HostName(host)
  BY NameLabels DEF NamedHost
<1>2. ASSUME NEW j \in DOMAIN list, domainCovers(NormaliseDomain(list[j]), h)
      PROVE  \E i \in DOMAIN policy : domainCovers(NormaliseDomain(policy[i]), h)
  <2>1. PICK e \in Seq(STRING) : e = NormaliseDomain(list[j])
    BY EntryLabels
  <2>2. PICK i \in DOMAIN policy :
            e = NormaliseDomain(policy[i]) \/ IsBelow(e, NormaliseDomain(policy[i]))
    BY <2>1 DEF containsDomain
  <2>3. domainCovers(NormaliseDomain(policy[i]), h)
    BY <1>2, <2>1, <2>2, CoverPasses
  <2> QED  BY <2>3
<1> QED  BY <1>1, <1>2 DEF Narrows, allowsHost

\* No call widens the lists of its project and its snapshot (resolve, restoreAllow,
\* restoreSecrets).
LEMMA ReachIsHeld ==
  ASSUME NEW policy \in Accepted, NEW meta \in Accepted, NEW asked \in Listing,
         NEW given \in BOOLEAN, NEW host \in NamedHost
  PROVE  ReachHeld(policy, meta, asked, given, host)
<1> SUFFICES ASSUME Names(policy), Names(meta)
             PROVE  ReachHeld(policy, meta, asked, given, host)
  BY DEF ReachHeld
<1> DEFINE resolved == ResolveAllow(policy, asked, given)
           restored == restoreAllow(TRUE, policy, meta, asked)
           held == VettedSecrets(asked, policy)
<1>0. meta \in Listing /\ policy \in Listing
  BY DEF Accepted
<1>1. resolved.ok => Narrows(resolved.list, policy, host)
  <2>1. CASE given
    BY <2>1, ListNarrows DEF ResolveAllow
  <2>2. CASE ~given
    BY <2>2 DEF ResolveAllow, Narrows
  <2> QED  BY <2>1, <2>2
<1>2. restored.ok => Narrows(restored.list, policy, host) /\ Narrows(restored.list, meta, host)
  <2>1. PICK list \in Listing : list = IF asked # <<>> THEN asked ELSE meta
    BY <1>0
  <2>2. restored.ok => /\ restored.list = list
                       /\ \A i \in DOMAIN list : containsDomain(meta, list[i])
                                                 /\ containsDomain(policy, list[i])
    BY <2>1 DEF restoreAllow
  <2>3. (\A i \in DOMAIN list : containsDomain(policy, list[i])) => Narrows(list, policy, host)
    BY ListNarrows
  <2>4. (\A i \in DOMAIN list : containsDomain(meta, list[i])) => Narrows(list, meta, host)
    BY ListNarrows
  <2> HIDE DEF restored
  <2> QED  BY <2>2, <2>3, <2>4
<1>3. ASSUME NEW i \in DOMAIN held
      PROVE  allowsHost(policy, [labels |-> NormaliseDomain(held[i]), dots |-> 0])
  <2>1. held \in Listing /\ \A s \in Range(held) : containsDomain(policy, s)
    <3> DEFINE E == [labels : Seq(STRING), wild : BOOLEAN, dots : Nat]
               T == {s \in Range(asked) : containsDomain(policy, s)}
    <3>1. Listing = Seq(E) /\ held = Kept(asked, T)
      BY DEF Listing, VettedSecrets
    <3> HIDE DEF E, T, held
    <3>2. held \in Seq(E) /\ Range(held) = Range(asked) \cap T
      BY <3>1, KeptSound
    <3> QED  BY <3>1, <3>2 DEF T
  <2> HIDE DEF held
  <2>2. PICK e \in Seq(STRING) : e = NormaliseDomain(held[i])
    BY <2>1, EntryLabels
  <2>3. containsDomain(policy, held[i])
    BY <2>1 DEF Range
  <2>4. PICK j \in DOMAIN policy :
            e = NormaliseDomain(policy[j]) \/ IsBelow(e, NormaliseDomain(policy[j]))
    BY <2>2, <2>3 DEF containsDomain
  <2>5. domainCovers(e, e)
    BY DEF domainCovers
  <2>6. domainCovers(NormaliseDomain(policy[j]), e)
    BY <2>4, <2>5, CoverPasses
  <2>7. HostName([labels |-> e, dots |-> 0]) = e
    <3>1. [labels |-> e, dots |-> 0] \in [labels : Seq(STRING), dots : Nat]
      OBVIOUS
    <3> QED  BY <3>1, NameLabels
  <2> QED  BY <2>2, <2>6, <2>7 DEF allowsHost
<1> HIDE DEF resolved, restored, held
<1> QED  BY <1>1, <1>2, <1>3 DEF ReachHeld, resolved, restored, held

\* An address is reached as an entry only, and no name of one label is (CheckAllowList).
LEMMA LiteralsAreExact ==
  ASSUME NEW list \in Listing, NEW host \in NamedHost
  PROVE  LiteralsExact(list, host)
<1>1. PICK h \in Seq(STRING) : h = HostName(host) /\ h # <<NoLabel>> /\ Len(h) >= 1
  <2>1. /\ HostName(host) \in Seq(STRING) /\ Len(HostName(host)) >= Len(host.labels)
        /\ host.dots <= 1 => HostName(host) = host.labels
        /\ host.dots > 1 => Len(HostName(host)) > Len(host.labels)
        /\ host.labels \in Seq(STRING) /\ host.labels \notin {<<>>, <<NoLabel>>}
        /\ host.dots \in Nat
    BY NameLabels DEF NamedHost
  <2>2. PICK l \in Seq(STRING), h \in Seq(STRING) : l = host.labels /\ h = HostName(host)
    BY <2>1
  <2>3. Len(l) \in Nat /\ Len(l) >= 1 /\ l # <<NoLabel>> /\ Len(<<NoLabel>>) = 1
    <3>1. l # <<>> /\ l # <<NoLabel>>
      BY <2>1, <2>2, Zenon
    <3>2. Len(l) \in Nat /\ Len(l) # 0
      BY <2>2, <3>1
    <3>3. Len(<<NoLabel>>) = 1
      OBVIOUS
    <3> QED  BY <3>1, <3>2, <3>3
  <2>4. h = l \/ Len(h) > Len(l)
    <3>1. CASE host.dots <= 1
      BY <2>1, <2>2, <3>1, Zenon
    <3>2. CASE host.dots > 1
      BY <2>1, <2>2, <3>2, Zenon
    <3>3. host.dots <= 1 \/ host.dots > 1
      BY <2>1
    <3> QED  BY <3>1, <3>2, <3>3
  <2>5. h = <<NoLabel>> => Len(h) = 1
    BY <2>3, Zenon
  <2>6. Len(h) >= 1 /\ h # <<NoLabel>>
    <3>1. Len(h) \in Nat
      BY <2>2
    <3> QED  BY <2>3, <2>4, <2>5, <3>1
  <2> QED  BY <2>2, <2>6
<1>2. ASSUME NEW i \in DOMAIN list, domainCovers(NormaliseDomain(list[i]), h)
      PROVE  /\ ipLiteral(h) => NormaliseDomain(list[i]) = h
             /\ CheckAllowList(list) => Len(h) >= 2
  <2>1. PICK e \in Seq(STRING) : e = NormaliseDomain(list[i])
    BY EntryLabels
  <2>2. h = e \/ (~ipLiteral(h) /\ IsBelow(h, e))
    BY <1>2, <2>1 DEF domainCovers
  <2>3. ASSUME CheckAllowList(list)
        PROVE  Len(h) >= 2
    <3>1. e = <<NoLabel>> \/ Len(e) >= 2
      <4>1. e = <<NoLabel>> \/ ipLiteral(e) \/ Len(e) >= 2
        BY <2>1, <2>3, Zenon DEF CheckAllowList
      <4>2. ipLiteral(e) => Len(e) >= 2
        BY DEF ipLiteral
      <4> QED  BY <4>1, <4>2
    <3>2. CASE h = e
      BY <1>1, <3>1, <3>2
    <3>3. CASE IsBelow(h, e)
      <4>1. Len(<<NoLabel>>) = 1 /\ Len(h) \in Nat /\ Len(e) \in Nat
        OBVIOUS
      <4>2. Len(e) = 1 \/ Len(e) >= 2
        BY <3>1, <4>1
      <4> QED  BY <3>3, <4>1, <4>2 DEF IsBelow
    <3> QED  BY <2>2, <3>2, <3>3
  <2> QED  BY <2>1, <2>2, <2>3
<1> QED  BY <1>1, <1>2 DEF LiteralsExact, allowsHost

\* A flag may ask for less than the file, and what is not asked for is the file's
\* (ceiling).
LEMMA CeilingHeld ==
  ASSUME NEW limit \in Nat \ {0}, NEW flag \in Nat, NEW typed \in BOOLEAN
  PROVE  ceiling(limit, flag, typed).ok => ceiling(limit, flag, typed).size \in 1..limit
BY DEF ceiling, Sized, Refusal

\* Nothing is made larger than its project, its host or its flag (ceiling, resolve,
\* capToHost).
LEMMA SizesAreHeld ==
  ASSUME NEW cfg \in [res : Nat, legacy : Nat], NEW asked \in Nat, NEW typed \in BOOLEAN,
         NEW default \in Nat, NEW host \in Nat
  PROVE  SizesHeld(cfg, asked, typed, default, host)
<1> DEFINE run == RunSize(cfg, asked, typed, default)
           flag == IF typed THEN asked ELSE 0
           tool == resolve(cfg, flag, default, host)
           held == Bounded(cfg.res, asked)
<1>1. run.ok /\ cfg.res > 0 => run.size \in 1..cfg.res
  <2>1. PICK f \in Nat : f = flag
    OBVIOUS
  <2>2. cfg.res > 0 /\ ceiling(cfg.res, f, typed).ok => ceiling(cfg.res, f, typed).size \in 1..cfg.res
    <3>1. cfg.res > 0 => cfg.res \in Nat \ {0}
      OBVIOUS
    <3> QED  BY <3>1, CeilingHeld
  <2> QED  BY <2>1, <2>2 DEF RunSize, Refusal
<1>2. held.ok /\ cfg.res > 0 => held.size \in 1..cfg.res
  <2>1. cfg.res > 0 => cfg.res \in Nat \ {0}
    OBVIOUS
  <2> QED  BY <2>1, CeilingHeld DEF Bounded
<1>3. PICK limit \in Nat, f \in Nat : limit = ProjectLimit(cfg) /\ f = flag
  BY DEF ProjectLimit
<1>4. /\ tool.ok => /\ limit > 0 => tool.size <= limit
                    /\ host > 0 => tool.size <= host
      /\ tool.ok /\ f > 0 => tool.size = f
  BY <1>3 DEF resolve, capToHost, Sized, Refusal
<1> HIDE DEF run, tool, held
<1> QED  BY <1>1, <1>2, <1>3, <1>4 DEF SizesHeld, run, tool, held

\* Nothing is restored that the project or the host could not have booted
\* (checkSnapshotFits).
LEMMA SnapshotIsHeld ==
  ASSUME NEW cfg \in Bounds, NEW meta \in Bounds, NEW host \in Bounds
  PROVE  SnapshotHeld(cfg, meta, host)
BY DEF Bounds, SnapshotHeld, checkSnapshotFits, checkSnapshotCeiling

\* No form of writing an unsafe address gets past the table (isUnsafeResolvedAddr).
LEMMA AddressIsChecked ==
  ASSUME NEW addr \in [form : STRING, addr : STRING]
  PROVE  AddressesChecked(addr)
BY DEF AddressesChecked, MayDial, isUnsafeResolvedAddr, Carried, Carriers

\* For every table of addresses and numerals: whatever lists, sizes, snapshots, addresses
\* and requests it is given, no door grants a machine more than its bounds
\* (runWithSandbox, resolve, restoreAllow, dialerFor, handle).
THEOREM GrantsAreHeld == item \in GrantInputs => GrantsHeld
<1> SUFFICES ASSUME item \in GrantInputs
             PROVE  GrantsHeld
  OBVIOUS
<1>1. item.kind = "address" => item.addr \in [form : STRING, addr : STRING]
  BY DEF GrantInputs
<1>2. item.kind = "reach" =>
        /\ item.policy \in Accepted /\ item.meta \in Accepted /\ item.asked \in Listing
        /\ item.given \in BOOLEAN /\ item.host \in NamedHost
  BY DEF GrantInputs
<1>3. item.kind = "size" =>
        /\ item.cfg \in [res : Nat, legacy : Nat] /\ item.asked \in Nat
        /\ item.typed \in BOOLEAN /\ item.host \in Nat
  BY DEF GrantInputs
<1>4. item.kind = "snapshot" => item.cfg \in Bounds /\ item.meta \in Bounds /\ item.host \in Bounds
  BY DEF GrantInputs
<1>5. item.kind = "address" => AddressesChecked(item.addr)
  BY <1>1, AddressIsChecked
<1>6. item.kind = "reach" => /\ ReachHeld(item.policy, item.meta, item.asked, item.given, item.host)
                             /\ LiteralsExact(item.asked, item.host)
  BY <1>2, ReachIsHeld, LiteralsAreExact
<1>7. item.kind = "size" => SizesHeld(item.cfg, item.asked, item.typed, 2, item.host)
  BY <1>3, SizesAreHeld
<1>8. item.kind = "snapshot" => SnapshotHeld(item.cfg, item.meta, item.host)
  BY <1>4, SnapshotIsHeld
<1>9. Decide(item.allow, item.ports, item.req) =>
        splitTarget(item.req).port \in Range(EffectivePorts(item.ports))
  BY DEF Decide, allowsPort
<1> QED  BY <1>5, <1>6, <1>7, <1>8, <1>9 DEF GrantsHeld

--------------------------------------------------------------------------------
(* Credentials: the search for values in a body                                 *)

\* A value stands at a place when its bytes do (bytes.Index).
LEMMA OccursIs ==
  ASSUME NEW v \in Seq(STRING), NEW b \in Seq(STRING), NEW k \in Nat \ {0}, Len(v) >= 1
  PROVE  Occurs(v, k, b) <=> /\ k + Len(v) - 1 <= Len(b)
                             /\ \A j \in 1..Len(v) : b[k + j - 1] = v[j]
<1>1. Len(v) \in Nat /\ Len(b) \in Nat /\ k \in Nat /\ k >= 1
  OBVIOUS
<1>2. CASE k + Len(v) - 1 <= Len(b)
  <2>1. PICK m \in Nat : m = k + Len(v) - 1
    <3>1. k + Len(v) - 1 \in Nat
      BY <1>1
    <3> QED  BY <3>1
  <2>2. PICK w : w = SubSeq(b, k, m)
    OBVIOUS
  <2>3. w \in Seq(STRING) /\ Len(w) = Len(v) /\ \A j \in 1..Len(v) : w[j] = b[k + j - 1]
    BY <1>1, <1>2, <2>1, <2>2
  <2>4. w = v <=> \A j \in 1..Len(v) : w[j] = v[j]
    <3>1. w = [j \in 1..Len(w) |-> w[j]] /\ v = [j \in 1..Len(v) |-> v[j]]
      BY <2>3
    <3> QED  BY <2>3, <3>1
  <2> QED  BY <1>2, <2>1, <2>2, <2>3, <2>4 DEF Occurs
<1>3. CASE ~(k + Len(v) - 1 <= Len(b))
  BY <1>3 DEF Occurs
<1> QED  BY <1>2, <1>3

\* A body in which some bytes became stars.
Masks(c, b) == Len(c) = Len(b) /\ \A k \in 1..Len(b) : c[k] = b[k] \/ c[k] = Star

\* Values without a star, none empty.
StarFree(V) == \A v \in V : v \in Seq(STRING) /\ Len(v) >= 1 /\ \A j \in 1..Len(v) : v[j] # Star

\* A byte of a value that stands in the body.
Hit(V, b, k) == \E v \in V, m \in 1..Len(b) : Occurs(v, m, b) /\ m <= k /\ k <= m + Len(v) - 1

\* Only bytes of values became stars; and no value is left.
StarredFor(c, b, V) ==
    Len(c) = Len(b) /\ \A k \in 1..Len(b) : c[k] = b[k] \/ (c[k] = Star /\ Hit(V, b, k))
Clear(c, V) == \A v \in V, k \in 1..Len(c) : ~Occurs(v, k, c)

\* Stars make no value that was not there (scrub).
LEMMA MaskKeeps ==
  ASSUME NEW b \in Seq(STRING), NEW c \in Seq(STRING), Masks(c, b), NEW V, StarFree(V), NEW v \in V,
         NEW k \in Nat \ {0}, Occurs(v, k, c)
  PROVE  Occurs(v, k, b)
<1>1. v \in Seq(STRING) /\ Len(v) >= 1 /\ \A j \in 1..Len(v) : v[j] # Star
  BY DEF StarFree
<1>2. k + Len(v) - 1 <= Len(c) /\ \A j \in 1..Len(v) : c[k + j - 1] = v[j]
  BY <1>1, OccursIs
<1>3. Len(c) = Len(b) /\ Len(b) \in Nat /\ Len(v) \in Nat
  BY <1>1 DEF Masks
<1>4. ASSUME NEW j \in 1..Len(v)
      PROVE  b[k + j - 1] = v[j]
  <2>1. k + j - 1 \in 1..Len(b)
    BY <1>2, <1>3
  <2>2. c[k + j - 1] = v[j] /\ v[j] # Star
    BY <1>1, <1>2
  <2> QED  BY <2>1, <2>2 DEF Masks
<1> QED  BY <1>1, <1>2, <1>3, <1>4, OccursIs

\* What is starred for a value is masked (scrub).
LEMMA StarredMasks ==
  ASSUME NEW b, NEW c, NEW V, StarredFor(c, b, V)
  PROVE  Masks(c, b)
BY DEF StarredFor, Masks

\* Two passes star what one for both would (scrub's loop over the values).
LEMMA StarredTwice ==
  ASSUME NEW a \in Seq(STRING), NEW b \in Seq(STRING), NEW c \in Seq(STRING), NEW V, StarFree(V),
         StarredFor(b, a, V), StarredFor(c, b, V)
  PROVE  StarredFor(c, a, V)
<1>1. Len(c) = Len(a) /\ Len(b) = Len(a) /\ Masks(b, a)
  BY StarredMasks DEF StarredFor
<1>2. ASSUME NEW k \in 1..Len(a), Hit(V, b, k)
      PROVE  Hit(V, a, k)
  <2>1. PICK v \in V, m \in 1..Len(b) : Occurs(v, m, b) /\ m <= k /\ k <= m + Len(v) - 1
    BY <1>2 DEF Hit
  <2>2. m \in Nat \ {0}
    OBVIOUS
  <2>3. Occurs(v, m, a)
    BY <1>1, <2>1, <2>2, MaskKeeps
  <2> QED  BY <1>1, <2>1, <2>3 DEF Hit
<1> QED  BY <1>1, <1>2 DEF StarredFor

\* What is clear of a value stays so (scrub's loop over the values).
LEMMA ClearStays ==
  ASSUME NEW b \in Seq(STRING), NEW c \in Seq(STRING), Masks(c, b), NEW V, StarFree(V), Clear(b, V)
  PROVE  Clear(c, V)
<1> SUFFICES ASSUME NEW v \in V, NEW k \in 1..Len(c), Occurs(v, k, c)
             PROVE  FALSE
  BY DEF Clear
<1>1. k \in Nat \ {0} /\ k \in 1..Len(b)
  BY DEF Masks
<1>2. Occurs(v, k, b)
  BY <1>1, MaskKeeps
<1> QED  BY <1>1, <1>2 DEF Clear

\* How far the search for one value has come: behind place k nothing is left of it, and what
\* it skips is starred already.
Found(v, b, k, s) ==
    /\ StarredFor(s.body, b, {v})
    /\ \A m \in 1..k : ~Occurs(v, m, s.body)
    /\ \A j \in 1..Len(b) : k < j /\ j < s.next => s.body[j] = Star

\* One place of the search (scrub).
LEMMA ScrubTurn ==
  ASSUME NEW b \in Seq(STRING), NEW v \in Seq(STRING), StarFree({v}), NEW k \in 1..Len(b),
         NEW s \in Searches, Found(v, b, k - 1, s)
  PROVE  ScrubAt(v, k, s) \in Searches /\ Found(v, b, k, ScrubAt(v, k, s))
<1>1. /\ s.body \in Seq(STRING) /\ s.next \in Nat /\ Len(s.body) = Len(b) /\ Len(b) \in Nat
      /\ Len(v) \in Nat /\ Len(v) >= 1 /\ k \in Nat \ {0} /\ k >= 1
  BY DEF Searches, Found, StarredFor, StarFree
<1>2. CASE k >= s.next /\ Occurs(v, k, s.body)
  <2>1. PICK c : c = Starred(s.body, k, Len(v))
    OBVIOUS
  <2>2. ScrubAt(v, k, s) = [body |-> c, next |-> k + Len(v)]
    BY <1>2, <2>1 DEF ScrubAt
  <2>3. /\ c \in Seq(STRING) /\ Len(c) = Len(b)
        /\ \A n \in 1..Len(b) : c[n] = IF n >= k /\ n <= k + Len(v) - 1 THEN Star ELSE s.body[n]
    <3>1. c = [n \in 1..Len(s.body) |-> IF n \in k..(k + Len(v) - 1) THEN Star ELSE s.body[n]]
      BY <2>1 DEF Starred
    <3>2. \A n \in 1..Len(b) : c[n] \in STRING
      BY <1>1, <3>1, CredentialsAssumption
    <3> QED  BY <1>1, <3>1, <3>2
  <2>4. k + Len(v) - 1 <= Len(b) /\ Occurs(v, k, b)
    <3>1. Masks(s.body, b)
      BY StarredMasks DEF Found
    <3> QED  BY <1>1, <1>2, <3>1, MaskKeeps, OccursIs
  <2>5. StarredFor(c, b, {v})
    <3>1. ASSUME NEW n \in 1..Len(b), n >= k, n <= k + Len(v) - 1
          PROVE  Hit({v}, b, n)
      BY <2>4, <3>1 DEF Hit
    <3>2. ASSUME NEW n \in 1..Len(b)
          PROVE  c[n] = b[n] \/ (c[n] = Star /\ Hit({v}, b, n))
      <4>1. CASE n >= k /\ n <= k + Len(v) - 1
        BY <2>3, <3>1, <4>1
      <4>2. CASE ~(n >= k /\ n <= k + Len(v) - 1)
        <5>1. c[n] = s.body[n]
          BY <2>3, <4>2
        <5> QED  BY <5>1 DEF Found, StarredFor
      <4> QED  BY <4>1, <4>2
    <3> QED  BY <2>3, <3>2 DEF StarredFor
  <2>6. Masks(c, s.body)
    BY <1>1, <2>3 DEF Masks
  <2>7. ASSUME NEW m \in 1..k, Occurs(v, m, c)
        PROVE  FALSE
    <3>0. m \in Nat \ {0}
      BY <1>1
    <3>1. CASE m = k
      <4>1. c[k + 1 - 1] = v[1] /\ v[1] # Star
        BY <1>1, <2>3, <2>7, <3>0, <3>1, OccursIs DEF StarFree
      <4> QED  BY <1>1, <2>3, <4>1
    <3>2. CASE m # k
      <4>1. m \in 1..(k - 1)
        BY <1>1, <3>2
      <4>2. Occurs(v, m, s.body)
        BY <1>1, <2>3, <2>6, <2>7, <3>0, MaskKeeps
      <4> QED  BY <4>1, <4>2 DEF Found
    <3> QED  BY <3>1, <3>2
  <2>8. ASSUME NEW j \in 1..Len(b), k < j, j < k + Len(v)
        PROVE  c[j] = Star
    BY <1>1, <2>3, <2>8
  <2>9. PICK t \in Searches : t = [body |-> c, next |-> k + Len(v)]
    <3>1. k + Len(v) \in Nat
      BY <1>1
    <3>2. PICK n \in Nat : n = k + Len(v)
      BY <3>1
    <3>3. [body |-> c, next |-> n] \in Searches
      BY <2>3 DEF Searches
    <3> QED  BY <3>2, <3>3
  <2>10. t.body = c /\ t.next = k + Len(v)
    BY <2>9
  <2>11. Found(v, b, k, t)
    BY <2>5, <2>7, <2>8, <2>10 DEF Found
  <2> QED  BY <2>2, <2>9, <2>11
<1>3. CASE ~(k >= s.next /\ Occurs(v, k, s.body))
  <2>1. ScrubAt(v, k, s) = s
    BY <1>3 DEF ScrubAt
  <2>2. ~Occurs(v, k, s.body)
    <3>1. CASE k < s.next
      <4>1. s.body[k] = Star
        BY <1>1, <3>1 DEF Found
      <4>2. Occurs(v, k, s.body) => s.body[k + 1 - 1] = v[1] /\ v[1] # Star
        BY <1>1, OccursIs DEF StarFree
      <4> QED  BY <1>1, <4>1, <4>2
    <3>2. CASE k >= s.next
      BY <1>3, <3>2
    <3> QED  BY <1>1, <3>1, <3>2
  <2>3. ASSUME NEW m \in 1..k
        PROVE  ~Occurs(v, m, s.body)
    <3>1. m = k \/ m \in 1..(k - 1)
      BY <1>1
    <3> QED  BY <2>2, <3>1 DEF Found
  <2>4. \A j \in 1..Len(b) : k < j /\ j < s.next => s.body[j] = Star
    BY <1>1 DEF Found
  <2> QED  BY <2>1, <2>3, <2>4 DEF Found
<1> QED  BY <1>2, <1>3

\* A whole search leaves nothing of the value and touches nothing else (scrub).
LEMMA ScrubOneIs ==
  ASSUME NEW b \in Seq(STRING), NEW v \in Seq(STRING), StarFree({v})
  PROVE  /\ ScrubOne(b, v) \in Seq(STRING)
         /\ StarredFor(ScrubOne(b, v), b, {v}) /\ Clear(ScrubOne(b, v), {v})
<1>t. PICK turn : turn = [k \in 1..Len(b) |-> [s \in Searches |-> ScrubAt(v, k, s)]]
  OBVIOUS
<1>s. PICK start : start = [body |-> b, next |-> 1]
  OBVIOUS
<1>i. PICK I : I = {p \in (0..Len(b)) \X Searches : Found(v, b, p[1], p[2])}
  OBVIOUS
<1>1. Len(b) \in Nat
  OBVIOUS
<1>j. \A k \in 0..Len(b), s \in Searches : Found(v, b, k, s) => <<k, s>> \in I
  <2> TAKE k \in 0..Len(b), s \in Searches
  <2>1. <<k, s>> \in (0..Len(b)) \X Searches /\ <<k, s>>[1] = k /\ <<k, s>>[2] = s
    OBVIOUS
  <2> QED  BY <1>i, <2>1
<1>k. \A k, s : <<k, s>> \in I => k \in 0..Len(b) /\ s \in Searches /\ Found(v, b, k, s)
  <2> TAKE k, s
  <2>1. <<k, s>>[1] = k /\ <<k, s>>[2] = s
    OBVIOUS
  <2> QED  BY <1>i, <2>1
<1>2. <<0, start>> \in I
  <2>1. start \in Searches /\ start.body = b /\ start.next = 1
    BY <1>s DEF Searches
  <2>2. Found(v, b, 0, start)
    BY <1>1, <2>1 DEF Found, StarredFor
  <2> QED  BY <1>1, <1>j, <2>1, <2>2
<1>3. ASSUME NEW k \in 1..Len(b), NEW s, <<k - 1, s>> \in I
      PROVE  <<k, turn[k][s]>> \in I
  <2>1. s \in Searches /\ Found(v, b, k - 1, s) /\ k \in 0..Len(b)
    BY <1>1, <1>3, <1>k
  <2>2. turn[k][s] = ScrubAt(v, k, s)
    BY <1>t, <2>1
  <2>3. ScrubAt(v, k, s) \in Searches /\ Found(v, b, k, ScrubAt(v, k, s))
    BY <2>1, ScrubTurn
  <2> QED  BY <1>j, <2>1, <2>2, <2>3
<1>4. PICK end : end = Looped(turn, start, Len(b))
  OBVIOUS
<1>5. <<Len(b), end>> \in I
  <2>1. \A k \in 1..Len(b) : \A s : <<k - 1, s>> \in I => <<k, turn[k][s]>> \in I
    BY <1>3
  <2> QED  BY <1>1, <1>2, <1>4, <2>1, LoopKeeps
<1>6. end \in Searches /\ Found(v, b, Len(b), end)
  BY <1>5, <1>k
<1>7. ScrubOne(b, v) = end.body
  BY <1>t, <1>s, <1>4 DEF ScrubOne
<1>8. end.body \in Seq(STRING) /\ StarredFor(end.body, b, {v})
      /\ \A m \in 1..Len(b) : ~Occurs(v, m, end.body)
  BY <1>6 DEF Found, Searches
<1>9. Clear(end.body, {v})
  <2>1. Len(end.body) = Len(b)
    BY <1>8 DEF StarredFor
  <2> QED  BY <1>8, <2>1 DEF Clear
<1> QED  BY <1>7, <1>8, <1>9

\* After the search for every value none is left (scrub).
LEMMA ScrubIs ==
  ASSUME NEW b \in Seq(STRING), NEW pats \in Seq(Seq(STRING)), StarFree(Range(pats))
  PROVE  /\ scrub(pats, b) \in Seq(STRING)
         /\ StarredFor(scrub(pats, b), b, Range(pats)) /\ Clear(scrub(pats, b), Range(pats))
<1>t. PICK turn : turn = [i \in 1..Len(pats) |-> [out \in Seq(STRING) |-> ScrubOne(out, pats[i])]]
  OBVIOUS
<1>v. PICK V : V = Range(pats)
  OBVIOUS
<1> DEFINE Done(n, out) == StarredFor(out, b, V) /\ \A i \in 1..n : Clear(out, {pats[i]})
<1>i. PICK I : I = {p \in (0..Len(pats)) \X Seq(STRING) : Done(p[1], p[2])}
  OBVIOUS
<1>1. Len(pats) \in Nat /\ Len(b) \in Nat /\ \A i \in 1..Len(pats) : pats[i] \in V /\ pats[i] \in Seq(STRING)
  BY <1>v DEF Range
<1>2. StarFree(V) /\ \A i \in 1..Len(pats) : StarFree({pats[i]})
  BY <1>1, <1>v DEF StarFree
<1> HIDE DEF Done
<1>j. \A n \in 0..Len(pats), out \in Seq(STRING) : Done(n, out) => <<n, out>> \in I
  <2> TAKE n \in 0..Len(pats), out \in Seq(STRING)
  <2>1. <<n, out>> \in (0..Len(pats)) \X Seq(STRING) /\ <<n, out>>[1] = n /\ <<n, out>>[2] = out
    OBVIOUS
  <2> QED  BY <1>i, <2>1
<1>k. \A n, out : <<n, out>> \in I => n \in 0..Len(pats) /\ out \in Seq(STRING) /\ Done(n, out)
  <2> TAKE n, out
  <2>1. <<n, out>>[1] = n /\ <<n, out>>[2] = out
    OBVIOUS
  <2> QED  BY <1>i, <2>1
<1>3. <<0, b>> \in I
  <2>1. Done(0, b)
    BY DEF Done, StarredFor
  <2> QED  BY <1>1, <1>j, <2>1
<1>4. ASSUME NEW n \in 1..Len(pats), NEW out, <<n - 1, out>> \in I
      PROVE  <<n, turn[n][out]>> \in I
  <2>1. out \in Seq(STRING) /\ Done(n - 1, out) /\ n \in 0..Len(pats)
    BY <1>1, <1>4, <1>k
  <2>2. PICK c : c = ScrubOne(out, pats[n])
    OBVIOUS
  <2>3. turn[n][out] = c
    BY <1>t, <2>1, <2>2
  <2>4. c \in Seq(STRING) /\ StarredFor(c, out, {pats[n]}) /\ Clear(c, {pats[n]})
    BY <1>1, <1>2, <2>1, <2>2, ScrubOneIs
  <2>5. StarredFor(c, out, V)
    BY <1>1, <2>4 DEF StarredFor, Hit
  <2>6. StarredFor(c, b, V)
    BY <1>2, <2>1, <2>4, <2>5, StarredTwice DEF Done
  <2>7. ASSUME NEW i \in 1..n
        PROVE  Clear(c, {pats[i]})
    <3>1. CASE i = n
      BY <2>4, <3>1
    <3>2. CASE i # n
      <4>1. i \in 1..(n - 1) /\ i \in 1..Len(pats)
        BY <1>1, <3>2
      <4>2. Clear(out, {pats[i]}) /\ StarFree({pats[i]})
        BY <1>2, <2>1, <4>1 DEF Done
      <4>3. Masks(c, out)
        BY <2>4, StarredMasks
      <4> QED  BY <2>1, <2>4, <4>2, <4>3, ClearStays
    <3> QED  BY <3>1, <3>2
  <2>8. Done(n, c)
    BY <2>6, <2>7 DEF Done
  <2> QED  BY <1>j, <2>1, <2>3, <2>4, <2>8
<1>5. PICK end : end = Looped(turn, b, Len(pats))
  OBVIOUS
<1>6. <<Len(pats), end>> \in I
  <2>1. \A n \in 1..Len(pats) : \A out : <<n - 1, out>> \in I => <<n, turn[n][out]>> \in I
    BY <1>4
  <2> QED  BY <1>1, <1>3, <1>5, <2>1, LoopKeeps
<1>7. end \in Seq(STRING) /\ Done(Len(pats), end)
  BY <1>6, <1>k
<1>8. scrub(pats, b) = end
  BY <1>t, <1>5 DEF scrub
<1>9. Clear(end, V)
  <2> SUFFICES ASSUME NEW v \in V, NEW k \in 1..Len(end)
               PROVE  ~Occurs(v, k, end)
    BY DEF Clear
  <2>1. PICK i \in 1..Len(pats) : v = pats[i]
    BY <1>v DEF Range
  <2>2. Clear(end, {pats[i]})
    BY <1>7 DEF Done
  <2> QED  BY <2>1, <2>2 DEF Clear
<1> QED  BY <1>v, <1>7, <1>8, <1>9 DEF Done

\* No value is longer than the longest (newScrubber).
LEMMA MaxLenIs ==
  ASSUME NEW pats \in Seq(Seq(STRING))
  PROVE  MaxLen(pats) \in Nat /\ \A i \in 1..Len(pats) : Len(pats[i]) <= MaxLen(pats)
<1>t. PICK turn : turn = [i \in 1..Len(pats) |->
                             [n \in Nat |-> IF Len(pats[i]) > n THEN Len(pats[i]) ELSE n]]
  OBVIOUS
<1> DEFINE Longest(k, n) == \A i \in 1..k : Len(pats[i]) <= n
<1>i. PICK I : I = {p \in (0..Len(pats)) \X Nat : Longest(p[1], p[2])}
  OBVIOUS
<1>1. Len(pats) \in Nat /\ \A i \in 1..Len(pats) : Len(pats[i]) \in Nat
  OBVIOUS
<1> HIDE DEF Longest
<1>j. \A k \in 0..Len(pats), n \in Nat : Longest(k, n) => <<k, n>> \in I
  <2> TAKE k \in 0..Len(pats), n \in Nat
  <2>1. <<k, n>> \in (0..Len(pats)) \X Nat /\ <<k, n>>[1] = k /\ <<k, n>>[2] = n
    OBVIOUS
  <2> QED  BY <1>i, <2>1
<1>k. \A k, n : <<k, n>> \in I => k \in 0..Len(pats) /\ n \in Nat /\ Longest(k, n)
  <2> TAKE k, n
  <2>1. <<k, n>>[1] = k /\ <<k, n>>[2] = n
    OBVIOUS
  <2> QED  BY <1>i, <2>1
<1>2. <<0, 0>> \in I
  <2>1. Longest(0, 0)
    BY DEF Longest
  <2> QED  BY <1>1, <1>j, <2>1
<1>3. ASSUME NEW k \in 1..Len(pats), NEW n, <<k - 1, n>> \in I
      PROVE  <<k, turn[k][n]>> \in I
  <2>1. n \in Nat /\ Longest(k - 1, n) /\ k \in 0..Len(pats) /\ Len(pats[k]) \in Nat
    BY <1>1, <1>3, <1>k
  <2>2. PICK m : m = IF Len(pats[k]) > n THEN Len(pats[k]) ELSE n
    OBVIOUS
  <2>3. turn[k][n] = m
    BY <1>t, <2>1, <2>2
  <2>4. m \in Nat /\ m >= n /\ m >= Len(pats[k])
    BY <2>1, <2>2
  <2>5. Longest(k, m)
    <3> SUFFICES ASSUME NEW i \in 1..k
                 PROVE  Len(pats[i]) <= m
      BY DEF Longest
    <3>1. CASE i = k
      BY <2>4, <3>1
    <3>2. CASE i # k
      <4>1. i \in 1..(k - 1) /\ i \in 1..Len(pats)
        BY <1>1, <3>2
      <4>2. Len(pats[i]) <= n /\ Len(pats[i]) \in Nat
        BY <1>1, <2>1, <4>1 DEF Longest
      <4> QED  BY <2>1, <2>4, <4>2
    <3> QED  BY <3>1, <3>2
  <2> QED  BY <1>j, <2>1, <2>3, <2>4, <2>5
<1>4. <<Len(pats), Looped(turn, 0, Len(pats))>> \in I
  <2>1. \A k \in 1..Len(pats) : \A n : <<k - 1, n>> \in I => <<k, turn[k][n]>> \in I
    BY <1>3
  <2> QED  BY <1>1, <1>2, <2>1, LoopKeeps
<1>5. MaxLen(pats) = Looped(turn, 0, Len(pats))
  BY <1>t DEF MaxLen
<1> QED  BY <1>4, <1>5, <1>k DEF Longest

\* Where the bytes of two lists are once they are joined (scrubReader's append).
LEMMA JoinedAt ==
  ASSUME NEW S, NEW s \in Seq(S), NEW t \in Seq(S)
  PROVE  /\ Joined(s, t) \in Seq(S) /\ Len(Joined(s, t)) = Len(s) + Len(t)
         /\ \A i \in 1..Len(s) : Joined(s, t)[i] = s[i]
         /\ \A i \in 1..Len(t) : Joined(s, t)[Len(s) + i] = t[i]
BY CatIs DEF Joined

\* The body as far as it has been read, after each piece.
Bodies(pieces, f) ==
    /\ \A j \in 0..Len(pieces) : f[j] \in Seq(STRING)
    /\ f[0] = <<>> /\ f[Len(pieces)] = Concat(pieces)
    /\ \A j \in 1..Len(pieces) : f[j] = Joined(f[j - 1], pieces[j])

\* A body is its pieces, one after the other (scrubReader.Read).
LEMMA BodiesAre ==
  ASSUME NEW pieces \in Seq(Seq(STRING))
  PROVE  \E f : Bodies(pieces, f)
<1>t. PICK turn : turn = [j \in 1..Len(pieces) |-> [out \in Seq(STRING) |-> out \o pieces[j]]]
  OBVIOUS
<1>1. Len(pieces) \in Nat /\ \A j \in 1..Len(pieces) : pieces[j] \in Seq(STRING)
  OBVIOUS
<1>2. PICK f : Runs(turn, <<>>, Len(pieces), f) /\ Looped(turn, <<>>, Len(pieces)) = f[Len(pieces)]
  BY <1>1, LoopedRuns
<1>3. Concat(pieces) = f[Len(pieces)]
  BY <1>t, <1>2 DEF Concat
<1>4. \A j \in 0..Len(pieces) : f[j] \in Seq(STRING)
  <2> DEFINE bad == {j \in 0..Len(pieces) : f[j] \notin Seq(STRING)}
  <2>1. SUFFICES ASSUME bad # {}
                 PROVE  FALSE
    OBVIOUS
  <2>2. bad \subseteq Nat
    BY <1>1
  <2>3. PICK n \in bad : \A m \in bad : n <= m
    <3> HIDE DEF bad
    <3> QED  BY <2>1, <2>2, LeastOf
  <2>4. n # 0
    <3>1. f[0] = <<>> /\ <<>> \in Seq(STRING)
      BY <1>2 DEF Runs
    <3> QED  BY <2>3, <3>1
  <2>5. n \in 1..Len(pieces) /\ n - 1 \in 0..Len(pieces) /\ n - 1 \notin bad
    BY <1>1, <2>3, <2>4
  <2>6. f[n - 1] \in Seq(STRING)
    BY <2>5
  <2>7. f[n] = f[n - 1] \o pieces[n]
    BY <1>2, <1>t, <2>5, <2>6 DEF Runs
  <2>8. Joined(f[n - 1], pieces[n]) \in Seq(STRING)
    BY <1>1, <2>5, <2>6, JoinedAt
  <2> QED  BY <2>3, <2>7, <2>8 DEF Joined
<1>5. \A j \in 1..Len(pieces) : f[j] = Joined(f[j - 1], pieces[j])
  <2> TAKE j \in 1..Len(pieces)
  <2>1. j - 1 \in 0..Len(pieces)
    BY <1>1
  <2>2. f[j - 1] \in Seq(STRING)
    BY <1>4, <2>1
  <2> QED  BY <1>2, <1>t, <2>2 DEF Runs, Joined
<1>6. f[0] = <<>>
  BY <1>2 DEF Runs
<1> QED  BY <1>3, <1>4, <1>5, <1>6 DEF Bodies

\* A part of a body is no longer than the body (scrubReader.Read).
LEMMA BodiesGrow ==
  ASSUME NEW pieces \in Seq(Seq(STRING)), NEW f, Bodies(pieces, f), NEW n \in 0..Len(pieces)
  PROVE  Len(f[n]) <= Len(f[Len(pieces)])
<1>n. PICK N : N = Len(pieces)
  OBVIOUS
<1> DEFINE bad == {d \in 0..N : ~(Len(f[N - d]) <= Len(f[N]))}
<1>1. N \in Nat /\ \A j \in 1..N : pieces[j] \in Seq(STRING) /\ Len(pieces[j]) \in Nat
  BY <1>n
<1>2. \A j \in 0..N : f[j] \in Seq(STRING) /\ Len(f[j]) \in Nat
  BY <1>n DEF Bodies
<1>b. \A d : d \in bad <=> d \in 0..N /\ ~(Len(f[N - d]) <= Len(f[N]))
  OBVIOUS
<1> HIDE DEF bad
<1>3. bad = {}
  <2> SUFFICES ASSUME bad # {}
               PROVE  FALSE
    BY Zenon
  <2>2. bad \subseteq Nat
    BY <1>1, <1>b
  <2>3. PICK d \in bad : \A m \in bad : d <= m
    BY <2>2, LeastOf
  <2>a. d \in 0..N /\ ~(Len(f[N - d]) <= Len(f[N]))
    BY <2>3, <1>b
  <2>4. d # 0
    <3>1. d = 0 => N - d = N
      BY <1>1
    <3>2. N \in 0..N
      BY <1>1
    <3>3. Len(f[N]) <= Len(f[N])
      BY <1>2, <3>2
    <3> QED  BY <2>a, <3>1, <3>3
  <2>5. PICK e \in 0..N : e = d - 1
    BY <1>1, <2>a, <2>4
  <2>6. PICK k \in 1..N : k = N - e
    BY <1>1, <2>a, <2>4, <2>5
  <2>7. k - 1 = N - d /\ k - 1 \in 0..N /\ k \in 0..N
    BY <1>1, <2>a, <2>5, <2>6
  <2>c. e \notin bad
    BY <2>3, <2>5, <2>a
  <2>8. Len(f[k]) <= Len(f[N]) /\ ~(Len(f[k - 1]) <= Len(f[N]))
    BY <2>a, <2>c, <1>b, <2>6, <2>7
  <2>9. Len(f[k]) = Len(f[k - 1]) + Len(pieces[k])
    <3>1. f[k] = Joined(f[k - 1], pieces[k])
      BY <1>n DEF Bodies
    <3>2. PICK a \in Seq(STRING) : a = f[k - 1]
      BY <1>2, <2>7
    <3>3. PICK p \in Seq(STRING) : p = pieces[k]
      BY <1>1
    <3>4. Len(Joined(a, p)) = Len(a) + Len(p)
      BY JoinedAt
    <3> QED  BY <3>1, <3>2, <3>3, <3>4
  <2>10. PICK x \in Nat, y \in Nat, z \in Nat, w \in Nat :
            x = Len(f[k]) /\ y = Len(f[k - 1]) /\ z = Len(f[N]) /\ w = Len(pieces[k])
    <3>1. N \in 0..N
      BY <1>1
    <3> QED  BY <1>1, <1>2, <2>7, <3>1
  <2>11. x <= z /\ ~(y <= z) /\ x = y + w
    BY <2>8, <2>9, <2>10
  <2> QED  BY <2>11
<1>a. n \in 0..N
  BY <1>n
<1>4. PICK d \in 0..N : d = N - n
  BY <1>1, <1>a
<1>6. N - d = n
  BY <1>1, <1>a, <1>4
<1>5. d \notin bad
  BY <1>3
<1> QED  BY <1>b, <1>4, <1>5, <1>6, <1>n

\* Where the bytes of two parts of a body are (scrubReader's append).
LEMMA BytesAt ==
  ASSUME NEW s \in Seq(STRING), NEW t \in Seq(STRING)
  PROVE  /\ Joined(s, t) \in Seq(STRING) /\ Len(Joined(s, t)) = Len(s) + Len(t)
         /\ \A i \in 1..Len(s) : Joined(s, t)[i] = s[i]
         /\ \A i \in 1..Len(t) : Joined(s, t)[Len(s) + i] = t[i]
<1>1. Joined(s, t) \in Seq(STRING) /\ Len(Joined(s, t)) = Len(s) + Len(t)
  BY JoinedAt
<1>2. \A i \in 1..Len(s) : Joined(s, t)[i] = s[i]
  BY JoinedAt
<1>3. \A i \in 1..Len(t) : Joined(s, t)[Len(s) + i] = t[i]
  BY JoinedAt
<1> QED  BY <1>1, <1>2, <1>3

\* A value further on in a longer body (scrubReader.Read: the buffer is the body's end).
LEMMA OccursBehind ==
  ASSUME NEW v \in Seq(STRING), Len(v) >= 1, NEW o \in Seq(STRING), NEW b \in Seq(STRING),
         NEW m \in Nat \ {0}
  PROVE  Occurs(v, m, b) <=> Occurs(v, m + Len(o), Joined(o, b))
<1>1. /\ Joined(o, b) \in Seq(STRING) /\ Len(Joined(o, b)) = Len(o) + Len(b)
      /\ \A i \in 1..Len(b) : Joined(o, b)[Len(o) + i] = b[i]
  BY BytesAt
<1>2. Len(o) \in Nat /\ Len(b) \in Nat /\ Len(v) \in Nat /\ m \in Nat /\ m >= 1
  OBVIOUS
<1>3. PICK n \in Nat \ {0} : n = m + Len(o)
  <2>1. m + Len(o) \in Nat \ {0}
    BY <1>2
  <2> QED  BY <2>1
<1>4. m + Len(v) - 1 <= Len(b) <=> n + Len(v) - 1 <= Len(Joined(o, b))
  <2>1. PICK x \in Nat, y \in Nat, z \in Nat : x = Len(o) /\ y = Len(b) /\ z = Len(v)
    BY <1>2
  <2>2. m + z - 1 <= y <=> (m + x) + z - 1 <= x + y
    BY <1>2, <2>1
  <2> QED  BY <1>1, <1>3, <2>1, <2>2
<1>5. ASSUME m + Len(v) - 1 <= Len(b), NEW j \in 1..Len(v)
      PROVE  Joined(o, b)[n + j - 1] = b[m + j - 1]
  <2>1. PICK i \in 1..Len(b) : i = m + j - 1
    BY <1>2, <1>5
  <2>2. n + j - 1 = Len(o) + i
    BY <1>2, <1>3, <2>1
  <2> QED  BY <1>1, <2>1, <2>2
<1>6. Occurs(v, m, b) <=> m + Len(v) - 1 <= Len(b) /\ \A j \in 1..Len(v) : b[m + j - 1] = v[j]
  BY OccursIs
<1>7. Occurs(v, n, Joined(o, b)) <=>
          /\ n + Len(v) - 1 <= Len(Joined(o, b))
          /\ \A j \in 1..Len(v) : Joined(o, b)[n + j - 1] = v[j]
  BY <1>1, OccursIs
<1> QED  BY <1>3, <1>4, <1>5, <1>6, <1>7

\* A value in a body that goes on: it is where it was, and a value that ends before the new
\* bytes was there before them (scrubReader.Read's append).
LEMMA OccursBefore ==
  ASSUME NEW v \in Seq(STRING), Len(v) >= 1, NEW b \in Seq(STRING), NEW p \in Seq(STRING),
         NEW m \in Nat \ {0}, m + Len(v) - 1 <= Len(b)
  PROVE  Occurs(v, m, b) <=> Occurs(v, m, Joined(b, p))
<1>1. /\ Joined(b, p) \in Seq(STRING) /\ Len(Joined(b, p)) = Len(b) + Len(p)
      /\ \A i \in 1..Len(b) : Joined(b, p)[i] = b[i]
  BY BytesAt
<1>2. Len(p) \in Nat /\ Len(b) \in Nat /\ Len(v) \in Nat /\ m \in Nat /\ m >= 1
  OBVIOUS
<1>3. ASSUME NEW j \in 1..Len(v)
      PROVE  Joined(b, p)[m + j - 1] = b[m + j - 1]
  <2>1. m + j - 1 \in 1..Len(b)
    BY <1>2
  <2> QED  BY <1>1, <2>1
<1>4. m + Len(v) - 1 <= Len(Joined(b, p))
  BY <1>1, <1>2
<1>5. Occurs(v, m, b) <=> m + Len(v) - 1 <= Len(b) /\ \A j \in 1..Len(v) : b[m + j - 1] = v[j]
  BY OccursIs
<1>6. Occurs(v, m, Joined(b, p)) <=>
          /\ m + Len(v) - 1 <= Len(Joined(b, p))
          /\ \A j \in 1..Len(v) : Joined(b, p)[m + j - 1] = v[j]
  BY <1>1, OccursIs
<1> QED  BY <1>3, <1>4, <1>5, <1>6

\* What is starred in the buffer is starred in the whole body (scrubReader.Read).
LEMMA StarredBehind ==
  ASSUME NEW o \in Seq(STRING), NEW b \in Seq(STRING), NEW c \in Seq(STRING), NEW V, StarFree(V),
         StarredFor(c, b, V)
  PROVE  StarredFor(Joined(o, c), Joined(o, b), V)
<1>1. /\ Joined(o, b) \in Seq(STRING) /\ Len(Joined(o, b)) = Len(o) + Len(b)
      /\ \A i \in 1..Len(o) : Joined(o, b)[i] = o[i]
      /\ \A i \in 1..Len(b) : Joined(o, b)[Len(o) + i] = b[i]
  BY BytesAt
<1>2. /\ Joined(o, c) \in Seq(STRING) /\ Len(Joined(o, c)) = Len(o) + Len(c)
      /\ \A i \in 1..Len(o) : Joined(o, c)[i] = o[i]
      /\ \A i \in 1..Len(c) : Joined(o, c)[Len(o) + i] = c[i]
  BY BytesAt
<1>3. Len(o) \in Nat /\ Len(b) \in Nat /\ Len(c) = Len(b)
  BY DEF StarredFor
<1>4. ASSUME NEW k \in 1..Len(b), Hit(V, b, k)
      PROVE  Hit(V, Joined(o, b), Len(o) + k)
  <2>1. PICK v \in V, m \in 1..Len(b) : Occurs(v, m, b) /\ m <= k /\ k <= m + Len(v) - 1
    BY <1>4 DEF Hit
  <2>2. v \in Seq(STRING) /\ Len(v) >= 1 /\ Len(v) \in Nat /\ m \in Nat \ {0}
    BY DEF StarFree
  <2>3. PICK n \in 1..Len(Joined(o, b)) : n = m + Len(o)
    BY <1>1, <1>3, <2>2
  <2>4. Occurs(v, n, Joined(o, b))
    BY <2>1, <2>2, <2>3, OccursBehind
  <2>5. n <= Len(o) + k /\ Len(o) + k <= n + Len(v) - 1
    BY <1>3, <2>1, <2>2, <2>3
  <2> QED  BY <2>4, <2>5 DEF Hit
<1>5. ASSUME NEW k \in 1..Len(Joined(o, b))
      PROVE  \/ Joined(o, c)[k] = Joined(o, b)[k]
             \/ Joined(o, c)[k] = Star /\ Hit(V, Joined(o, b), k)
  <2>1. CASE k <= Len(o)
    <3>1. k \in 1..Len(o)
      BY <1>1, <1>3, <2>1
    <3> QED  BY <1>1, <1>2, <3>1
  <2>2. CASE ~(k <= Len(o))
    <3>1. PICK i \in 1..Len(b) : k = Len(o) + i
      <4>1. k - Len(o) \in 1..Len(b) /\ k = Len(o) + (k - Len(o))
        BY <1>1, <1>3, <2>2
      <4> QED  BY <4>1
    <3>2. c[i] = b[i] \/ (c[i] = Star /\ Hit(V, b, i))
      BY DEF StarredFor
    <3>3. Joined(o, c)[k] = c[i] /\ Joined(o, b)[k] = b[i]
      BY <1>1, <1>2, <1>3, <3>1
    <3> QED  BY <1>4, <3>1, <3>2, <3>3
  <2> QED  BY <2>1, <2>2
<1>6. Len(Joined(o, c)) = Len(Joined(o, b))
  BY <1>1, <1>2, <1>3
<1> QED  BY <1>5, <1>6 DEF StarredFor

\* What is starred stays so when the body goes on (scrubReader.Read's append).
LEMMA StarredBefore ==
  ASSUME NEW b \in Seq(STRING), NEW c \in Seq(STRING), NEW p \in Seq(STRING), NEW V, StarFree(V),
         StarredFor(c, b, V)
  PROVE  StarredFor(Joined(c, p), Joined(b, p), V)
<1>1. /\ Joined(b, p) \in Seq(STRING) /\ Len(Joined(b, p)) = Len(b) + Len(p)
      /\ \A i \in 1..Len(b) : Joined(b, p)[i] = b[i]
      /\ \A i \in 1..Len(p) : Joined(b, p)[Len(b) + i] = p[i]
  BY BytesAt
<1>2. /\ Joined(c, p) \in Seq(STRING) /\ Len(Joined(c, p)) = Len(c) + Len(p)
      /\ \A i \in 1..Len(c) : Joined(c, p)[i] = c[i]
      /\ \A i \in 1..Len(p) : Joined(c, p)[Len(c) + i] = p[i]
  BY BytesAt
<1>3. Len(p) \in Nat /\ Len(b) \in Nat /\ Len(c) = Len(b)
  BY DEF StarredFor
<1>4. ASSUME NEW k \in 1..Len(b), Hit(V, b, k)
      PROVE  Hit(V, Joined(b, p), k)
  <2>1. PICK v \in V, m \in 1..Len(b) : Occurs(v, m, b) /\ m <= k /\ k <= m + Len(v) - 1
    BY <1>4 DEF Hit
  <2>2. v \in Seq(STRING) /\ Len(v) >= 1 /\ Len(v) \in Nat /\ m \in Nat \ {0}
    BY DEF StarFree
  <2>3. m \in 1..Len(Joined(b, p))
    BY <1>1, <1>3
  <2>4. m + Len(v) - 1 <= Len(b)
    BY <2>1, <2>2, OccursIs
  <2>5. Occurs(v, m, Joined(b, p))
    BY <2>1, <2>2, <2>4, OccursBefore
  <2> QED  BY <2>1, <2>3, <2>5 DEF Hit
<1>5. ASSUME NEW k \in 1..Len(Joined(b, p))
      PROVE  \/ Joined(c, p)[k] = Joined(b, p)[k]
             \/ Joined(c, p)[k] = Star /\ Hit(V, Joined(b, p), k)
  <2>1. CASE k <= Len(b)
    <3>1. k \in 1..Len(b) /\ k \in 1..Len(c)
      BY <1>1, <1>3, <2>1
    <3>2. c[k] = b[k] \/ (c[k] = Star /\ Hit(V, b, k))
      BY <3>1 DEF StarredFor
    <3> QED  BY <1>1, <1>2, <1>4, <3>1, <3>2
  <2>2. CASE ~(k <= Len(b))
    <3>1. PICK i \in 1..Len(p) : k = Len(b) + i
      <4>1. k - Len(b) \in 1..Len(p) /\ k = Len(b) + (k - Len(b))
        BY <1>1, <1>3, <2>2
      <4> QED  BY <4>1
    <3> QED  BY <1>1, <1>2, <1>3, <3>1
  <2> QED  BY <2>1, <2>2
<1>6. Len(Joined(c, p)) = Len(Joined(b, p))
  BY <1>1, <1>2, <1>3
<1> QED  BY <1>5, <1>6 DEF StarredFor

\* What is handed on and what is kept are one list, wherever it is cut (scrubReader.Read).
LEMMA CutAgain ==
  ASSUME NEW o \in Seq(STRING), NEW c \in Seq(STRING), NEW k \in 1..Len(c)
  PROVE  /\ o \o SubSeq(c, 1, k) \in Seq(STRING) /\ Len(o \o SubSeq(c, 1, k)) = Len(o) + k
         /\ SubSeq(c, k + 1, Len(c)) \in Seq(STRING)
         /\ Len(SubSeq(c, k + 1, Len(c))) = Len(c) - k
         /\ Joined(o \o SubSeq(c, 1, k), SubSeq(c, k + 1, Len(c))) = Joined(o, c)
<1>1. Len(c) \in Nat /\ k \in Nat /\ k <= Len(c) /\ k >= 1 /\ Len(o) \in Nat
  OBVIOUS
<1>2. PICK x : x = SubSeq(c, 1, k)
  OBVIOUS
<1>3. x \in Seq(STRING) /\ Len(x) = k /\ \A i \in 1..k : x[i] = c[i]
  BY <1>1, <1>2
<1>4. PICK n \in Nat : n = k + 1
  BY <1>1
<1>5. PICK y : y = SubSeq(c, n, Len(c))
  OBVIOUS
<1>6. y \in Seq(STRING) /\ Len(y) = Len(c) - k /\ \A i \in 1..(Len(c) - k) : y[i] = c[k + i]
  <2>1. y \in Seq(STRING) /\ Len(y) = Len(c) - k
    BY <1>1, <1>4, <1>5
  <2>2. ASSUME NEW i \in 1..(Len(c) - k)
        PROVE  y[i] = c[k + i]
    <3>1. y[i] = c[n + i - 1]
      BY <1>1, <1>4, <1>5
    <3>2. n + i - 1 = k + i
      BY <1>1, <1>4
    <3> QED  BY <3>1, <3>2
  <2> QED  BY <2>1, <2>2
<1>7. Joined(x, y) = c
  <2>1. /\ Joined(x, y) \in Seq(STRING) /\ Len(Joined(x, y)) = Len(x) + Len(y)
        /\ \A i \in 1..Len(x) : Joined(x, y)[i] = x[i]
        /\ \A i \in 1..Len(y) : Joined(x, y)[Len(x) + i] = y[i]
    BY <1>3, <1>6, BytesAt
  <2>2. Len(Joined(x, y)) = Len(c)
    BY <1>1, <1>3, <1>6, <2>1
  <2>3. ASSUME NEW i \in 1..Len(c)
        PROVE  Joined(x, y)[i] = c[i]
    <3>1. CASE i <= k
      BY <1>1, <1>3, <2>1, <3>1
    <3>2. CASE ~(i <= k)
      <4>1. i - k \in 1..(Len(c) - k) /\ k + (i - k) = i
        BY <1>1, <3>2
      <4>2. PICK j \in 1..(Len(c) - k) : k + j = i
        BY <4>1
      <4> QED  BY <1>3, <1>6, <2>1, <4>2
    <3> QED  BY <3>1, <3>2
  <2>4. Joined(x, y) = [i \in 1..Len(Joined(x, y)) |-> Joined(x, y)[i]]
    BY <2>1
  <2>5. c = [i \in 1..Len(c) |-> c[i]]
    OBVIOUS
  <2> QED  BY <2>2, <2>3, <2>4, <2>5
<1>8. Joined(Joined(o, x), y) = Joined(o, c)
  BY <1>3, <1>6, <1>7, JoinedAssoc
<1>9. Joined(o, x) = o \o x
  BY DEF Joined
<1>10. Joined(o, x) \in Seq(STRING) /\ Len(Joined(o, x)) = Len(o) + k
  BY <1>3, BytesAt
<1> QED  BY <1>2, <1>3, <1>4, <1>5, <1>6, <1>8, <1>9, <1>10

\* A delivery after t turns: what was read, what is held back and what was handed on.  Of
\* the body as far as it has been read only values are starred; none begins in what was
\* handed on, even if it ends in what is held back; more is held back than a value can
\* have begun in, until the end; and every turn had something to do.
Passed(f, N, V, hold, t, read, buf, out) ==
    /\ read \in 0..N
    /\ StarredFor(Joined(out, buf), f[read], V)
    /\ \A v \in V, k \in 1..Len(out) : ~Occurs(v, k, Joined(out, buf))
    /\ Len(out) >= 1 => Len(buf) >= hold \/ read = N
    /\ t <= read + Len(out) \/ (read = N /\ buf = <<>>)

\* A turn that hands on (scrubReader.Read).
LEMMA HandsOn ==
  ASSUME NEW f, NEW N \in Nat, NEW V, StarFree(V), NEW hold \in Nat, NEW t \in Nat, NEW read \in 0..N,
         f[read] \in Seq(STRING),
         NEW buf \in Seq(STRING), NEW out \in Seq(STRING), Passed(f, N, V, hold, t, read, buf, out),
         NEW c \in Seq(STRING), StarredFor(c, buf, V), Clear(c, V),
         NEW k \in 1..Len(buf), Len(buf) - k >= hold \/ read = N
  PROVE  Passed(f, N, V, hold, t + 1, read, SubSeq(c, k + 1, Len(c)), out \o SubSeq(c, 1, k))
<1>1. Len(c) = Len(buf) /\ Len(buf) \in Nat /\ k \in Nat /\ k >= 1 /\ Len(out) \in Nat /\ k \in 1..Len(c)
  BY DEF StarredFor
<1>2. PICK out2, buf2 : out2 = out \o SubSeq(c, 1, k) /\ buf2 = SubSeq(c, k + 1, Len(c))
  OBVIOUS
<1>3. /\ out2 \in Seq(STRING) /\ Len(out2) = Len(out) + k
      /\ buf2 \in Seq(STRING) /\ Len(buf2) = Len(buf) - k
      /\ Joined(out2, buf2) = Joined(out, c)
  BY <1>1, <1>2, CutAgain
<1>4. PICK a \in Seq(STRING) : a = Joined(out, buf)
  BY BytesAt
<1>5. PICK a2 \in Seq(STRING) : a2 = Joined(out, c)
  BY BytesAt
<1>6. StarredFor(a2, a, V)
  BY <1>4, <1>5, StarredBehind
<1>7. StarredFor(a, f[read], V) /\ \A v \in V, m \in 1..Len(out) : ~Occurs(v, m, a)
  BY <1>4 DEF Passed
<1>8. StarredFor(a2, f[read], V)
  BY <1>6, <1>7, StarredTwice
<1>9. ASSUME NEW v \in V, NEW m \in 1..Len(out2), Occurs(v, m, a2)
      PROVE  FALSE
  <2>1. m \in Nat \ {0} /\ v \in Seq(STRING) /\ Len(v) >= 1
    BY <1>1, <1>3 DEF StarFree
  <2>2. CASE m <= Len(out)
    <3>1. m \in 1..Len(out)
      BY <1>1, <2>1, <2>2
    <3>2. Occurs(v, m, a)
      BY <1>6, <1>9, <2>1, MaskKeeps, StarredMasks
    <3> QED  BY <1>7, <3>1, <3>2
  <2>3. CASE ~(m <= Len(out))
    <3>1. PICK i \in 1..Len(c) : m = i + Len(out)
      <4>1. m <= Len(out) + k /\ m \in Nat
        BY <1>1, <1>3
      <4>2. PICK x \in Nat : x = Len(out)
        BY <1>1
      <4>5. PICK y \in Nat : y = Len(c) /\ k <= y
        BY <1>1
      <4>6. m <= x + k /\ ~(m <= x)
        BY <2>3, <4>1, <4>2
      <4>3. m - x \in 1..Len(c) /\ m = (m - x) + x
        BY <1>1, <4>1, <4>5, <4>6
      <4> QED  BY <4>2, <4>3
    <3>2. Occurs(v, i, c)
      BY <1>5, <1>9, <2>1, <3>1, OccursBehind
    <3> QED  BY <3>2 DEF Clear
  <2> QED  BY <2>2, <2>3
<1>10. Len(buf2) >= hold \/ read = N
  BY <1>3
<1>11. t + 1 <= read + Len(out2)
  <2>1. t <= read + Len(out)
    <3>1. buf # <<>>
      BY <1>1
    <3> QED  BY <3>1 DEF Passed
  <2> QED  BY <1>1, <1>3, <2>1
<1>12. \A v \in V, m \in 1..Len(out2) : ~Occurs(v, m, Joined(out2, buf2))
  BY <1>3, <1>5, <1>9
<1>13. StarredFor(Joined(out2, buf2), f[read], V)
  BY <1>3, <1>5, <1>8
<1> QED  BY <1>2, <1>10, <1>11, <1>12, <1>13 DEF Passed

\* A turn that takes a piece (scrubReader.Read).
LEMMA TakesOn ==
  ASSUME NEW f, NEW N \in Nat, NEW V, StarFree(V), NEW hold \in Nat, NEW t \in Nat, NEW read \in 0..N,
         f[read] \in Seq(STRING), read # N,
         \A v \in V : Len(v) <= hold + 1,
         NEW buf \in Seq(STRING), NEW out \in Seq(STRING), Passed(f, N, V, hold, t, read, buf, out),
         NEW p \in Seq(STRING), f[read + 1] = Joined(f[read], p)
  PROVE  Passed(f, N, V, hold, t + 1, read + 1, Joined(buf, p), out)
<1>1. Len(buf) \in Nat /\ Len(out) \in Nat /\ Len(p) \in Nat /\ read + 1 \in 0..N
  OBVIOUS
<1>2. PICK a \in Seq(STRING) : a = Joined(out, buf)
  BY BytesAt
<1>3. PICK buf2 \in Seq(STRING) : buf2 = Joined(buf, p) /\ Len(buf2) = Len(buf) + Len(p)
  BY BytesAt
<1>4. Len(a) = Len(out) + Len(buf) /\ Joined(out, buf2) = Joined(a, p)
  <2>1. Len(a) = Len(out) + Len(buf)
    BY <1>2, BytesAt
  <2>2. Joined(Joined(out, buf), p) = Joined(out, Joined(buf, p))
    BY JoinedAssoc
  <2> QED  BY <1>2, <1>3, <2>1, <2>2
<1>5. StarredFor(a, f[read], V) /\ \A v \in V, m \in 1..Len(out) : ~Occurs(v, m, a)
  BY <1>2 DEF Passed
<1>6. StarredFor(Joined(out, buf2), f[read + 1], V)
  BY <1>4, <1>5, StarredBefore
<1>7. Len(out) >= 1 => Len(buf) >= hold
  BY DEF Passed
<1>8. ASSUME NEW v \in V, NEW m \in 1..Len(out), Occurs(v, m, Joined(out, buf2))
      PROVE  FALSE
  <2>1. m \in Nat \ {0} /\ v \in Seq(STRING) /\ Len(v) >= 1 /\ Len(v) \in Nat
    <3>1. m \in Nat \ {0}
      BY <1>1
    <3>2. v \in Seq(STRING) /\ Len(v) >= 1
      BY DEF StarFree
    <3> QED  BY <3>1, <3>2
  <2>2. m + Len(v) - 1 <= Len(a)
    <3>1. Len(v) <= hold + 1 /\ Len(buf) >= hold /\ m <= Len(out)
      BY <1>1, <1>7
    <3> QED  BY <1>1, <1>4, <2>1, <3>1
  <2>3. Occurs(v, m, a)
    BY <1>4, <1>8, <2>1, <2>2, OccursBefore
  <2> QED  BY <1>5, <2>3
<1>9. Len(out) >= 1 => Len(buf2) >= hold
  BY <1>1, <1>3, <1>7
<1>10. t + 1 <= (read + 1) + Len(out)
  <2>1. t <= read + Len(out)
    BY DEF Passed
  <2> QED  BY <1>1, <2>1
<1> QED  BY <1>1, <1>3, <1>6, <1>8, <1>9, <1>10 DEF Passed

\* A turn of the delivery, whichever it is (scrubReader.Read).
LEMMA ReadOnIs ==
  ASSUME NEW pieces \in Seq(Seq(STRING)), NEW pats \in Seq(Seq(STRING)), StarFree(Range(pats)),
         NEW n \in Nat \ {0}, NEW f, Bodies(pieces, f), NEW d \in Deliveries, NEW t \in Nat,
         Hold(pats) \in Nat,
         Passed(f, Len(pieces), Range(pats), Hold(pats), t, d.read, d.buf, d.out)
  PROVE  \E e \in Deliveries :
            /\ ReadOn(pats, pieces, n, d) = e
            /\ Passed(f, Len(pieces), Range(pats), Hold(pats), t + 1, e.read, e.buf, e.out)
<1>v. PICK V : V = Range(pats)
  OBVIOUS
<1>N. PICK N \in Nat : N = Len(pieces)
  OBVIOUS
<1>H. PICK H \in Nat : H = Hold(pats)
  OBVIOUS
<1>1. PICK read \in Nat, buf \in Seq(STRING), out \in Seq(STRING) :
          read = d.read /\ buf = d.buf /\ out = d.out
  BY DEF Deliveries
<1>2. Passed(f, N, V, H, t, read, buf, out) /\ read \in 0..N /\ StarFree(V)
  BY <1>v, <1>N, <1>H, <1>1 DEF Passed
<1>3. f[read] \in Seq(STRING)
  BY <1>2, <1>N DEF Bodies
<1>4. PICK hold \in Nat : hold = (IF read = N THEN 0 ELSE H)
  OBVIOUS
<1>5. PICK c \in Seq(STRING) : c = scrub(pats, buf) /\ StarredFor(c, buf, V) /\ Clear(c, V)
  BY <1>v, ScrubIs
<1>6. Len(buf) \in Nat /\ n >= 1 /\ n \in Nat
  OBVIOUS
<1>7. CASE Len(buf) > hold
  <2>1. PICK k \in 1..Len(buf) : k = IF Len(buf) - hold < n THEN Len(buf) - hold ELSE n
    <3>1. (IF Len(buf) - hold < n THEN Len(buf) - hold ELSE n) \in 1..Len(buf)
      BY <1>6, <1>7
    <3> QED  BY <3>1
  <2>2. Len(buf) - k >= H \/ read = N
    BY <1>4, <1>6, <2>1
  <2>3. Passed(f, N, V, H, t + 1, read, SubSeq(c, k + 1, Len(c)), out \o SubSeq(c, 1, k))
    BY <1>2, <1>3, <1>5, <2>2, HandsOn
  <2>4. k \in 1..Len(c)
    BY <1>5 DEF StarredFor
  <2>5. PICK buf2 \in Seq(STRING), out2 \in Seq(STRING) :
            buf2 = SubSeq(c, k + 1, Len(c)) /\ out2 = out \o SubSeq(c, 1, k)
    BY <2>4, CutAgain
  <2>6. PICK e \in Deliveries : e = [read |-> read, buf |-> buf2, out |-> out2]
    BY DEF Deliveries
  <2>7. ReadOn(pats, pieces, n, d) = e
    BY <1>1, <1>N, <1>H, <1>4, <1>5, <1>7, <2>1, <2>5, <2>6 DEF ReadOn
  <2>8. Passed(f, N, V, H, t + 1, e.read, e.buf, e.out)
    BY <2>3, <2>5, <2>6
  <2> QED  BY <1>v, <1>N, <1>H, <2>7, <2>8
<1>8. CASE ~(Len(buf) > hold) /\ read = N
  <2>1. ReadOn(pats, pieces, n, d) = d
    BY <1>1, <1>N, <1>4, <1>8 DEF ReadOn
  <2>2. buf = <<>>
    <3>1. Len(buf) = 0
      BY <1>4, <1>6, <1>8
    <3> QED  BY <3>1
  <2>3. Passed(f, N, V, H, t + 1, read, buf, out)
    BY <1>2, <1>8, <2>2 DEF Passed
  <2> QED  BY <1>v, <1>N, <1>H, <1>1, <2>1, <2>3
<1>9. CASE ~(Len(buf) > hold) /\ read # N
  <2>1. PICK r \in Nat : r = read + 1
    <3>1. read + 1 \in Nat
      OBVIOUS
    <3> QED  BY <3>1
  <2>2. r \in 1..Len(pieces) /\ r - 1 = read
    BY <1>2, <1>N, <1>9, <2>1
  <2>3. PICK p \in Seq(STRING) : p = pieces[r]
    BY <2>2
  <2>4. f[r] = Joined(f[read], p)
    BY <2>2, <2>3 DEF Bodies
  <2>5. \A v \in V : Len(v) <= H + 1
    <3> TAKE v \in V
    <3>1. PICK i \in 1..Len(pats) : v = pats[i]
      BY <1>v DEF Range
    <3>2. Len(pats[i]) <= MaxLen(pats) /\ MaxLen(pats) \in Nat
      BY MaxLenIs
    <3>3. H + 1 = MaxLen(pats)
      <4>1. PICK M \in Nat : M = MaxLen(pats)
        BY <3>2
      <4>2. H = M - 1
        BY <1>H, <4>1 DEF Hold
      <4> QED  BY <4>1, <4>2
    <3> QED  BY <3>1, <3>2, <3>3
  <2>6. PICK buf2 \in Seq(STRING) : buf2 = Joined(buf, p)
    BY BytesAt
  <2>7. Passed(f, N, V, H, t + 1, r, buf2, out)
    BY <1>2, <1>3, <1>9, <2>1, <2>4, <2>5, <2>6, TakesOn
  <2>8. PICK e \in Deliveries : e = [read |-> r, buf |-> buf2, out |-> out]
    BY DEF Deliveries
  <2>9. ReadOn(pats, pieces, n, d) = e
    <3>1. buf2 = buf \o p
      BY <2>6 DEF Joined
    <3> QED  BY <1>1, <1>N, <1>H, <1>4, <1>9, <2>1, <2>3, <2>8, <3>1 DEF ReadOn
  <2>10. Passed(f, N, V, H, t + 1, e.read, e.buf, e.out)
    BY <2>7, <2>8
  <2> QED  BY <1>v, <1>N, <1>H, <2>9, <2>10
<1> QED  BY <1>7, <1>8, <1>9

\* Whoever reads to the end has the whole body, starred (scrubReader, read until EOF).
LEMMA DeliveryIs ==
  ASSUME NEW pieces \in Seq(Seq(STRING)), NEW pats \in Seq(Seq(STRING)), StarFree(Range(pats)),
         NEW n \in Nat \ {0}, Hold(pats) \in Nat
  PROVE  /\ ReadAll(pats, pieces, n) \in Seq(STRING)
         /\ StarredFor(ReadAll(pats, pieces, n), Concat(pieces), Range(pats))
         /\ Clear(ReadAll(pats, pieces, n), Range(pats))
<1>f. PICK f : Bodies(pieces, f)
  BY BodiesAre
<1>v. PICK V : V = Range(pats)
  OBVIOUS
<1>N. PICK N \in Nat : N = Len(pieces)
  OBVIOUS
<1>H. PICK H \in Nat : H = Hold(pats)
  OBVIOUS
<1>1. Concat(pieces) = f[N] /\ f[N] \in Seq(STRING) /\ Len(f[N]) \in Nat
  <2>1. N \in 0..N
    OBVIOUS
  <2> QED  BY <1>f, <1>N, <2>1 DEF Bodies
<1>T. PICK T \in Nat : T = N + Len(f[N])
  <2>1. N + Len(f[N]) \in Nat
    BY <1>1
  <2> QED  BY <2>1
<1>t. PICK turn : turn = [t \in 1..T |-> [d \in Deliveries |-> ReadOn(pats, pieces, n, d)]]
  OBVIOUS
<1>s. PICK start : start = [read |-> 0, buf |-> <<>>, out |-> <<>>]
  OBVIOUS
<1> DEFINE Good(t, d) == Passed(f, N, V, H, t, d.read, d.buf, d.out)
<1>i. PICK I : I = {p \in (0..T) \X Deliveries : Good(p[1], p[2])}
  OBVIOUS
<1>g. \A t, d : Good(t, d) <=> Passed(f, N, V, H, t, d.read, d.buf, d.out)
  OBVIOUS
<1> HIDE DEF Good
<1>j. \A t \in 0..T, d \in Deliveries : Good(t, d) => <<t, d>> \in I
  <2> TAKE t \in 0..T, d \in Deliveries
  <2>1. <<t, d>> \in (0..T) \X Deliveries /\ <<t, d>>[1] = t /\ <<t, d>>[2] = d
    OBVIOUS
  <2> QED  BY <1>i, <2>1
<1>k. \A t, d : <<t, d>> \in I => t \in 0..T /\ d \in Deliveries /\ Good(t, d)
  <2> TAKE t, d
  <2>1. <<t, d>>[1] = t /\ <<t, d>>[2] = d
    OBVIOUS
  <2> QED  BY <1>i, <2>1
<1>2. <<0, start>> \in I
  <2>1. start \in Deliveries /\ start.read = 0 /\ start.buf = <<>> /\ start.out = <<>>
    BY <1>s DEF Deliveries
  <2>2. f[0] = <<>> /\ Joined(<<>>, <<>>) = <<>>
    BY <1>f DEF Bodies, Joined
  <2>3. Passed(f, N, V, H, 0, 0, <<>>, <<>>)
    BY <2>2 DEF Passed, StarredFor
  <2> QED  BY <1>g, <1>j, <2>1, <2>3
<1>3. ASSUME NEW t \in 1..T, NEW d, <<t - 1, d>> \in I
      PROVE  <<t, turn[t][d]>> \in I
  <2>1. d \in Deliveries /\ Good(t - 1, d) /\ t \in 0..T
    BY <1>3, <1>k
  <2>2. PICK s \in Nat : s = t - 1 /\ s + 1 = t
    <3>1. t - 1 \in Nat /\ (t - 1) + 1 = t
      OBVIOUS
    <3> QED  BY <3>1
  <2>3. turn[t][d] = ReadOn(pats, pieces, n, d)
    BY <1>t, <2>1
  <2>4. Passed(f, Len(pieces), Range(pats), Hold(pats), s, d.read, d.buf, d.out)
    BY <1>g, <1>v, <1>N, <1>H, <2>1, <2>2
  <2>5. PICK e \in Deliveries :
            /\ ReadOn(pats, pieces, n, d) = e
            /\ Passed(f, Len(pieces), Range(pats), Hold(pats), s + 1, e.read, e.buf, e.out)
    BY <1>f, <2>1, <2>4, ReadOnIs
  <2>6. Good(t, e)
    BY <1>g, <1>v, <1>N, <1>H, <2>2, <2>5
  <2> QED  BY <1>j, <2>1, <2>3, <2>5, <2>6
<1>4. PICK end : end = Looped(turn, start, T)
  OBVIOUS
<1>5. <<T, end>> \in I
  <2>1. \A t \in 1..T : \A d : <<t - 1, d>> \in I => <<t, turn[t][d]>> \in I
    BY <1>3
  <2> QED  BY <1>2, <1>4, <2>1, LoopKeeps
<1>6. end \in Deliveries /\ Passed(f, N, V, H, T, end.read, end.buf, end.out)
  BY <1>5, <1>k, <1>g
<1>7. ReadAll(pats, pieces, n) = end.out
  BY <1>N, <1>1, <1>T, <1>t, <1>s, <1>4 DEF ReadAll
<1>8. PICK read \in Nat, buf \in Seq(STRING), out \in Seq(STRING) :
          read = end.read /\ buf = end.buf /\ out = end.out
  BY <1>6 DEF Deliveries
<1>9. Passed(f, N, V, H, T, read, buf, out) /\ read \in 0..N
  BY <1>6, <1>8 DEF Passed
<1>10. read = N /\ buf = <<>>
  <2>1. CASE read = N /\ buf = <<>>
    BY <2>1
  <2>2. CASE T <= read + Len(out)
    <3>1. Len(f[read]) <= Len(f[N]) /\ Len(f[read]) \in Nat
      <4>1. Len(f[read]) <= Len(f[N])
        BY <1>f, <1>9, <1>N, BodiesGrow
      <4>2. f[read] \in Seq(STRING)
        BY <1>f, <1>9, <1>N DEF Bodies
      <4> QED  BY <4>1, <4>2
    <3>2. Len(out) + Len(buf) = Len(f[read])
      <4>1. Len(Joined(out, buf)) = Len(f[read])
        BY <1>9 DEF Passed, StarredFor
      <4> QED  BY <4>1, BytesAt
    <3>3. PICK x \in Nat, y \in Nat, z \in Nat, w \in Nat :
              x = Len(out) /\ y = Len(buf) /\ z = Len(f[read]) /\ w = Len(f[N])
      BY <1>1, <3>1
    <3>4. N + w <= read + x /\ x + y = z /\ z <= w /\ read <= N
      BY <1>T, <1>9, <2>2, <3>1, <3>2, <3>3
    <3>5. read = N /\ y = 0
      BY <3>4
    <3>6. Len(buf) = 0
      BY <3>3, <3>5
    <3>7. buf = <<>>
      BY <3>6
    <3> QED  BY <3>5, <3>7
  <2> QED  BY <1>9, <2>1, <2>2 DEF Passed
<1>11. Joined(out, buf) = out
  BY <1>10, JoinedEmpty
<1>12. StarredFor(out, f[N], V) /\ \A v \in V, k \in 1..Len(out) : ~Occurs(v, k, out)
  BY <1>9, <1>10, <1>11 DEF Passed
<1> QED  BY <1>1, <1>7, <1>8, <1>12, <1>v DEF Clear

\* The values worth matching are values, and none is empty (newScrubber).
LEMMA PatternsAre ==
  ASSUME NEW values \in Seq(Seq(STRING \ {Star}))
  PROVE  Patterns(values) \in Seq(Seq(STRING)) /\ StarFree(Range(Patterns(values)))
<1>1. PICK T : T = {v \in Range(values) : Len(v) >= minScrub}
  OBVIOUS
<1>2. PICK pats : pats = Kept(values, T)
  OBVIOUS
<1>3. pats \in Seq(Seq(STRING \ {Star})) /\ Range(pats) = Range(values) \cap T
  BY <1>2, KeptSound
<1>4. Patterns(values) = pats
  BY <1>1, <1>2 DEF Patterns
<1>5. \A v \in Seq(STRING \ {Star}) : v \in Seq(STRING) /\ \A j \in 1..Len(v) : v[j] # Star
  OBVIOUS
<1>6. pats \in Seq(Seq(STRING))
  <2>1. \A i \in 1..Len(pats) : pats[i] \in Seq(STRING)
    BY <1>3, <1>5
  <2>2. Len(pats) \in Nat /\ pats = [i \in 1..Len(pats) |-> pats[i]]
    BY <1>3
  <2>3. [i \in 1..Len(pats) |-> pats[i]] \in Seq(Seq(STRING))
    BY <2>1, <2>2
  <2> QED  BY <2>2, <2>3
<1>7. ASSUME NEW v \in Range(pats)
      PROVE  v \in Seq(STRING) /\ Len(v) >= 1 /\ \A j \in 1..Len(v) : v[j] # Star
  <2>1. v \in Seq(STRING \ {Star})
    BY <1>3 DEF Range
  <2>2. Len(v) >= minScrub /\ Len(v) \in Nat
    BY <1>1, <1>3, <2>1
  <2>3. Len(v) >= 1
    BY <2>2, CredentialsAssumption
  <2>4. v \in Seq(STRING) /\ \A j \in 1..Len(v) : v[j] # Star
    BY <1>5, <2>1
  <2> QED  BY <2>3, <2>4
<1> QED  BY <1>4, <1>6, <1>7 DEF StarFree

\* A credential does not come back, however the body is cut and whoever reads it
\* (scrub, scrubReader).
LEMMA EchoHolds ==
  ASSUME NEW values \in Seq(Seq(STRING \ {Star})), NEW pieces \in Seq(Seq(STRING)), NEW n \in Nat \ {0}
  PROVE  EchoSuppressed(values, pieces, n)
<1>1. PICK pats \in Seq(Seq(STRING)) : pats = Patterns(values) /\ StarFree(Range(pats))
  BY PatternsAre
<1>2. PICK body \in Seq(STRING) : body = Concat(pieces)
  <2>1. PICK f : Bodies(pieces, f)
    BY BodiesAre
  <2>2. Len(pieces) \in 0..Len(pieces)
    OBVIOUS
  <2> QED  BY <2>1, <2>2 DEF Bodies
<1>3. PICK out : out = Deliver(values, pieces, n)
  OBVIOUS
<1>4. out \in Seq(STRING) /\ StarredFor(out, body, Range(pats)) /\ Clear(out, Range(pats))
  <2>1. CASE pats = <<>>
    <3>1. out = body
      BY <1>1, <1>2, <1>3, <2>1 DEF Deliver
    <3>2. Range(pats) = {}
      BY <2>1 DEF Range
    <3> QED  BY <3>1, <3>2 DEF StarredFor, Clear
  <2>2. CASE pats # <<>>
    <3>1. out = ReadAll(pats, pieces, n)
      BY <1>1, <1>3, <2>2 DEF Deliver
    <3>2. Hold(pats) \in Nat
      <4>1. 1 \in 1..Len(pats)
        BY <2>2
      <4>2. pats[1] \in Seq(STRING) /\ Len(pats[1]) >= 1 /\ Len(pats[1]) \in Nat
        BY <1>1, <4>1 DEF StarFree, Range
      <4>3. PICK M \in Nat : M = MaxLen(pats) /\ Len(pats[1]) <= M
        BY <4>1, MaxLenIs
      <4> QED  BY <4>2, <4>3 DEF Hold
    <3> QED  BY <1>1, <1>2, <3>1, <3>2, DeliveryIs
  <2> QED  BY <2>1, <2>2
<1>5. Len(out) = Len(body) /\ DOMAIN out = 1..Len(out) /\ DOMAIN body = 1..Len(body)
  BY <1>4 DEF StarredFor
<1>6. DOMAIN pats = 1..Len(pats) /\ \A i \in DOMAIN pats : pats[i] \in Range(pats)
  BY DEF Range
<1>7. \A i \in DOMAIN pats, k \in DOMAIN out : ~Occurs(pats[i], k, out)
  BY <1>4, <1>5, <1>6 DEF Clear
<1>8. ASSUME NEW k \in DOMAIN body, out[k] # body[k]
      PROVE  out[k] = Star /\ \E i \in DOMAIN pats, m \in DOMAIN body :
                                 Occurs(pats[i], m, body) /\ k \in m..(m + Len(pats[i]) - 1)
  <2>1. out[k] = Star /\ Hit(Range(pats), body, k)
    BY <1>4, <1>5, <1>8 DEF StarredFor
  <2>2. PICK v \in Range(pats), m \in 1..Len(body) : Occurs(v, m, body) /\ m <= k /\ k <= m + Len(v) - 1
    BY <2>1 DEF Hit
  <2>3. PICK i \in DOMAIN pats : v = pats[i]
    BY DEF Range
  <2>4. Len(pats[i]) \in Nat /\ k \in Nat /\ m \in Nat
    BY <1>5, <1>6
  <2>5. k \in m..(m + Len(pats[i]) - 1)
    BY <2>2, <2>3, <2>4
  <2> QED  BY <1>5, <2>1, <2>2, <2>3, <2>5
<1> QED  BY <1>1, <1>2, <1>3, <1>5, <1>7, <1>8 DEF EchoSuppressed

\* A path without odd segments is read as it is (literalAndNormal's list of bytes).
LEMMA ReadLiterally ==
  ASSUME NEW path \in Seq(STRING), Range(path) \cap Odd = {}
  PROVE  Concat([i \in 1..Len(path) |-> ReadAs(path[i])]) = path
<1>l. PICK lists : lists = [i \in 1..Len(path) |-> ReadAs(path[i])]
  OBVIOUS
<1>1. Len(path) \in Nat /\ \A i \in 1..Len(path) : path[i] \in STRING /\ path[i] \in Range(path)
  BY DEF Range
<1>2. lists \in Seq(Seq(STRING)) /\ Len(lists) = Len(path)
      /\ \A i \in 1..Len(path) : lists[i] = <<path[i]>>
  <2>1. \A i \in 1..Len(path) : ReadAs(path[i]) = <<path[i]>>
    BY <1>1 DEF ReadAs
  <2>2. \A i \in 1..Len(path) : <<path[i]>> \in Seq(STRING)
    BY <1>1
  <2>3. lists = [i \in 1..Len(path) |-> <<path[i]>>]
    BY <1>l, <2>1
  <2> QED  BY <1>1, <2>2, <2>3
<1>N. PICK N \in Nat : N = Len(path)
  BY <1>1
<1>t. PICK turn : turn = [i \in 1..Len(lists) |-> [out \in Seq(STRING) |-> out \o lists[i]]]
  OBVIOUS
<1> DEFINE Same(n, out) == Len(out) = n /\ \A i \in 1..n : out[i] = path[i]
<1>i. PICK I : I = {p \in (0..N) \X Seq(STRING) : Same(p[1], p[2])}
  OBVIOUS
<1>s. \A n, out : Same(n, out) <=> Len(out) = n /\ \A i \in 1..n : out[i] = path[i]
  OBVIOUS
<1> HIDE DEF Same
<1>j. \A n \in 0..N, out \in Seq(STRING) : Same(n, out) => <<n, out>> \in I
  <2> TAKE n \in 0..N, out \in Seq(STRING)
  <2>1. <<n, out>> \in (0..N) \X Seq(STRING) /\ <<n, out>>[1] = n /\ <<n, out>>[2] = out
    OBVIOUS
  <2> QED  BY <1>i, <2>1
<1>k. \A n, out : <<n, out>> \in I => n \in 0..N /\ out \in Seq(STRING) /\ Same(n, out)
  <2> TAKE n, out
  <2>1. <<n, out>>[1] = n /\ <<n, out>>[2] = out
    OBVIOUS
  <2> QED  BY <1>i, <2>1
<1>3. <<0, <<>>>> \in I
  <2>1. Same(0, <<>>) /\ <<>> \in Seq(STRING) /\ 0 \in 0..N
    BY <1>s
  <2> QED  BY <1>j, <2>1
<1>4. ASSUME NEW n \in 1..N, NEW out, <<n - 1, out>> \in I
      PROVE  <<n, turn[n][out]>> \in I
  <2>1. out \in Seq(STRING) /\ Same(n - 1, out) /\ n \in 0..N
    BY <1>4, <1>k
  <2>2. PICK e \in STRING : e = path[n]
    BY <1>1, <1>N
  <2>3. turn[n][out] = out \o <<e>>
    BY <1>t, <1>N, <1>2, <2>1, <2>2
  <2>4. PICK w : w = out \o <<e>>
    OBVIOUS
  <2>5. Len(out) = n - 1 /\ \A i \in 1..(n - 1) : out[i] = path[i]
    BY <1>s, <2>1
  <2>a. PICK l : l = <<e>>
    OBVIOUS
  <2>b. l \in Seq(STRING) /\ Len(l) = 1 /\ l[1] = e
    BY <2>2, <2>a
  <2>c. /\ Joined(out, l) \in Seq(STRING) /\ Len(Joined(out, l)) = Len(out) + Len(l)
        /\ \A i \in 1..Len(out) : Joined(out, l)[i] = out[i]
        /\ \A i \in 1..Len(l) : Joined(out, l)[Len(out) + i] = l[i]
    BY <2>1, <2>b, BytesAt
  <2>d. w = Joined(out, l) /\ Len(out) + 1 = n
    BY <2>4, <2>5, <2>a DEF Joined
  <2>6. w \in Seq(STRING) /\ Len(w) = n /\ \A i \in 1..(n - 1) : w[i] = out[i]
    BY <2>5, <2>b, <2>c, <2>d
  <2>7. w[n] = e
    <3>1. Joined(out, l)[Len(out) + 1] = l[1]
      <4>1. 1 \in 1..Len(l)
        BY <2>b
      <4> QED  BY <2>c, <4>1
    <3> QED  BY <2>b, <2>d, <3>1
  <2>8. \A i \in 1..n : w[i] = path[i]
    <3> TAKE i \in 1..n
    <3>1. i = n \/ i \in 1..(n - 1)
      OBVIOUS
    <3> QED  BY <2>2, <2>5, <2>6, <2>7, <3>1
  <2>9. Same(n, w)
    BY <1>s, <2>6, <2>8
  <2> QED  BY <1>j, <2>1, <2>3, <2>4, <2>6, <2>9
<1>5. PICK end : end = Looped(turn, <<>>, N)
  OBVIOUS
<1>6. <<N, end>> \in I
  <2>1. \A n \in 1..N : \A out : <<n - 1, out>> \in I => <<n, turn[n][out]>> \in I
    BY <1>4
  <2> QED  BY <1>3, <1>5, <2>1, LoopKeeps
<1>7. end \in Seq(STRING) /\ Len(end) = N /\ \A i \in 1..N : end[i] = path[i]
  BY <1>6, <1>k, <1>s
<1>8. Concat(lists) = end
  BY <1>t, <1>5, <1>2, <1>N DEF Concat
<1>9. end = [i \in 1..N |-> end[i]] /\ path = [i \in 1..N |-> path[i]]
  BY <1>7, <1>N
<1> QED  BY <1>l, <1>7, <1>8, <1>9

\* A request beneath a path is routed beneath it (canonicalScopePath, literalAndNormal, covers).
LEMMA ScopeIsHeld ==
  ASSUME NEW scope \in Seq(STRING), NEW path \in Seq(STRING)
  PROVE  ScopeHolds(scope, path)
<1> SUFFICES ASSUME scope # <<>>, covers(scope, path), NEW r \in Routes(path)
             PROVE  IF Last(scope) = NoName THEN IsPrefix(Front(scope), r) ELSE r = scope
  BY DEF ScopeHolds
<1>1. canonicalScopePath(scope) /\ literalAndNormal(path) /\ covered(scope, path)
  BY DEF covers
<1>2. PICK c : c = Clean(path)
  OBVIOUS
<1>3. PICK s : s = Clean(scope)
  OBVIOUS
<1>4. c \in Seq(PlainNames) /\ s \in Seq(PlainNames)
  BY <1>2, <1>3, CleanIs
<1>5. /\ c \in Seq(STRING) /\ \A i \in 1..Len(c) : c[i] # NoName
      /\ s \in Seq(STRING) /\ \A i \in 1..Len(s) : s[i] # NoName
  BY <1>4 DEF PlainNames
<1>6. r = c
  <2>1. Range(path) \cap Odd = {}
    BY <1>1 DEF literalAndNormal
  <2> QED  BY <1>2, <2>1, ReadLiterally DEF Routes
<1>7. path \in IF c = <<>> THEN {<<NoName>>, <<NoName, NoName>>} ELSE {c, Append(c, NoName)}
  BY <1>1, <1>2 DEF literalAndNormal
<1>8. scope = (IF s = <<>> THEN <<NoName>> ELSE s) \/ (s # <<>> /\ scope = Append(s, NoName))
  BY <1>1, <1>3 DEF canonicalScopePath
<1>9. CASE s = <<>>
  <2>1. scope = <<NoName>>
    BY <1>8, <1>9
  <2>2. Last(scope) = NoName /\ Front(scope) = <<>>
    BY <2>1 DEF Last, Front
  <2>3. IsPrefix(<<>>, c)
    <3>a. PICK e : e = <<>>
      OBVIOUS
    <3>1. e \in Seq(STRING) /\ e = <<>> /\ Len(e) = 0 /\ Len(e) <= Len(c)
      BY <1>5, <3>a
    <3>2. \A i \in 1..Len(e) : e[i] = c[i]
      BY <3>1
    <3> QED  BY <1>5, <3>1, <3>2, PrefixIs
  <2> QED  BY <1>6, <2>2, <2>3
<1>10. CASE s # <<>> /\ scope = s
  <2>1. Last(scope) # NoName
    <3>1. Len(s) \in 1..Len(s)
      BY <1>5, <1>10
    <3> QED  BY <1>5, <1>10, <3>1 DEF Last
  <2>2. path = scope
    BY <1>1, <2>1 DEF covered
  <2>3. c = s
    BY <1>2, <1>3, <2>2
  <2> QED  BY <1>6, <1>10, <2>1, <2>3
<1>11. CASE s # <<>> /\ scope = Append(s, NoName)
  <2>0. Len(s) \in Nat /\ Len(s) >= 1 /\ Len(c) \in Nat /\ 1 \in 1..Len(s)
    BY <1>5, <1>11
  <2>1. Len(scope) = Len(s) + 1 /\ scope[Len(s) + 1] = NoName /\ \A i \in 1..Len(s) : scope[i] = s[i]
    BY <1>5, <1>11
  <2>2. Last(scope) = NoName
    BY <2>0, <2>1 DEF Last
  <2>3. Front(scope) = s
    <3>1. Front(scope) = [i \in 1..(Len(scope) - 1) |-> scope[i]]
      BY <2>0, <2>1 DEF Front
    <3>2. Len(scope) - 1 = Len(s)
      BY <2>0, <2>1
    <3>3. Front(scope) = [i \in 1..Len(s) |-> s[i]]
      BY <2>1, <3>1, <3>2
    <3>4. s = [i \in 1..Len(s) |-> s[i]]
      BY <1>5
    <3> QED  BY <3>3, <3>4
  <2>4. path = s \/ (Len(path) >= Len(s) + 1 /\ IsPrefix(s, path))
    BY <1>1, <2>1, <2>2, <2>3 DEF covered
  <2>5. Len(s) <= Len(path) /\ \A i \in 1..Len(s) : s[i] = path[i]
    <3>1. CASE path = s
      BY <2>0, <3>1
    <3>2. CASE Len(path) >= Len(s) + 1 /\ IsPrefix(s, path)
      BY <1>5, <3>2, PrefixIs
    <3> QED  BY <2>4, <3>1, <3>2
  <2>6. c # <<>>
    <3>1. path[1] # NoName
      BY <1>5, <2>0, <2>5
    <3> QED  BY <1>7, <3>1
  <2>7. path = c \/ path = Append(c, NoName)
    BY <1>7, <2>6
  <2>8. Len(s) <= Len(c) /\ \A i \in 1..Len(s) : s[i] = c[i]
    <3>1. CASE path = c
      BY <2>5, <3>1
    <3>2. CASE path = Append(c, NoName)
      <4>1. Len(path) = Len(c) + 1 /\ path[Len(c) + 1] = NoName /\ \A i \in 1..Len(c) : path[i] = c[i]
        BY <1>5, <3>2
      <4>2. Len(s) <= Len(c)
        <5> SUFFICES ASSUME ~(Len(s) <= Len(c))
                     PROVE  FALSE
          OBVIOUS
        <5>1. Len(s) = Len(c) + 1
          BY <2>0, <2>5, <4>1
        <5>2. Len(c) + 1 \in 1..Len(s)
          BY <2>0, <5>1
        <5> QED  BY <1>5, <2>5, <4>1, <5>2
      <4>3. \A i \in 1..Len(s) : i \in 1..Len(c)
        BY <2>0, <4>2
      <4> QED  BY <2>5, <4>1, <4>2, <4>3
    <3> QED  BY <2>7, <3>1, <3>2
  <2>9. IsPrefix(s, c)
    BY <1>5, <2>8, PrefixIs
  <2> QED  BY <1>6, <2>2, <2>3, <2>9
<1> QED  BY <1>8, <1>9, <1>10, <1>11

\* A binding is used for its own host (ParseSecretSpec, secretsFor).
LEMMA BindingIsHeld ==
  ASSUME NEW spec, spec.host.labels \in Seq(STRING), NEW host, HostName(host) \in Seq(STRING)
  PROVE  BindingReaches(spec, host)
<1>1. PICK s : s = ParseSecretSpec(spec)
  OBVIOUS
<1> SUFFICES ASSUME s.ok
             PROVE  /\ bindsHost(s, s.domain)
                    /\ s.path # <<>> /\ secretsFor(<<s>>, host) # <<>> => HostName(host) = s.domain
                    /\ secretsFor(<<s>>, host) # <<>> => Len(HostName(host)) >= 2
  BY <1>1 DEF BindingReaches
<1>2. s.domain = spec.host.labels /\ validDomain(s.domain)
  BY <1>1 DEF ParseSecretSpec, NormaliseDomain
<1>3. s.domain \in Seq(STRING) /\ Len(s.domain) >= 2
  <2>1. PICK d \in Seq(STRING) : d = s.domain
    BY <1>2
  <2>2. Len(d) = 4 \/ Len(d) >= 2
    BY <1>2, <2>1 DEF validDomain, ipLiteral
  <2>3. Len(d) >= 2
    <3>1. PICK k \in Nat : k = Len(d)
      BY <2>1
    <3>2. k = 4 \/ k >= 2
      BY <2>2, <3>1
    <3>3. k >= 2
      BY <3>2
    <3> QED  BY <3>1, <3>3
  <2> QED  BY <2>1, <2>3
<1>4. bindsHost(s, s.domain)
  BY DEF bindsHost, domainCovers
<1>5. secretsFor(<<s>>, host) # <<>> => bindsHost(s, HostName(host))
  <2> SUFFICES ASSUME ~bindsHost(s, HostName(host))
               PROVE  secretsFor(<<s>>, host) = <<>>
    OBVIOUS
  <2>1. PICK T : T = {x \in Range(<<s>>) : bindsHost(x, HostName(host))}
    OBVIOUS
  <2>2. PICK l : l = <<s>>
    OBVIOUS
  <2>3. l \in Seq({s}) /\ Range(l) = {s}
    BY <2>2 DEF Range
  <2>4. {s} \cap T = {}
    BY <2>1
  <2>5. Kept(l, T) = <<>>
    BY <2>3, <2>4, KeptNone
  <2> QED  BY <2>1, <2>2, <2>5 DEF secretsFor
<1>6. bindsHost(s, HostName(host)) /\ s.path # <<>> => HostName(host) = s.domain
  BY DEF bindsHost
<1>7. bindsHost(s, HostName(host)) => Len(HostName(host)) >= 2
  <2>1. CASE HostName(host) = s.domain
    BY <1>3, <2>1
  <2>2. CASE HostName(host) # s.domain
    <3>1. bindsHost(s, HostName(host)) => Len(HostName(host)) > Len(s.domain)
      BY <2>2 DEF bindsHost, domainCovers, IsBelow
    <3>2. Len(HostName(host)) \in Nat /\ Len(s.domain) \in Nat
      BY <1>3
    <3> QED  BY <1>3, <3>1, <3>2
  <2> QED  BY <2>1, <2>2
<1> QED  BY <1>4, <1>5, <1>6, <1>7

\* A credential goes only where it is bound to, and does not come back (secret.go, scope.go,
\* scrub.go): whatever the binding, the request, the body, and the pieces it comes in.
THEOREM CredentialsAreHeld ==
  CredentialInput(item) => CredentialsHeld
<1> SUFFICES ASSUME CredentialInput(item)
             PROVE  CredentialsHeld
  OBVIOUS
<1>1. item.kind = "scope" => ScopeHolds(item.scope, item.path)
  <2>1. item.kind = "scope" => item.scope \in Seq(STRING) /\ item.path \in Seq(STRING)
    BY DEF CredentialInput
  <2> QED  BY <2>1, ScopeIsHeld
<1>2. item.kind = "spec" => BindingReaches(item.spec, item.host)
  <2> SUFFICES ASSUME item.kind = "spec"
               PROVE  BindingReaches(item.spec, item.host)
    OBVIOUS
  <2>1. item.spec.host.labels \in Seq(STRING) /\ item.host.labels \in Seq(STRING) /\ item.host.dots \in Nat
    BY DEF CredentialInput
  <2>2. HostName(item.host) \in Seq(STRING)
    <3>1. NoLabel \in STRING
      BY GrantsAssumption
    <3>2. PICK l \in Seq(STRING) : l = item.host.labels
      BY <2>1
    <3>3. PICK k \in Nat : k = item.host.dots
      BY <2>1
    <3>4. [i \in 1..(k - 1) |-> NoLabel] \in Seq(STRING)
      <4>1. CASE k = 0
        <5>1. [i \in 1..(k - 1) |-> NoLabel] = <<>>
          BY <4>1
        <5> QED  BY <5>1
      <4>2. CASE k # 0
        <5>1. k - 1 \in Nat
          BY <4>2
        <5> QED  BY <3>1, <5>1
      <4> QED  BY <4>1, <4>2
    <3>5. PICK t \in Seq(STRING) : t = [i \in 1..(k - 1) |-> NoLabel]
      BY <3>4
    <3>6. l \o t \in Seq(STRING)
      BY ConcatSound
    <3> QED  BY <3>2, <3>3, <3>5, <3>6 DEF HostName
  <2> QED  BY <2>1, <2>2, BindingIsHeld
<1>3. item.kind = "echo" => EchoSuppressed(item.values, item.pieces, item.room)
  <2>1. item.kind = "echo" => /\ item.values \in Seq(Seq(STRING \ {Star}))
                              /\ item.pieces \in Seq(Seq(STRING)) /\ item.room \in Nat \ {0}
    BY DEF CredentialInput
  <2> QED  BY <2>1, EchoHolds
<1>4. item.kind = "response" =>
         (scrubResponse(item.values, item.resp) = "all scrubbed"
              => item.resp.codings \subseteq {NoLabel, "identity"})
  <2> SUFFICES ASSUME ~(item.resp.codings \subseteq {NoLabel, "identity"})
               PROVE  scrubResponse(item.values, item.resp) # "all scrubbed"
    BY Zenon
  <2> QED  BY DEF scrubResponse
<1> QED  BY <1>1, <1>2, <1>3, <1>4, Zenon DEF CredentialsHeld
=============================================================================
