------------------------------ MODULE GuestProofs ------------------------------
(***************************************************************************)
(* Theorems about what runs in a machine and about the machine itself:     *)
(* Guest, for every set of calls, every length of the queue and of the     *)
(* pipe, and every number of lines nobody asked for and of snapshots       *)
(* restored; Machine; and what the guest confines, for every profile,      *)
(* command and file (Confine).                                             *)
(***************************************************************************)
EXTENDS Guest, Machine, Confine, ListProofs

GuestInv == TypeOK /\ ScansAlone /\ OneAtATime /\ AnswerIsOwn
            /\ ReportedOnce /\ WireLive /\ EventsInOrder

\* Nothing is not an event, a call is not the crash, and no call is nothing.
LEMMA NamesAre ==
  /\ None \notin Events /\ Crash \notin Calls /\ None \notin Calls
  /\ Progress \notin Calls /\ Garbage \notin Calls
  /\ None # Progress /\ None # Garbage
BY GuestAssumption DEF Events

--------------------------------------------------------------------------------
(* Where the events are                                                         *)

\* The event in the pump's hand, as a list.
Hand == IF held = None THEN <<>> ELSE <<held>>

\* What the host has, what is on its way, in hand and waiting.
Where == Joined(Joined(Joined(recorded, wire), Hand), queue)

Order == /\ Where = Kept(reported, Events \ burned)
         /\ burned \subseteq Range(reported)

\* EventsInOrder, in names the provers do not take apart.
LEMMA OrderIs ==
  /\ EventsInOrder <=> Order
  /\ EventsInOrder' <=> Order'
BY DEF EventsInOrder, Order, Where, Hand, Joined

\* The lists of events are lists of events.
LEMMA WhereTyped ==
  ASSUME TypeOK
  PROVE  /\ recorded \in Seq(Events) /\ wire \in Seq(Events) /\ Hand \in Seq(Events)
         /\ queue \in Seq(Events) /\ reported \in Seq(Events)
         /\ Joined(recorded, wire) \in Seq(Events)
         /\ Joined(Joined(recorded, wire), Hand) \in Seq(Events)
         /\ Where \in Seq(Events)
<1>1. /\ recorded \in Seq(Events) /\ wire \in Seq(Events)
      /\ queue \in Seq(Events) /\ reported \in Seq(Events)
      /\ held \in Events \cup {None}
  BY DEF TypeOK
<1>2. Hand \in Seq(Events)
  BY <1>1 DEF Hand
<1>3. Joined(recorded, wire) \in Seq(Events)
  BY <1>1, JoinedSeq
<1>4. Joined(Joined(recorded, wire), Hand) \in Seq(Events)
  BY <1>2, <1>3, JoinedSeq
<1>5. Where \in Seq(Events)
  BY <1>1, <1>4, JoinedSeq DEF Where
<1> QED  BY <1>1, <1>2, <1>3, <1>4, <1>5

\* An event that is taken, written or read moves on and keeps its place.
LEMMA OrderSame ==
  ASSUME Order, Where' = Where, UNCHANGED <<reported, burned>>
  PROVE  Order'
BY DEF Order

\* An event that finds room in the queue comes last (reportGuestEvent).
LEMMA OrderGrows ==
  ASSUME TypeOK, Order, NEW ev \in Events, ev \notin Range(reported), Report(ev)
  PROVE  Order'
<1>1. CASE Len(queue) < Cap
  <2>1. /\ queue' = With(queue, ev) /\ reported' = With(reported, ev)
        /\ UNCHANGED <<recorded, wire, held, burned>>
    BY <1>1 DEF Report, With
  <2>2. Hand' = Hand
    BY <2>1 DEF Hand
  <2>3. Where' = Joined(Joined(Joined(recorded, wire), Hand), With(queue, ev))
    BY <2>1, <2>2 DEF Where
  <2>4. PICK a \in Seq(Events), q \in Seq(Events) :
           a = Joined(Joined(recorded, wire), Hand) /\ q = queue
    BY WhereTyped
  <2>5. With(Joined(a, q), ev) = Joined(a, With(q, ev))
    BY JoinedWith
  <2>6. Where' = With(Where, ev)
    BY <2>3, <2>4, <2>5 DEF Where
  <2>7. ev \in Events \ burned
    BY DEF Order
  <2>8. PICK r \in Seq(Events) : r = reported
    BY WhereTyped
  <2>9. Kept(With(r, ev), Events \ burned) = With(Kept(r, Events \ burned), ev)
    <3>1. Kept(Append(r, ev), Events \ burned)
            = IF ev \in Events \ burned THEN Append(Kept(r, Events \ burned), ev)
              ELSE Kept(r, Events \ burned)
      BY KeptAppend
    <3> QED  BY <2>7, <3>1 DEF With
  <2>10. Where' = Kept(reported', Events \ burned')
    BY <2>1, <2>6, <2>8, <2>9 DEF Order
  <2>11. Range(With(r, ev)) = Range(r) \cup {ev}
    BY AppendSound DEF With
  <2> QED  BY <2>1, <2>8, <2>10, <2>11 DEF Order
<1>2. CASE ~(Len(queue) < Cap)
  BY <1>2 DEF Report, Order, Where, Hand
<1> QED  BY <1>1, <1>2

\* Each event is in one place only.
LEMMA WhereOnce ==
  ASSUME TypeOK, ReportedOnce, Order
  PROVE  IsInjective(Where) /\ Range(Where) \subseteq Range(reported)
<1>1. PICK r \in Seq(Events) : r = reported
  BY WhereTyped
<1>2. /\ Range(Kept(r, Events \ burned)) = Range(r) \cap (Events \ burned)
      /\ IsInjective(r) => IsInjective(Kept(r, Events \ burned))
  BY KeptSound
<1> QED  BY <1>1, <1>2 DEF ReportedOnce, Order

\* Events that are lost together are burned, and the others keep their order (Restore,
\* authenticate, a write into a closed connection).
LEMMA OrderCut ==
  ASSUME TypeOK, ReportedOnce, Order,
         NEW s \in Seq(Events), NEW t \in Seq(Events), NEW u \in Seq(Events),
         Where = Joined(Joined(s, t), u), Where' = Joined(s, u),
         burned' = burned \cup Range(t), reported' = reported
  PROVE  Order'
<1>1. IsInjective(Where) /\ Range(Where) \subseteq Range(reported)
  BY WhereOnce
<1>2. Kept(Where, Events \ Range(t)) = Joined(s, u)
  BY <1>1, JoinedCut
<1>3. PICK r \in Seq(Events) : r = reported
  BY WhereTyped
<1>4. Kept(Kept(r, Events \ burned), Events \ Range(t))
        = Kept(r, (Events \ burned) \cap (Events \ Range(t)))
  BY KeptTwice
<1>5. (Events \ burned) \cap (Events \ Range(t)) = Events \ (burned \cup Range(t))
  OBVIOUS
<1>6. Where' = Kept(reported', Events \ burned')
  BY <1>2, <1>3, <1>4, <1>5 DEF Order
<1>7. Range(t) \subseteq Range(Where)
  <2>1. PICK st \in Seq(Events) : st = Joined(s, t)
    BY JoinedSeq
  <2>2. Range(Joined(s, t)) = Range(s) \cup Range(t)
    BY ConcatSound DEF Joined
  <2>3. Range(Joined(st, u)) = Range(st) \cup Range(u)
    BY ConcatSound DEF Joined
  <2> QED  BY <2>1, <2>2, <2>3
<1> QED  BY <1>1, <1>6, <1>7 DEF Order

\* The connection is lost with what is on its way (Restore, authenticate).
LEMMA WireCut ==
  ASSUME TypeOK, ReportedOnce, Order, wire' = <<>>, burned' = burned \cup Range(wire),
         UNCHANGED <<recorded, held, queue, reported>>
  PROVE  Order'
<1>1. Hand' = Hand
  BY DEF Hand
<1>2. PICK rest \in Seq(Events) : rest = Joined(Hand, queue)
  BY WhereTyped, JoinedSeq
<1>3. Where = Joined(Joined(recorded, wire), rest)
  BY <1>2, WhereTyped, JoinedAssoc DEF Where
<1>4. Joined(recorded, <<>>) = recorded
  BY WhereTyped, JoinedEmpty
<1>5. Where' = Joined(Joined(recorded, Hand), queue)
  BY <1>1, <1>4 DEF Where
<1>6. Where' = Joined(recorded, rest)
  BY <1>2, <1>5, WhereTyped, JoinedAssoc
<1>7. PICK s \in Seq(Events), t \in Seq(Events) : s = recorded /\ t = wire
  BY WhereTyped
<1> QED  BY <1>3, <1>6, <1>7, OrderCut

\* The event in hand is written into a connection that is closed (pumpEvents).
LEMMA HandCut ==
  ASSUME TypeOK, ReportedOnce, Order, held # None, held' = None,
         burned' = burned \cup {held}, UNCHANGED <<recorded, wire, queue, reported>>
  PROVE  Order'
<1>1. Hand = <<held>> /\ Hand' = <<>> /\ Range(<<held>>) = {held}
  BY DEF Hand, Range
<1>2. PICK s \in Seq(Events), t \in Seq(Events), u \in Seq(Events) :
         s = Joined(recorded, wire) /\ t = Hand /\ u = queue
  BY WhereTyped
<1>3. Where = Joined(Joined(s, t), u)
  BY <1>2 DEF Where
<1>4. Joined(s, <<>>) = s
  BY JoinedEmpty
<1>5. Where' = Joined(s, u)
  BY <1>1, <1>2, <1>4 DEF Where
<1>6. burned' = burned \cup Range(t)
  BY <1>1, <1>2
<1> QED  BY <1>3, <1>5, <1>6, OrderCut

\* The event in hand joins those on their way (pumpEvents).
LEMMA HandWritten ==
  ASSUME TypeOK, Order, held # None, held' = None, wire' = Append(wire, held),
         UNCHANGED <<recorded, queue, reported, burned>>
  PROVE  Order'
<1>1. Hand = <<held>> /\ Hand' = <<>> /\ held \in Events
  BY DEF Hand, TypeOK
<1>2. PICK r \in Seq(Events), w \in Seq(Events), rw \in Seq(Events) :
         r = recorded /\ w = wire /\ rw = Joined(r, w)
  BY WhereTyped
<1>3. wire' = With(w, held)
  BY <1>2 DEF With
<1>4. With(Joined(r, w), held) = Joined(r, With(w, held))
  BY <1>1, JoinedWith
<1>5. With(rw, held) = Joined(rw, <<held>>)
  BY <1>1, JoinedOne
<1>6. PICK x \in Seq(Events) : x = Joined(rw, <<held>>)
  BY <1>1, JoinedOne, JoinedSeq
<1>7. Joined(x, <<>>) = x
  BY JoinedEmpty
<1>8. Joined(recorded', wire') = x
  BY <1>2, <1>3, <1>4, <1>5, <1>6
<1>9. Where' = Where
  BY <1>1, <1>2, <1>6, <1>7, <1>8 DEF Where
<1> QED  BY <1>9, OrderSame

\* The first event that waits is taken in hand (pumpEvents).
LEMMA HandTaken ==
  ASSUME TypeOK, Order, PumpTakes
  PROVE  Order'
<1>1. /\ held = None /\ queue # <<>> /\ held' = Head(queue) /\ queue' = Tail(queue)
      /\ UNCHANGED <<recorded, wire, reported, burned>>
  BY DEF PumpTakes
<1>2. PICK q \in Seq(Events), rw \in Seq(Events) : q = queue /\ rw = Joined(recorded, wire)
  BY WhereTyped
<1>3. Head(q) \in Events /\ Tail(q) \in Seq(Events) /\ q = Joined(<<Head(q)>>, Tail(q))
  BY <1>1, <1>2, JoinedHead
<1>4. Hand = <<>> /\ Hand' = <<Head(q)>>
  BY <1>1, <1>2, <1>3, NamesAre DEF Hand
<1>5. <<Head(q)>> \in Seq(Events)
  BY <1>3, JoinedOne
<1>6. Joined(Joined(rw, <<Head(q)>>), Tail(q)) = Joined(rw, q)
  <2>1. PICK h \in Seq(Events), t \in Seq(Events) : h = <<Head(q)>> /\ t = Tail(q)
    BY <1>3, <1>5
  <2>2. Joined(Joined(rw, h), t) = Joined(rw, Joined(h, t))
    BY JoinedAssoc
  <2>3. Joined(h, t) = q
    BY <1>3, <2>1
  <2> QED  BY <2>1, <2>2, <2>3
<1>7. Joined(rw, <<>>) = rw
  BY JoinedEmpty
<1>8. Where' = Where
  BY <1>1, <1>2, <1>4, <1>6, <1>7 DEF Where
<1> QED  BY <1>1, <1>8, OrderSame

\* The first event on its way is the host's (serveEvents).
LEMMA WireRead ==
  ASSUME TypeOK, Order, HostReads
  PROVE  Order'
<1>1. /\ wire # <<>> /\ recorded' = Append(recorded, Head(wire)) /\ wire' = Tail(wire)
      /\ UNCHANGED <<held, queue, reported, burned>>
  BY DEF HostReads
<1>2. PICK r \in Seq(Events), w \in Seq(Events) : r = recorded /\ w = wire
  BY WhereTyped
<1>3. Head(w) \in Events /\ Tail(w) \in Seq(Events) /\ w = Joined(<<Head(w)>>, Tail(w))
  BY <1>1, <1>2, JoinedHead
<1>4. With(r, Head(w)) = Joined(r, <<Head(w)>>) /\ <<Head(w)>> \in Seq(Events)
  BY <1>3, JoinedOne
<1>5. Joined(Joined(r, <<Head(w)>>), Tail(w)) = Joined(r, w)
  <2>1. PICK h \in Seq(Events), t \in Seq(Events) : h = <<Head(w)>> /\ t = Tail(w)
    BY <1>3, <1>4
  <2>2. Joined(Joined(r, h), t) = Joined(r, Joined(h, t))
    BY JoinedAssoc
  <2>3. Joined(h, t) = w
    BY <1>3, <2>1
  <2> QED  BY <2>1, <2>2, <2>3
<1>6. recorded' = With(r, Head(w)) /\ wire' = Tail(w)
  BY <1>1, <1>2 DEF With
<1>7. Joined(recorded', wire') = Joined(recorded, wire)
  BY <1>2, <1>4, <1>5, <1>6
<1>8. Where' = Where
  BY <1>1, <1>7 DEF Where, Hand
<1> QED  BY <1>1, <1>8, OrderSame

--------------------------------------------------------------------------------
(* The steps                                                                    *)

\* No step of the guest breaks a type.
LEMMA TypeNext ==
  GuestInv /\ [Next]_vars => TypeOK'
<1> SUFFICES ASSUME GuestInv, [Next]_vars
             PROVE  TypeOK'
  OBVIOUS
<1> USE DEF pluginVars, pumpVars
<1> USE NamesAre
<1>i. /\ TypeOK /\ ScansAlone /\ OneAtATime /\ AnswerIsOwn
      /\ ReportedOnce /\ WireLive /\ EventsInOrder
  BY DEF GuestInv
<1>ap. /\ \A ev \in Events : Append(queue, ev) \in Seq(Events)
                            /\ Append(reported, ev) \in Seq(Events)
       /\ \A c \in Calls : Append(stdin, c) \in Seq(Calls)
       /\ \A l \in Calls \cup {Progress, Garbage} :
            Append(stdout, l) \in Seq(Calls \cup {Progress, Garbage})
  BY <1>i DEF TypeOK
<1>ha. /\ queue # <<>> => Head(queue) \in Events /\ Tail(queue) \in Seq(Events)
       /\ wire # <<>> => Head(wire) \in Events /\ Tail(wire) \in Seq(Events)
       /\ stdin # <<>> => Head(stdin) \in Calls /\ Tail(stdin) \in Seq(Calls)
       /\ stdout # <<>> => /\ Head(stdout) \in Calls \cup {Progress, Garbage}
                           /\ Tail(stdout) \in Seq(Calls \cup {Progress, Garbage})
  BY <1>i DEF TypeOK
<1>aw. /\ held # None => Append(wire, held) \in Seq(Events)
       /\ wire # <<>> => Append(recorded, Head(wire)) \in Seq(Events)
  BY <1>i, <1>ha DEF TypeOK
<1>ra. Range(stdout) \subseteq Calls \cup {Progress, Garbage}
  BY <1>i DEF TypeOK, Range
<1>ev. Crash \in Events /\ Calls \subseteq Events
  BY DEF Events
<1>1. ASSUME NEW c \in Calls, LockPlugin(c)
      PROVE  TypeOK'
  BY <1>1, <1>i, <1>ap, <1>ha, <1>aw, <1>ra, <1>ev DEF TypeOK, LockPlugin
<1>2. ASSUME NEW c \in Calls, WriteRequest(c)
      PROVE  TypeOK'
  BY <1>2, <1>i, <1>ap, <1>ha, <1>aw, <1>ra, <1>ev DEF TypeOK, WriteRequest
<1>3. ASSUME NEW c \in Calls, WriteFails(c)
      PROVE  TypeOK'
  BY <1>3, <1>i, <1>ap, <1>ha, <1>aw, <1>ra, <1>ev DEF TypeOK, WriteFails
<1>4. ASSUME NEW c \in Calls, TakeAnswer(c)
      PROVE  TypeOK'
  BY <1>4, <1>i, <1>ap, <1>ha, <1>aw, <1>ra, <1>ev DEF TypeOK, TakeAnswer
<1>5. ASSUME NEW c \in Calls, CallTimesOut(c)
      PROVE  TypeOK'
  BY <1>5, <1>i, <1>ap, <1>ha, <1>aw, <1>ra, <1>ev DEF TypeOK, CallTimesOut
<1>6. ASSUME NEW c \in Calls, FinishCall(c)
      PROVE  TypeOK'
  <2>1. queue' \in Seq(Events) /\ reported' \in Seq(Events)
    BY ZenonT(60), <1>6, <1>i, <1>ap, <1>ev DEF TypeOK, FinishCall, Report
  <2>2. UNCHANGED <<restores, pump, held, hello, peer, wire, mine, theirs, recorded, burned>>
    BY <1>6 DEF FinishCall, Report
  <2>3. /\ call' \in [Calls -> {"locking", "writing", "waiting", "reporting", "done"}]
        /\ mu' = None
        /\ UNCHANGED <<proc, stdin, asked, stdout, noise, dead, watch, halting, readers,
                      done, answer, raced>>
    BY <1>6, <1>i DEF TypeOK, FinishCall
  <2> QED  BY <1>i, <2>1, <2>2, <2>3 DEF TypeOK
<1>7. ASSUME NEW c \in Calls, ScanLine(c)
      PROVE  TypeOK'
  BY <1>7, <1>i, <1>ap, <1>ha, <1>aw, <1>ra, <1>ev DEF TypeOK, ScanLine, Reads, Found
<1>8. ASSUME NEW c \in Calls, ScanTorn(c)
      PROVE  TypeOK'
  BY <1>8, <1>i, <1>ap, <1>ha, <1>aw, <1>ra, <1>ev DEF TypeOK, ScanTorn, Reads
<1>9. ASSUME NEW c \in Calls, ScanEnds(c)
      PROVE  TypeOK'
  BY <1>9, <1>i, <1>ap, <1>ha, <1>aw, <1>ra, <1>ev DEF TypeOK, ScanEnds
<1>10. ASSUME NEW c \in Calls, PluginAnswers(c)
      PROVE  TypeOK'
  BY <1>10, <1>i, <1>ap, <1>ha, <1>aw, <1>ra, <1>ev DEF TypeOK, PluginAnswers
<1>11. ASSUME NEW line \in {Progress, Garbage}, PluginSays(line)
      PROVE  TypeOK'
  BY <1>11, <1>i, <1>ap, <1>ha, <1>aw, <1>ra, <1>ev DEF TypeOK, PluginSays
<1>12. CASE PluginReads
  BY <1>12, <1>i, <1>ap, <1>ha, <1>aw, <1>ra, <1>ev DEF TypeOK, PluginReads
<1>13. CASE PluginExits
  BY <1>13, <1>i, <1>ap, <1>ha, <1>aw, <1>ra, <1>ev DEF TypeOK, PluginExits
<1>14. CASE WatchLocks
  BY <1>14, <1>i, <1>ap, <1>ha, <1>aw, <1>ra, <1>ev DEF TypeOK, WatchLocks
<1>15. CASE WatchReports
  BY ZenonT(60), <1>15, <1>i, <1>ap, <1>ha, <1>aw, <1>ra, <1>ev DEF TypeOK, WatchReports, Report
<1>16. CASE Halt
  BY <1>16, <1>i, <1>ap, <1>ha, <1>aw, <1>ra, <1>ev DEF TypeOK, Halt
<1>17. CASE PumpStarts
  BY <1>17, <1>i, <1>ap, <1>ha, <1>aw, <1>ra, <1>ev DEF TypeOK, PumpStarts
<1>18. CASE Dial
  BY <1>18, <1>i, <1>ap, <1>ha, <1>aw, <1>ra, <1>ev DEF TypeOK, Dial
<1>19. CASE PumpTakes
  BY <1>19, <1>i, <1>ap, <1>ha, <1>aw, <1>ra, <1>ev DEF TypeOK, PumpTakes
<1>20. CASE PumpWrites
  BY <1>20, <1>i, <1>ap, <1>ha, <1>aw, <1>ra, <1>ev DEF TypeOK, PumpWrites
<1>21. CASE PumpWriteFails
  BY <1>21, <1>i, <1>ap, <1>ha, <1>aw, <1>ra, <1>ev DEF TypeOK, PumpWriteFails
<1>22. CASE CredentialArrives
  BY <1>22, <1>i, <1>ap, <1>ha, <1>aw, <1>ra, <1>ev DEF TypeOK, CredentialArrives
<1>23. CASE Authenticate
  <2>1. peer' \in {"none", "new", "accepted", "closed"} /\ wire' \in Seq(Events) /\ hello' = 0
    <3>1. CASE hello = theirs
      BY <1>23, <1>i, <3>1 DEF TypeOK, Authenticate
    <3>2. CASE hello # theirs
      BY <1>23, <1>i, <3>2 DEF TypeOK, Authenticate
    <3> QED  BY <3>1, <3>2
  <2> QED  BY <1>23, <1>i, <2>1 DEF TypeOK, Authenticate
<1>24. CASE HostReads
  BY <1>24, <1>i, <1>ap, <1>ha, <1>aw, <1>ra, <1>ev DEF TypeOK, HostReads
<1>25. CASE Restore
  BY <1>25, <1>i, <1>ap, <1>ha, <1>aw, <1>ra, <1>ev DEF TypeOK, Restore
<1>26. CASE UNCHANGED vars
  BY <1>26, <1>i, <1>ap, <1>ha, <1>aw, <1>ra, <1>ev DEF TypeOK, vars
<1> QED
  BY <1>1, <1>2, <1>3, <1>4, <1>5, <1>6, <1>7, <1>8, <1>9, <1>10, <1>11,
     <1>12, <1>13, <1>14, <1>15, <1>16, <1>17, <1>18, <1>19, <1>20, <1>21, <1>22,
     <1>23, <1>24, <1>25, <1>26
  DEF Next, CallStep, ScanStep, PumpStep

\* As long as one goroutine scans, what it finds is its own call's answer (call).
LEMMA ScansNext ==
  GuestInv /\ [Next]_vars => ScansAlone'
<1> SUFFICES ASSUME GuestInv, [Next]_vars
             PROVE  ScansAlone'
  OBVIOUS
<1> USE DEF pluginVars, pumpVars
<1> USE NamesAre
<1>i. /\ TypeOK /\ ScansAlone /\ OneAtATime /\ AnswerIsOwn
      /\ ReportedOnce /\ WireLive /\ EventsInOrder
  BY DEF GuestInv
<1>one. ASSUME ~raced
        PROVE  ~(Cardinality(readers) > 1)
  <2>1. CASE readers = {}
    BY <2>1, FS_EmptySet
  <2>2. CASE readers # {}
    <3>1. PICK c \in readers : readers = {c}
      BY <1>one, <1>i, <2>2 DEF ScansAlone
    <3>2. Cardinality({c}) = 1
      BY FS_Singleton
    <3> QED  BY <3>1, <3>2
  <2> QED  BY <2>1, <2>2
<1>1. ASSUME NEW c \in Calls, LockPlugin(c)
      PROVE  ScansAlone'
  BY <1>1, <1>i, <1>one DEF TypeOK, ScansAlone, LockPlugin
<1>2. ASSUME NEW c \in Calls, WriteRequest(c)
      PROVE  ScansAlone'
  BY <1>2, <1>i, <1>one DEF TypeOK, ScansAlone, WriteRequest
<1>3. ASSUME NEW c \in Calls, WriteFails(c)
      PROVE  ScansAlone'
  BY <1>3, <1>i, <1>one DEF TypeOK, ScansAlone, WriteFails
<1>4. ASSUME NEW c \in Calls, TakeAnswer(c)
      PROVE  ScansAlone'
  BY <1>4, <1>i, <1>one DEF TypeOK, ScansAlone, TakeAnswer
<1>5. ASSUME NEW c \in Calls, CallTimesOut(c)
      PROVE  ScansAlone'
  BY <1>5, <1>i, <1>one DEF TypeOK, ScansAlone, CallTimesOut
<1>6. ASSUME NEW c \in Calls, FinishCall(c)
      PROVE  ScansAlone'
  BY <1>6, <1>i, <1>one DEF TypeOK, ScansAlone, FinishCall, Report
<1>7. ASSUME NEW c \in Calls, ScanLine(c)
      PROVE  ScansAlone'
  BY <1>7, <1>i, <1>one DEF TypeOK, ScansAlone, ScanLine, Reads, Found
<1>8. ASSUME NEW c \in Calls, ScanTorn(c)
      PROVE  ScansAlone'
  BY <1>8, <1>i, <1>one DEF TypeOK, ScansAlone, ScanTorn, Reads
<1>9. ASSUME NEW c \in Calls, ScanEnds(c)
      PROVE  ScansAlone'
  BY <1>9, <1>i, <1>one DEF TypeOK, ScansAlone, ScanEnds
<1>10. ASSUME NEW c \in Calls, PluginAnswers(c)
      PROVE  ScansAlone'
  BY <1>10, <1>i, <1>one DEF TypeOK, ScansAlone, PluginAnswers
<1>11. ASSUME NEW line \in {Progress, Garbage}, PluginSays(line)
      PROVE  ScansAlone'
  BY <1>11, <1>i, <1>one DEF TypeOK, ScansAlone, PluginSays
<1>12. CASE PluginReads
  BY <1>12, <1>i, <1>one DEF TypeOK, ScansAlone, PluginReads
<1>13. CASE PluginExits
  BY <1>13, <1>i, <1>one DEF TypeOK, ScansAlone, PluginExits
<1>14. CASE WatchLocks
  BY <1>14, <1>i, <1>one DEF TypeOK, ScansAlone, WatchLocks
<1>15. CASE WatchReports
  BY <1>15, <1>i, <1>one DEF TypeOK, ScansAlone, WatchReports, Report
<1>16. CASE Halt
  BY <1>16, <1>i, <1>one DEF TypeOK, ScansAlone, Halt
<1>17. CASE PumpStarts
  BY <1>17, <1>i, <1>one DEF TypeOK, ScansAlone, PumpStarts
<1>18. CASE Dial
  BY <1>18, <1>i, <1>one DEF TypeOK, ScansAlone, Dial
<1>19. CASE PumpTakes
  BY <1>19, <1>i, <1>one DEF TypeOK, ScansAlone, PumpTakes
<1>20. CASE PumpWrites
  BY <1>20, <1>i, <1>one DEF TypeOK, ScansAlone, PumpWrites
<1>21. CASE PumpWriteFails
  BY <1>21, <1>i, <1>one DEF TypeOK, ScansAlone, PumpWriteFails
<1>22. CASE CredentialArrives
  BY <1>22, <1>i, <1>one DEF TypeOK, ScansAlone, CredentialArrives
<1>23. CASE Authenticate
  BY <1>23, <1>i, <1>one DEF TypeOK, ScansAlone, Authenticate
<1>24. CASE HostReads
  BY <1>24, <1>i, <1>one DEF TypeOK, ScansAlone, HostReads
<1>25. CASE Restore
  BY <1>25, <1>i, <1>one DEF TypeOK, ScansAlone, Restore
<1>26. CASE UNCHANGED vars
  BY <1>26, <1>i, <1>one DEF TypeOK, ScansAlone, vars
<1> QED
  BY <1>1, <1>2, <1>3, <1>4, <1>5, <1>6, <1>7, <1>8, <1>9, <1>10, <1>11,
     <1>12, <1>13, <1>14, <1>15, <1>16, <1>17, <1>18, <1>19, <1>20, <1>21, <1>22,
     <1>23, <1>24, <1>25, <1>26
  DEF Next, CallStep, ScanStep, PumpStep

\* The plugin's lock is held from the request to the event (callPluginTool).
LEMMA OneAtATimeNext ==
  GuestInv /\ [Next]_vars => OneAtATime'
<1> SUFFICES ASSUME GuestInv, [Next]_vars
             PROVE  OneAtATime'
  OBVIOUS
<1> USE DEF pluginVars, pumpVars
<1> USE NamesAre
<1>i. /\ TypeOK /\ ScansAlone /\ OneAtATime /\ AnswerIsOwn
      /\ ReportedOnce /\ WireLive /\ EventsInOrder
  BY DEF GuestInv
<1>1. ASSUME NEW c \in Calls, LockPlugin(c)
      PROVE  OneAtATime'
  BY <1>1, <1>i DEF TypeOK, OneAtATime, LockPlugin
<1>2. ASSUME NEW c \in Calls, WriteRequest(c)
      PROVE  OneAtATime'
  BY <1>2, <1>i DEF TypeOK, OneAtATime, WriteRequest
<1>3. ASSUME NEW c \in Calls, WriteFails(c)
      PROVE  OneAtATime'
  BY <1>3, <1>i DEF TypeOK, OneAtATime, WriteFails
<1>4. ASSUME NEW c \in Calls, TakeAnswer(c)
      PROVE  OneAtATime'
  BY <1>4, <1>i DEF TypeOK, OneAtATime, TakeAnswer
<1>5. ASSUME NEW c \in Calls, CallTimesOut(c)
      PROVE  OneAtATime'
  BY <1>5, <1>i DEF TypeOK, OneAtATime, CallTimesOut
<1>6. ASSUME NEW c \in Calls, FinishCall(c)
      PROVE  OneAtATime'
  BY <1>6, <1>i DEF TypeOK, OneAtATime, FinishCall, Report
<1>7. ASSUME NEW c \in Calls, ScanLine(c)
      PROVE  OneAtATime'
  BY <1>7, <1>i DEF TypeOK, OneAtATime, ScanLine, Reads, Found
<1>8. ASSUME NEW c \in Calls, ScanTorn(c)
      PROVE  OneAtATime'
  BY <1>8, <1>i DEF TypeOK, OneAtATime, ScanTorn, Reads
<1>9. ASSUME NEW c \in Calls, ScanEnds(c)
      PROVE  OneAtATime'
  BY <1>9, <1>i DEF TypeOK, OneAtATime, ScanEnds
<1>10. ASSUME NEW c \in Calls, PluginAnswers(c)
      PROVE  OneAtATime'
  BY <1>10, <1>i DEF TypeOK, OneAtATime, PluginAnswers
<1>11. ASSUME NEW line \in {Progress, Garbage}, PluginSays(line)
      PROVE  OneAtATime'
  BY <1>11, <1>i DEF TypeOK, OneAtATime, PluginSays
<1>12. CASE PluginReads
  BY <1>12, <1>i DEF TypeOK, OneAtATime, PluginReads
<1>13. CASE PluginExits
  BY <1>13, <1>i DEF TypeOK, OneAtATime, PluginExits
<1>14. CASE WatchLocks
  BY <1>14, <1>i DEF TypeOK, OneAtATime, WatchLocks
<1>15. CASE WatchReports
  BY <1>15, <1>i DEF TypeOK, OneAtATime, WatchReports, Report
<1>16. CASE Halt
  BY <1>16, <1>i DEF TypeOK, OneAtATime, Halt
<1>17. CASE PumpStarts
  BY <1>17, <1>i DEF TypeOK, OneAtATime, PumpStarts
<1>18. CASE Dial
  BY <1>18, <1>i DEF TypeOK, OneAtATime, Dial
<1>19. CASE PumpTakes
  BY <1>19, <1>i DEF TypeOK, OneAtATime, PumpTakes
<1>20. CASE PumpWrites
  BY <1>20, <1>i DEF TypeOK, OneAtATime, PumpWrites
<1>21. CASE PumpWriteFails
  BY <1>21, <1>i DEF TypeOK, OneAtATime, PumpWriteFails
<1>22. CASE CredentialArrives
  BY <1>22, <1>i DEF TypeOK, OneAtATime, CredentialArrives
<1>23. CASE Authenticate
  BY <1>23, <1>i DEF TypeOK, OneAtATime, Authenticate
<1>24. CASE HostReads
  BY <1>24, <1>i DEF TypeOK, OneAtATime, HostReads
<1>25. CASE Restore
  BY <1>25, <1>i DEF TypeOK, OneAtATime, Restore
<1>26. CASE UNCHANGED vars
  BY <1>26, <1>i DEF TypeOK, OneAtATime, vars
<1> QED
  BY <1>1, <1>2, <1>3, <1>4, <1>5, <1>6, <1>7, <1>8, <1>9, <1>10, <1>11,
     <1>12, <1>13, <1>14, <1>15, <1>16, <1>17, <1>18, <1>19, <1>20, <1>21, <1>22,
     <1>23, <1>24, <1>25, <1>26
  DEF Next, CallStep, ScanStep, PumpStep

\* What a session is answered is what its call's goroutine found (callPluginTool).
LEMMA AnswerNext ==
  GuestInv /\ [Next]_vars => AnswerIsOwn'
<1> SUFFICES ASSUME GuestInv, [Next]_vars
             PROVE  AnswerIsOwn'
  OBVIOUS
<1> USE DEF pluginVars, pumpVars
<1> USE NamesAre
<1>i. /\ TypeOK /\ ScansAlone /\ OneAtATime /\ AnswerIsOwn
      /\ ReportedOnce /\ WireLive /\ EventsInOrder
  BY DEF GuestInv
<1>1. ASSUME NEW c \in Calls, LockPlugin(c)
      PROVE  AnswerIsOwn'
  BY <1>1, <1>i DEF TypeOK, ScansAlone, AnswerIsOwn, LockPlugin
<1>2. ASSUME NEW c \in Calls, WriteRequest(c)
      PROVE  AnswerIsOwn'
  BY <1>2, <1>i DEF TypeOK, ScansAlone, AnswerIsOwn, WriteRequest
<1>3. ASSUME NEW c \in Calls, WriteFails(c)
      PROVE  AnswerIsOwn'
  BY <1>3, <1>i DEF TypeOK, ScansAlone, AnswerIsOwn, WriteFails
<1>4. ASSUME NEW c \in Calls, TakeAnswer(c)
      PROVE  AnswerIsOwn'
  BY <1>4, <1>i DEF TypeOK, ScansAlone, AnswerIsOwn, TakeAnswer
<1>5. ASSUME NEW c \in Calls, CallTimesOut(c)
      PROVE  AnswerIsOwn'
  BY <1>5, <1>i DEF TypeOK, ScansAlone, AnswerIsOwn, CallTimesOut
<1>6. ASSUME NEW c \in Calls, FinishCall(c)
      PROVE  AnswerIsOwn'
  BY <1>6, <1>i DEF TypeOK, ScansAlone, AnswerIsOwn, FinishCall, Report
<1>7. ASSUME NEW c \in Calls, ScanLine(c)
      PROVE  AnswerIsOwn'
  BY <1>7, <1>i DEF TypeOK, ScansAlone, AnswerIsOwn, ScanLine, Reads, Found
<1>8. ASSUME NEW c \in Calls, ScanTorn(c)
      PROVE  AnswerIsOwn'
  BY <1>8, <1>i DEF TypeOK, ScansAlone, AnswerIsOwn, ScanTorn, Reads
<1>9. ASSUME NEW c \in Calls, ScanEnds(c)
      PROVE  AnswerIsOwn'
  BY <1>9, <1>i DEF TypeOK, ScansAlone, AnswerIsOwn, ScanEnds
<1>10. ASSUME NEW c \in Calls, PluginAnswers(c)
      PROVE  AnswerIsOwn'
  BY <1>10, <1>i DEF TypeOK, ScansAlone, AnswerIsOwn, PluginAnswers
<1>11. ASSUME NEW line \in {Progress, Garbage}, PluginSays(line)
      PROVE  AnswerIsOwn'
  BY <1>11, <1>i DEF TypeOK, ScansAlone, AnswerIsOwn, PluginSays
<1>12. CASE PluginReads
  BY <1>12, <1>i DEF TypeOK, ScansAlone, AnswerIsOwn, PluginReads
<1>13. CASE PluginExits
  BY <1>13, <1>i DEF TypeOK, ScansAlone, AnswerIsOwn, PluginExits
<1>14. CASE WatchLocks
  BY <1>14, <1>i DEF TypeOK, ScansAlone, AnswerIsOwn, WatchLocks
<1>15. CASE WatchReports
  BY <1>15, <1>i DEF TypeOK, ScansAlone, AnswerIsOwn, WatchReports, Report
<1>16. CASE Halt
  BY <1>16, <1>i DEF TypeOK, ScansAlone, AnswerIsOwn, Halt
<1>17. CASE PumpStarts
  BY <1>17, <1>i DEF TypeOK, ScansAlone, AnswerIsOwn, PumpStarts
<1>18. CASE Dial
  BY <1>18, <1>i DEF TypeOK, ScansAlone, AnswerIsOwn, Dial
<1>19. CASE PumpTakes
  BY <1>19, <1>i DEF TypeOK, ScansAlone, AnswerIsOwn, PumpTakes
<1>20. CASE PumpWrites
  BY <1>20, <1>i DEF TypeOK, ScansAlone, AnswerIsOwn, PumpWrites
<1>21. CASE PumpWriteFails
  BY <1>21, <1>i DEF TypeOK, ScansAlone, AnswerIsOwn, PumpWriteFails
<1>22. CASE CredentialArrives
  BY <1>22, <1>i DEF TypeOK, ScansAlone, AnswerIsOwn, CredentialArrives
<1>23. CASE Authenticate
  BY <1>23, <1>i DEF TypeOK, ScansAlone, AnswerIsOwn, Authenticate
<1>24. CASE HostReads
  BY <1>24, <1>i DEF TypeOK, ScansAlone, AnswerIsOwn, HostReads
<1>25. CASE Restore
  BY <1>25, <1>i DEF TypeOK, ScansAlone, AnswerIsOwn, Restore
<1>26. CASE UNCHANGED vars
  BY <1>26, <1>i DEF TypeOK, ScansAlone, AnswerIsOwn, vars
<1> QED
  BY <1>1, <1>2, <1>3, <1>4, <1>5, <1>6, <1>7, <1>8, <1>9, <1>10, <1>11,
     <1>12, <1>13, <1>14, <1>15, <1>16, <1>17, <1>18, <1>19, <1>20, <1>21, <1>22,
     <1>23, <1>24, <1>25, <1>26
  DEF Next, CallStep, ScanStep, PumpStep

\* A connection that is lost loses what was on its way (Restore, authenticate).
LEMMA WireNext ==
  GuestInv /\ [Next]_vars => WireLive'
<1> SUFFICES ASSUME GuestInv, [Next]_vars
             PROVE  WireLive'
  OBVIOUS
<1> USE DEF pluginVars, pumpVars
<1> USE NamesAre
<1>i. /\ TypeOK /\ ScansAlone /\ OneAtATime /\ AnswerIsOwn
      /\ ReportedOnce /\ WireLive /\ EventsInOrder
  BY DEF GuestInv
<1>1. ASSUME NEW c \in Calls, LockPlugin(c)
      PROVE  WireLive'
  BY <1>1, <1>i DEF TypeOK, WireLive, LockPlugin
<1>2. ASSUME NEW c \in Calls, WriteRequest(c)
      PROVE  WireLive'
  BY <1>2, <1>i DEF TypeOK, WireLive, WriteRequest
<1>3. ASSUME NEW c \in Calls, WriteFails(c)
      PROVE  WireLive'
  BY <1>3, <1>i DEF TypeOK, WireLive, WriteFails
<1>4. ASSUME NEW c \in Calls, TakeAnswer(c)
      PROVE  WireLive'
  BY <1>4, <1>i DEF TypeOK, WireLive, TakeAnswer
<1>5. ASSUME NEW c \in Calls, CallTimesOut(c)
      PROVE  WireLive'
  BY <1>5, <1>i DEF TypeOK, WireLive, CallTimesOut
<1>6. ASSUME NEW c \in Calls, FinishCall(c)
      PROVE  WireLive'
  BY <1>6, <1>i DEF TypeOK, WireLive, FinishCall, Report
<1>7. ASSUME NEW c \in Calls, ScanLine(c)
      PROVE  WireLive'
  BY <1>7, <1>i DEF TypeOK, WireLive, ScanLine, Reads, Found
<1>8. ASSUME NEW c \in Calls, ScanTorn(c)
      PROVE  WireLive'
  BY <1>8, <1>i DEF TypeOK, WireLive, ScanTorn, Reads
<1>9. ASSUME NEW c \in Calls, ScanEnds(c)
      PROVE  WireLive'
  BY <1>9, <1>i DEF TypeOK, WireLive, ScanEnds
<1>10. ASSUME NEW c \in Calls, PluginAnswers(c)
      PROVE  WireLive'
  BY <1>10, <1>i DEF TypeOK, WireLive, PluginAnswers
<1>11. ASSUME NEW line \in {Progress, Garbage}, PluginSays(line)
      PROVE  WireLive'
  BY <1>11, <1>i DEF TypeOK, WireLive, PluginSays
<1>12. CASE PluginReads
  BY <1>12, <1>i DEF TypeOK, WireLive, PluginReads
<1>13. CASE PluginExits
  BY <1>13, <1>i DEF TypeOK, WireLive, PluginExits
<1>14. CASE WatchLocks
  BY <1>14, <1>i DEF TypeOK, WireLive, WatchLocks
<1>15. CASE WatchReports
  BY <1>15, <1>i DEF TypeOK, WireLive, WatchReports, Report
<1>16. CASE Halt
  BY <1>16, <1>i DEF TypeOK, WireLive, Halt
<1>17. CASE PumpStarts
  BY <1>17, <1>i DEF TypeOK, WireLive, PumpStarts
<1>18. CASE Dial
  BY <1>18, <1>i DEF TypeOK, WireLive, Dial
<1>19. CASE PumpTakes
  BY <1>19, <1>i DEF TypeOK, WireLive, PumpTakes
<1>20. CASE PumpWrites
  BY <1>20, <1>i DEF TypeOK, WireLive, PumpWrites
<1>21. CASE PumpWriteFails
  BY <1>21, <1>i DEF TypeOK, WireLive, PumpWriteFails
<1>22. CASE CredentialArrives
  BY <1>22, <1>i DEF TypeOK, WireLive, CredentialArrives
<1>23. CASE Authenticate
  BY <1>23, <1>i DEF TypeOK, WireLive, Authenticate
<1>24. CASE HostReads
  BY <1>24, <1>i DEF TypeOK, WireLive, HostReads
<1>25. CASE Restore
  BY <1>25, <1>i DEF TypeOK, WireLive, Restore
<1>26. CASE UNCHANGED vars
  BY <1>26, <1>i DEF TypeOK, WireLive, vars
<1> QED
  BY <1>1, <1>2, <1>3, <1>4, <1>5, <1>6, <1>7, <1>8, <1>9, <1>10, <1>11,
     <1>12, <1>13, <1>14, <1>15, <1>16, <1>17, <1>18, <1>19, <1>20, <1>21, <1>22,
     <1>23, <1>24, <1>25, <1>26
  DEF Next, CallStep, ScanStep, PumpStep

\* A call reports its event before it is done, and watch the crash, once each
\* (reportGuestEvent).
LEMMA ReportedNext ==
  GuestInv /\ [Next]_vars => ReportedOnce'
<1> SUFFICES ASSUME GuestInv, [Next]_vars
             PROVE  ReportedOnce'
  OBVIOUS
<1> USE DEF pluginVars, pumpVars
<1> USE NamesAre
<1>i. /\ TypeOK /\ ScansAlone /\ OneAtATime /\ AnswerIsOwn
      /\ ReportedOnce /\ WireLive /\ EventsInOrder
  BY DEF GuestInv
<1>rep. ASSUME NEW ev \in Events, ev \notin Range(reported), Report(ev)
        PROVE  /\ IsInjective(reported') /\ Range(reported') \subseteq Range(reported) \cup {ev}
  <2>1. CASE Len(queue) < Cap
    <3>1. PICK r \in Seq(Events) : r = reported
      BY <1>i DEF TypeOK
    <3>2. reported' = Append(r, ev) /\ IsInjective(r) /\ ev \notin Range(r)
      BY <1>rep, <1>i, <2>1, <3>1 DEF ReportedOnce, Report
    <3>3. Range(Append(r, ev)) = Range(r) \cup {ev} /\ IsInjective(Append(r, ev))
      BY <1>rep, <3>2, AppendSound
    <3> QED  BY <3>1, <3>2, <3>3
  <2>2. CASE ~(Len(queue) < Cap)
    BY <1>rep, <1>i, <2>2 DEF ReportedOnce, Report
  <2> QED  BY <2>1, <2>2
<1>ev. Crash \in Events /\ Calls \subseteq Events
  BY DEF Events
<1>1. ASSUME NEW c \in Calls, LockPlugin(c)
      PROVE  ReportedOnce'
  BY <1>1, <1>i DEF TypeOK, ReportedOnce, LockPlugin
<1>2. ASSUME NEW c \in Calls, WriteRequest(c)
      PROVE  ReportedOnce'
  BY <1>2, <1>i DEF TypeOK, ReportedOnce, WriteRequest
<1>3. ASSUME NEW c \in Calls, WriteFails(c)
      PROVE  ReportedOnce'
  BY <1>3, <1>i DEF TypeOK, ReportedOnce, WriteFails
<1>4. ASSUME NEW c \in Calls, TakeAnswer(c)
      PROVE  ReportedOnce'
  BY <1>4, <1>i DEF TypeOK, ReportedOnce, TakeAnswer
<1>5. ASSUME NEW c \in Calls, CallTimesOut(c)
      PROVE  ReportedOnce'
  BY <1>5, <1>i DEF TypeOK, ReportedOnce, CallTimesOut
<1>6. ASSUME NEW c \in Calls, FinishCall(c)
      PROVE  ReportedOnce'
  <2>1. c \notin Range(reported) /\ call[c] = "reporting" /\ Report(c)
    BY <1>6, <1>i DEF ReportedOnce, FinishCall
  <2>2. IsInjective(reported') /\ Range(reported') \subseteq Range(reported) \cup {c}
    BY <1>rep, <1>ev, <2>1
  <2> QED  BY <1>6, <1>i, <2>2 DEF TypeOK, ReportedOnce, FinishCall
<1>7. ASSUME NEW c \in Calls, ScanLine(c)
      PROVE  ReportedOnce'
  BY <1>7, <1>i DEF TypeOK, ReportedOnce, ScanLine, Reads, Found
<1>8. ASSUME NEW c \in Calls, ScanTorn(c)
      PROVE  ReportedOnce'
  BY <1>8, <1>i DEF TypeOK, ReportedOnce, ScanTorn, Reads
<1>9. ASSUME NEW c \in Calls, ScanEnds(c)
      PROVE  ReportedOnce'
  BY <1>9, <1>i DEF TypeOK, ReportedOnce, ScanEnds
<1>10. ASSUME NEW c \in Calls, PluginAnswers(c)
      PROVE  ReportedOnce'
  BY <1>10, <1>i DEF TypeOK, ReportedOnce, PluginAnswers
<1>11. ASSUME NEW line \in {Progress, Garbage}, PluginSays(line)
      PROVE  ReportedOnce'
  BY <1>11, <1>i DEF TypeOK, ReportedOnce, PluginSays
<1>12. CASE PluginReads
  BY <1>12, <1>i DEF TypeOK, ReportedOnce, PluginReads
<1>13. CASE PluginExits
  BY <1>13, <1>i DEF TypeOK, ReportedOnce, PluginExits
<1>14. CASE WatchLocks
  BY <1>14, <1>i DEF TypeOK, ReportedOnce, WatchLocks
<1>15. CASE WatchReports
  <2>1. CASE halting
    BY <1>15, <1>i, <2>1 DEF TypeOK, ReportedOnce, WatchReports
  <2>2. CASE ~halting
    <3>1. Crash \notin Range(reported) /\ Report(Crash)
      BY <1>15, <1>i, <2>2 DEF ReportedOnce, WatchReports
    <3>2. IsInjective(reported') /\ Range(reported') \subseteq Range(reported) \cup {Crash}
      BY <1>rep, <1>ev, <3>1
    <3> QED  BY <1>15, <1>i, <3>2 DEF TypeOK, ReportedOnce, WatchReports
  <2> QED  BY <2>1, <2>2
<1>16. CASE Halt
  BY <1>16, <1>i DEF TypeOK, ReportedOnce, Halt
<1>17. CASE PumpStarts
  BY <1>17, <1>i DEF TypeOK, ReportedOnce, PumpStarts
<1>18. CASE Dial
  BY <1>18, <1>i DEF TypeOK, ReportedOnce, Dial
<1>19. CASE PumpTakes
  BY <1>19, <1>i DEF TypeOK, ReportedOnce, PumpTakes
<1>20. CASE PumpWrites
  BY <1>20, <1>i DEF TypeOK, ReportedOnce, PumpWrites
<1>21. CASE PumpWriteFails
  BY <1>21, <1>i DEF TypeOK, ReportedOnce, PumpWriteFails
<1>22. CASE CredentialArrives
  BY <1>22, <1>i DEF TypeOK, ReportedOnce, CredentialArrives
<1>23. CASE Authenticate
  BY <1>23, <1>i DEF TypeOK, ReportedOnce, Authenticate
<1>24. CASE HostReads
  BY <1>24, <1>i DEF TypeOK, ReportedOnce, HostReads
<1>25. CASE Restore
  BY <1>25, <1>i DEF TypeOK, ReportedOnce, Restore
<1>26. CASE UNCHANGED vars
  BY <1>26, <1>i DEF TypeOK, ReportedOnce, vars
<1> QED
  BY <1>1, <1>2, <1>3, <1>4, <1>5, <1>6, <1>7, <1>8, <1>9, <1>10, <1>11,
     <1>12, <1>13, <1>14, <1>15, <1>16, <1>17, <1>18, <1>19, <1>20, <1>21, <1>22,
     <1>23, <1>24, <1>25, <1>26
  DEF Next, CallStep, ScanStep, PumpStep

\* Every step moves an event on, burns it, or adds one at the end (pumpEvents).
LEMMA OrderNext ==
  GuestInv /\ [Next]_vars => Order'
<1> SUFFICES ASSUME GuestInv, [Next]_vars
             PROVE  Order'
  OBVIOUS
<1> USE DEF pluginVars, pumpVars
<1> USE NamesAre
<1>i. /\ TypeOK /\ OneAtATime /\ ReportedOnce /\ WireLive /\ Order
  BY OrderIs DEF GuestInv
<1>ev. Crash \in Events /\ Calls \subseteq Events
  BY DEF Events
<1>fr. ASSUME UNCHANGED <<recorded, wire, held, queue, reported, burned>>
       PROVE  Order'
  BY <1>fr, <1>i DEF Order, Where, Hand
<1>1. ASSUME NEW c \in Calls, LockPlugin(c)
      PROVE  Order'
  BY <1>1, <1>fr DEF LockPlugin
<1>2. ASSUME NEW c \in Calls, WriteRequest(c)
      PROVE  Order'
  BY <1>2, <1>fr DEF WriteRequest
<1>3. ASSUME NEW c \in Calls, WriteFails(c)
      PROVE  Order'
  BY <1>3, <1>fr DEF WriteFails
<1>4. ASSUME NEW c \in Calls, TakeAnswer(c)
      PROVE  Order'
  BY <1>4, <1>fr DEF TakeAnswer
<1>5. ASSUME NEW c \in Calls, CallTimesOut(c)
      PROVE  Order'
  BY <1>5, <1>fr DEF CallTimesOut
<1>6. ASSUME NEW c \in Calls, FinishCall(c)
      PROVE  Order'
  <2>1. c \notin Range(reported) /\ Report(c)
    BY <1>6, <1>i DEF ReportedOnce, FinishCall
  <2> QED  BY <1>ev, <1>i, <2>1, OrderGrows
<1>7. ASSUME NEW c \in Calls, ScanLine(c)
      PROVE  Order'
  BY <1>7, <1>fr DEF ScanLine, Reads, Found
<1>8. ASSUME NEW c \in Calls, ScanTorn(c)
      PROVE  Order'
  BY <1>8, <1>fr DEF ScanTorn, Reads
<1>9. ASSUME NEW c \in Calls, ScanEnds(c)
      PROVE  Order'
  BY <1>9, <1>fr DEF ScanEnds
<1>10. ASSUME NEW c \in Calls, PluginAnswers(c)
      PROVE  Order'
  BY <1>10, <1>fr DEF PluginAnswers
<1>11. ASSUME NEW line \in {Progress, Garbage}, PluginSays(line)
      PROVE  Order'
  BY <1>11, <1>fr DEF PluginSays
<1>12. CASE PluginReads
  BY <1>12, <1>fr DEF PluginReads
<1>13. CASE PluginExits
  BY <1>13, <1>fr DEF PluginExits
<1>14. CASE WatchLocks
  BY <1>14, <1>fr DEF WatchLocks
<1>15. CASE WatchReports
  <2>1. CASE halting
    BY <1>15, <1>fr, <2>1 DEF WatchReports
  <2>2. CASE ~halting
    <3>1. Crash \notin Range(reported) /\ Report(Crash)
      BY <1>15, <1>i, <2>2 DEF ReportedOnce, WatchReports
    <3> QED  BY <1>ev, <1>i, <3>1, OrderGrows
  <2> QED  BY <2>1, <2>2
<1>16. CASE Halt
  BY <1>16, <1>fr DEF Halt
<1>17. CASE PumpStarts
  BY <1>17, <1>fr DEF PumpStarts
<1>18. CASE Dial
  <2>1. wire = <<>> /\ wire' = <<>>
    BY <1>18, <1>i DEF WireLive, Dial
  <2> QED  BY <1>18, <1>fr, <2>1 DEF Dial
<1>19. CASE PumpTakes
  BY <1>19, <1>i, HandTaken
<1>20. CASE PumpWrites
  <2>1. CASE peer = "closed"
    BY <1>20, <1>i, <2>1, HandCut DEF PumpWrites
  <2>2. CASE peer # "closed"
    BY <1>20, <1>i, <2>2, HandWritten DEF PumpWrites
  <2> QED  BY <2>1, <2>2
<1>21. CASE PumpWriteFails
  BY <1>21, <1>fr DEF PumpWriteFails
<1>22. CASE CredentialArrives
  BY <1>22, <1>fr DEF CredentialArrives
<1>23. CASE Authenticate
  <2>1. CASE hello = theirs
    BY <1>23, <1>fr, <2>1 DEF Authenticate
  <2>2. CASE hello # theirs
    BY <1>23, <1>i, <2>2, WireCut DEF Authenticate
  <2> QED  BY <2>1, <2>2
<1>24. CASE HostReads
  BY <1>24, <1>i, WireRead
<1>25. CASE Restore
  BY <1>25, <1>i, WireCut DEF Restore
<1>26. CASE UNCHANGED vars
  BY <1>26, <1>fr DEF vars
<1> QED
  BY <1>1, <1>2, <1>3, <1>4, <1>5, <1>6, <1>7, <1>8, <1>9, <1>10, <1>11,
     <1>12, <1>13, <1>14, <1>15, <1>16, <1>17, <1>18, <1>19, <1>20, <1>21, <1>22,
     <1>23, <1>24, <1>25, <1>26
  DEF Next, CallStep, ScanStep, PumpStep

\* A guest whose plugin has just come up satisfies the inductive invariant.
LEMMA InitHolds ==
  Init => GuestInv
<1> SUFFICES ASSUME Init
             PROVE  GuestInv
  OBVIOUS
<1> USE NamesAre
<1>1. Range(<<>>) = {} /\ IsInjective(<<>>)
  BY DEF Range, IsInjective
<1>2. \A mix \in Mixes : mix[1] \in Nat /\ mix[2] \in Nat
  BY GuestAssumption
<1>3. noise \in Nat /\ restores \in Nat
  BY <1>2 DEF Init
<1>4. TypeOK
  <2>1. /\ pump \in {"waiting", "connected"} /\ peer \in {"none", "accepted"} /\ mine \in Nat
    BY DEF Init
  <2>2. /\ call \in [Calls -> {"locking", "writing", "waiting", "reporting", "done"}]
        /\ done \in [Calls -> Calls \cup {Progress, Garbage, None, "error"}]
        /\ answer \in [Calls -> Calls \cup {Progress, Garbage, None, "error", "dead"}]
        /\ proc \in {"up", "gone"} /\ watch \in {"waiting", "closed", "reported"}
        /\ mu = None /\ {dead, halting, raced} \subseteq BOOLEAN
    BY DEF Init
  <2>3. /\ stdin = <<>> /\ stdout = <<>> /\ queue = <<>> /\ wire = <<>>
        /\ reported = <<>> /\ recorded = <<>> /\ asked = {} /\ readers = {}
        /\ held = None /\ hello = 0 /\ theirs = 1
    BY DEF Init
  <2> QED  BY <1>3, <2>1, <2>2, <2>3 DEF TypeOK
<1>5. ScansAlone /\ OneAtATime /\ AnswerIsOwn
  BY DEF Init, ScansAlone, OneAtATime, AnswerIsOwn
<1>6. ReportedOnce /\ WireLive
  BY <1>1 DEF Init, ReportedOnce, WireLive
<1>7. Order
  <2>1. Joined(<<>>, <<>>) = <<>>
    <3>1. <<>> \in Seq({})
      OBVIOUS
    <3> QED  BY <3>1, JoinedEmpty
  <2>2. /\ recorded = <<>> /\ wire = <<>> /\ Hand = <<>> /\ queue = <<>>
        /\ reported = <<>> /\ burned = {}
    BY DEF Init, Hand
  <2>3. Kept(<<>>, Events \ {}) = <<>>
    BY KeptEmpty
  <2> QED  BY <2>1, <2>2, <2>3 DEF Order, Where
<1> QED  BY <1>4, <1>5, <1>6, <1>7, OrderIs DEF GuestInv

\* Every step of the guest and of the host's end keeps the inductive invariant.
LEMMA NextHolds ==
  GuestInv /\ [Next]_vars => GuestInv'
<1> SUFFICES ASSUME GuestInv, [Next]_vars
             PROVE  GuestInv'
  OBVIOUS
<1>1. TypeOK' /\ ScansAlone' /\ OneAtATime' /\ AnswerIsOwn'
  BY TypeNext, ScansNext, OneAtATimeNext, AnswerNext
<1>2. ReportedOnce' /\ WireLive' /\ Order'
  BY ReportedNext, WireNext, OrderNext
<1> QED  BY <1>1, <1>2, OrderIs DEF GuestInv

--------------------------------------------------------------------------------
(* The theorems                                                                 *)

\* The inductive invariant holds in every state of the guest, whatever its plugin does
\* and however often the machine is restored (pluginhost.go, pumpEvents).
THEOREM GuestInductiveHolds ==
  Spec => []GuestInv
BY InitHolds, NextHolds, PTL DEF Spec

\* An answer goes to its call, and events keep their order and number, across timeouts,
\* crashes and lost connections, for every number of calls and every length of the queue
\* (pluginhost.go, pumpEvents).
THEOREM GuestIsSafe ==
  Spec => []GuestSafe
<1>1. GuestInv => GuestSafe
  BY DEF GuestInv, GuestSafe
<1> QED  BY <1>1, GuestInductiveHolds, PTL

--------------------------------------------------------------------------------
(* The machine.                                                                 *)

\* A step of Shutdown moves the owner on and may leave a note.
LEMMA StopTyped ==
  ASSUME MachineTypeOK, NEW step \in Live, NEW refused \in BOOLEAN, Stop(step, refused)
  PROVE  MachineTypeOK'
<1>1. owner' \in Live \cup Over
  BY DEF Stop
<1>2. note' \in BOOLEAN
  BY Zenon DEF Stop
<1> QED  BY <1>1, <1>2 DEF MachineTypeOK, ScanTypeOK, Stop, order, kernel, guests, doctor

\* What a scan holds keeps its type.
LEMMA ScanTyped ==
  ASSUME ScanTypeOK, [MachineNext]_machineVars
  PROVE  ScanTypeOK'
<1> USE DEF ScanTypeOK, doctor
<1>1. CASE PrepareStep
  BY <1>1 DEF PrepareStep, Claim, NetUp, RestrictNet, NewMachine, Start, Refuse, Spawned, SpawnFails
<1>2. CASE BootStep
  BY <1>2 DEF BootStep, JailedPID, Confirmed, ConfirmFails, WaitReady, RestoreDone, EndRun, ToShutdown
<1>3. CASE ShutdownStep
  BY <1>3 DEF ShutdownStep, Ask, RequestShutdown, AwaitExit, CleanUp, RunReturns, Stop
<1>4. CASE PushStep
  BY <1>4 DEF PushStep, TryPushCredential, PushUnsupported, PushGivesUp, GuestReady, Pushed
<1>5. CASE GuestStep
  BY <1>5 DEF GuestStep, JailerWritesPid, GuestBoots, GuestFlushes, Halts, Signalled, Crashes, Ends
<1>6. CASE KillStep
  BY <1>6 DEF KillStep, KillOwner, WatchdogCleans, WatchdogLeaves
<1>7. CASE ReadDir \/ (\E p \in {"owner", "vmm"} : ReadGone(p))
  BY <1>7 DEF ReadDir, ReadGone, Looks, Present
<1>8. CASE ListTAPs \/ ListTables \/ DoctorEnds
  BY <1>8 DEF ListTAPs, ListTables, DoctorEnds, Looks, Residue
<1>9. CASE ReapOrphans
  BY <1>9 DEF ReapOrphans
<1>10. CASE UNCHANGED machineVars
  BY <1>10 DEF machineVars
<1> QED  BY <1>1, <1>2, <1>3, <1>4, <1>5, <1>6, <1>7, <1>8, <1>9, <1>10 DEF MachineNext, DoctorStep

\* Every variable of a machine keeps its type.
LEMMA MachineTypeOKNext ==
  ASSUME MachineTypeOK, [MachineNext]_machineVars
  PROVE  MachineTypeOK'
<1> USE DEF MachineTypeOK, order, kernel, guests, Over, Live, Booting, Stopping
<1>0. ScanTypeOK'
  BY ScanTyped
<1>1. CASE PrepareStep
  BY <1>0, <1>1 DEF PrepareStep, Claim, NetUp, RestrictNet, NewMachine, Start, Refuse, Spawned, SpawnFails
<1>2. CASE BootStep
  <2>1. CASE JailedPID
    BY <1>0, <2>1 DEF JailedPID, ToShutdown
  <2>2. CASE Confirmed
    <3>1. /\ owner' \in Live /\ record' \in BOOLEAN
          /\ guest' \in {"off", "booting", "listening", "old", "halting"}
          /\ cred' \in {"none", "frozen", "current"} /\ push' \in {"idle", "trying", "done", "unsupported", "failed"}
      BY <1>0, <2>2 DEF Confirmed
    <3> QED  BY <1>0, <2>2, <3>1 DEF Confirmed
  <2>3. CASE ConfirmFails
    BY <1>0, <2>3 DEF ConfirmFails, ToShutdown
  <2>4. CASE WaitReady
    BY <1>0, <2>4 DEF WaitReady, ToShutdown
  <2>5. CASE RestoreDone
    BY <1>0, <2>5 DEF RestoreDone, ToShutdown
  <2>6. CASE EndRun
    BY <1>0, <2>6 DEF EndRun, ToShutdown
  <2> QED  BY <1>2, <2>1, <2>2, <2>3, <2>4, <2>5, <2>6 DEF BootStep
<1>3. CASE ShutdownStep
  <2>1. CASE Ask
    <3>1. PICK step \in Live, refused \in BOOLEAN : Stop(step, refused)
      BY <2>1 DEF Ask
    <3> QED  BY <3>1, StopTyped
  <2>2. CASE RequestShutdown
    <3>1. PICK step \in Live, refused \in BOOLEAN : Stop(step, refused)
      BY <2>2 DEF RequestShutdown
    <3> QED  BY <3>1, StopTyped
  <2>3. CASE AwaitExit
    <3>1. PICK step \in Live, refused \in BOOLEAN : Stop(step, refused)
      BY <2>3 DEF AwaitExit
    <3> QED  BY <3>1, StopTyped
  <2>4. CASE CleanUp
    BY <1>0, <2>4 DEF CleanUp, JailRemoved
  <2>5. CASE RunReturns
    BY <1>0, <2>5 DEF RunReturns
  <2> QED  BY <1>3, <2>1, <2>2, <2>3, <2>4, <2>5 DEF ShutdownStep
<1>4. CASE PushStep
  BY <1>0, <1>4 DEF PushStep, TryPushCredential, PushUnsupported, PushGivesUp, GuestReady, Pushed, Authentic
<1>5. CASE GuestStep
  BY <1>0, <1>5 DEF GuestStep, JailerWritesPid, GuestBoots, GuestFlushes, Halts, Signalled, Crashes, Ends
<1>6. CASE KillStep
  <2>1. CASE KillOwner
    BY <1>0, <2>1 DEF KillOwner
  <2>2. CASE WatchdogCleans
    BY <1>0, <2>2 DEF WatchdogCleans, JailRemoved
  <2>3. CASE WatchdogLeaves
    BY <1>0, <2>3 DEF WatchdogLeaves
  <2> QED  BY <1>6, <2>1, <2>2, <2>3 DEF KillStep
<1>7. CASE DoctorStep
  <2>1. CASE ReadDir \/ (\E p \in {"owner", "vmm"} : ReadGone(p)) \/ ListTAPs \/ ListTables \/ DoctorEnds
    BY <1>0, <2>1 DEF ReadDir, ReadGone, ListTAPs, ListTables, DoctorEnds, Looks
  <2>2. CASE ReapOrphans
    <3>1. dir' \in BOOLEAN /\ record' \in BOOLEAN /\ pidFile' \in BOOLEAN
      BY <2>2, Zenon DEF ReapOrphans
    <3>2. tap' = FALSE /\ table' = FALSE /\ vmm' \in {"none", "up", "dead"}
      BY <2>2 DEF ReapOrphans
    <3>3. UNCHANGED <<order, owner, waiter, note, push, readyCh, listening, slice, guests,
                      watchdog, crashed>>
      BY <2>2 DEF ReapOrphans
    <3>4. tap' \in BOOLEAN /\ table' \in BOOLEAN
      BY <3>2
    <3>5. {jailed', wantNet', cacheEnv', waiter', note', readyCh', listening', pidFile',
           dir', record', tap', table', slice', flushed', crashed'} \subseteq BOOLEAN
      BY <3>1, <3>3, <3>4
    <3> QED  BY <1>0, <3>2, <3>3, <3>5
  <2> QED  BY <1>7, <2>1, <2>2 DEF DoctorStep
<1>8. CASE UNCHANGED machineVars
  BY <1>0, <1>8 DEF machineVars
<1> QED  BY <1>1, <1>2, <1>3, <1>4, <1>5, <1>6, <1>7, <1>8 DEF MachineNext

\* A machine has no VMM before its child runs, nor when Shutdown gets to its cleanup.
LEMMA NotYetNext ==
  ASSUME NotYet, ScanKept, MachineTypeOK, [MachineNext]_machineVars
  PROVE  NotYet'
<1> USE DEF NotYet, ScanKept, MachineTypeOK, order, kernel, guests, doctor, Live, Booting, Stopping, BeforeStart
<1>1. CASE PrepareStep
  BY <1>1 DEF PrepareStep, Claim, NetUp, RestrictNet, NewMachine, Start, Refuse, Spawned, SpawnFails
<1>2. CASE BootStep
  BY <1>2 DEF BootStep, JailedPID, Confirmed, ConfirmFails, WaitReady, RestoreDone, EndRun, ToShutdown
<1>3. CASE ShutdownStep
  BY <1>3 DEF ShutdownStep, Ask, RequestShutdown, AwaitExit, CleanUp, RunReturns, Stop, Done, JailRemoved
<1>4. CASE PushStep
  BY <1>4 DEF PushStep, TryPushCredential, PushUnsupported, PushGivesUp, GuestReady, Pushed, Authentic
<1>5. CASE GuestStep
  BY <1>5 DEF GuestStep, JailerWritesPid, GuestBoots, GuestFlushes, Halts, Signalled, Crashes, Ends
<1>6. CASE KillStep
  BY <1>6 DEF KillStep, KillOwner, WatchdogCleans, WatchdogLeaves, JailRemoved
<1>7. CASE DoctorStep
  <2>1. owner = "idle" => found' = {}
    <3>1. CASE ListTAPs
      <4>1. owner = "idle" => ~tap /\ ~OrphanedVMM
        BY DEF OrphanedVMM
      <4>2. ~tap /\ ~OrphanedVMM => found' = {}
        BY <3>1 DEF ListTAPs, Looks, Residue
      <4> QED  BY <4>1, <4>2
    <3>2. CASE ListTables
      BY <3>2 DEF ListTables, Looks, Residue
    <3>3. CASE ~ListTAPs /\ ~ListTables
      BY <1>7, <3>3 DEF DoctorStep, ReadDir, ReadGone, DoctorEnds, ReapOrphans, Looks
    <3> QED  BY <3>1, <3>2, <3>3
  <2>2. /\ owner' = owner /\ kind' = kind /\ cred' = cred /\ push' = push
        /\ vmm' = vmm \/ (vmm' = "dead" /\ vmm = "up")
        /\ (tap' = tap /\ table' = table) \/ (~tap' /\ ~table')
    BY <1>7 DEF DoctorStep, ReadDir, ReadGone, ListTAPs, ListTables, DoctorEnds, ReapOrphans,
                Looks, Corroborated
  <2> QED  BY <2>1, <2>2
<1>8. CASE UNCHANGED machineVars
  BY <1>8 DEF machineVars
<1> QED  BY <1>1, <1>2, <1>3, <1>4, <1>5, <1>6, <1>7, <1>8 DEF MachineNext

\* Only doctor's steps change what a scan holds; only Claim begins an owner, and only one
\* that begins while a scan is under way is missed by it (scanOrphans).
LEMMA OwnerGoesOn ==
  ASSUME MachineTypeOK, [MachineNext]_machineVars, ~DoctorStep
  PROVE  /\ scan' = scan /\ seen' = seen /\ found' = found
         /\ kind' = kind /\ cacheEnv' = cacheEnv
         /\ owner \notin BeforeStart => owner' \notin BeforeStart
         /\ owner' \in Live => owner \in Live \cup {"idle"}
         /\ owner' \in Live /\ ~missed' =>
               (owner \in Live /\ ~missed) \/ (owner = "idle" /\ scan = "off")
         /\ owner' = "idle" => owner = "idle"
         /\ owner' \in Live \ {"closed"} => owner \in (Live \ {"closed"}) \cup {"idle"}
<1> USE DEF order, doctor, Live, Booting, Stopping, BeforeStart
<1>1. CASE PrepareStep
  <2>1. CASE Claim
    <3>1. ~missed' <=> scan = "off"
      BY <2>1, Zenon DEF Claim
    <3> QED  BY <2>1, <3>1 DEF Claim
  <2>2. CASE ~Claim
    BY <1>1, <2>2 DEF PrepareStep, NetUp, RestrictNet, NewMachine, Start, Refuse, Spawned, SpawnFails
  <2> QED  BY <2>1, <2>2
<1>2. CASE BootStep
  BY <1>2 DEF BootStep, JailedPID, Confirmed, ConfirmFails, WaitReady, RestoreDone, EndRun, ToShutdown
<1>3. CASE ShutdownStep
  BY <1>3 DEF ShutdownStep, Ask, RequestShutdown, AwaitExit, CleanUp, RunReturns, Stop, Done, JailRemoved
<1>4. CASE PushStep
  BY <1>4 DEF PushStep, TryPushCredential, PushUnsupported, PushGivesUp, GuestReady, Pushed, Authentic
<1>5. CASE GuestStep
  BY <1>5 DEF GuestStep, JailerWritesPid, GuestBoots, GuestFlushes, Halts, Signalled, Crashes, Ends
<1>6. CASE KillStep
  BY <1>6 DEF KillStep, KillOwner, WatchdogCleans, WatchdogLeaves, JailRemoved
<1>7. CASE UNCHANGED machineVars
  BY <1>7 DEF machineVars
<1> QED  BY <1>1, <1>2, <1>3, <1>4, <1>5, <1>6, <1>7 DEF MachineNext

\* Between its stages a scan holds nothing that they do not need (scanOrphans).
LEMMA ScanStagesNext ==
  ASSUME ScanStages, MachineTypeOK, [MachineNext]_machineVars
  PROVE  ScanStages'
<1>1. CASE ~DoctorStep
  BY <1>1, OwnerGoesOn DEF ScanStages
<1>2. CASE DoctorStep
  BY <1>2 DEF ScanStages, DoctorStep, ReadDir, ReadGone, ListTAPs, ListTables, DoctorEnds,
              ReapOrphans, Looks
<1> QED  BY <1>1, <1>2

\* A scan goes by the owner of a machine it did not miss, lists a VMM whose owner is gone,
\* and nothing that an owner it read claims (scanOrphans).
LEMMA ScanKeptNext ==
  ASSUME ScanKept, ScanStages, NotYet, Holds, MachineTypeOK, [MachineNext]_machineVars
  PROVE  ScanKept'
<1>1. CASE ~DoctorStep
  <2>1. /\ scan' = scan /\ seen' = seen /\ found' = found
        /\ kind' = kind /\ cacheEnv' = cacheEnv
        /\ owner \notin BeforeStart => owner' \notin BeforeStart
        /\ owner' \in Live => owner \in Live \cup {"idle"}
        /\ owner' \in Live /\ ~missed' =>
              (owner \in Live /\ ~missed) \/ (owner = "idle" /\ scan = "off")
        /\ owner' = "idle" => owner = "idle"
        /\ owner' \in Live \ {"closed"} => owner \in (Live \ {"closed"}) \cup {"idle"}
    BY <1>1, OwnerGoesOn
  <2>2. owner = "idle" => found = {}
    BY DEF NotYet
  <2>3. "idle" \in BeforeStart /\ "idle" \notin Live
    BY DEF BeforeStart, Live, Booting, Stopping
  <2>4. "vmm" \in seen => owner \notin BeforeStart
    BY DEF ScanKept
  <2>5. "vmm" \in seen' /\ owner' \in Live => "owner" \in seen'
    BY <2>1, <2>3, <2>4 DEF ScanKept
  <2>6. scan' \in {"reading", "tables"} /\ owner' \in Live /\ ~missed' => "owner" \in seen'
    BY <2>1 DEF ScanKept
  <2>7. "vmm" \in seen' => owner' \notin BeforeStart
    BY <2>1, <2>4
  <2>8. "vmm" \in found' => owner' \notin Live \cup {"idle"}
    BY <2>1, <2>3 DEF ScanKept
  <2>9. kind' = "boot" /\ cacheEnv' /\ ~missed' /\ owner' \in Live \ {"closed"} => found' = {}
    <3>1. kind = "boot" /\ cacheEnv /\ ~missed /\ owner \in Live \ {"closed"} => found = {}
      BY DEF ScanKept
    <3> QED  BY <2>1, <2>2, <3>1
  <2> QED  BY <2>5, <2>6, <2>7, <2>8, <2>9 DEF ScanKept
<1>2. CASE ReadDir \/ (\E p \in {"owner", "vmm"} : ReadGone(p))
  <2>1. /\ owner' = owner /\ found' = {} /\ missed' = missed
        /\ \/ seen' = Present
           \/ scan = "reading" /\ \E p \in seen \ Present : seen' = seen \ {p}
    BY <1>2 DEF ReadDir, ReadGone, Looks
  <2>2. owner \in BeforeStart => vmm # "up"
    BY DEF NotYet
  <2>3. "owner" \in Present <=> owner \in Live
    BY DEF Present
  <2>4. "vmm" \in Present => vmm = "up"
    BY DEF Present
  <2> QED  BY <2>1, <2>2, <2>3, <2>4 DEF ScanKept
<1>3. CASE ListTAPs \/ ListTables
  <2>1. /\ owner' = owner /\ kind' = kind /\ cacheEnv' = cacheEnv /\ missed' = missed
        /\ scan \in {"reading", "tables"} /\ seen' \in {seen, {}}
        /\ scan' \in {"reading", "tables"} => seen' = seen
    BY <1>3 DEF ListTAPs, ListTables, Looks, order
  <2>2. "vmm" \in found' => "vmm" \in found \/ OrphanedVMM
    BY <1>3 DEF ListTAPs, ListTables, Looks, Residue
  <2>3. OrphanedVMM => owner \notin Live \cup {"idle"}
    BY DEF OrphanedVMM, ScanKept, BeforeStart
  <2>4. ASSUME kind = "boot", cacheEnv, ~missed, owner \in Live \ {"closed"}
        PROVE  found' = {}
    <3>1. "owner" \in seen /\ dir
      BY <2>1, <2>4 DEF ScanKept, Holds
    <3>2. Claimed /\ ~OrphanedVMM
      BY <2>4, <3>1 DEF Claimed, OrphanedVMM, Present
    <3>3. found = {}
      BY <2>4 DEF ScanKept
    <3> QED  BY <1>3, <3>2, <3>3 DEF ListTAPs, ListTables, Looks, Residue
  <2> QED  BY <2>1, <2>2, <2>3, <2>4 DEF ScanKept
<1>4. CASE DoctorEnds \/ ReapOrphans
  <2>1. found' = {} /\ seen' = {} /\ scan' = "off"
    BY <1>4 DEF DoctorEnds, ReapOrphans, Looks, ScanStages
  <2> QED  BY <2>1 DEF ScanKept
<1> QED  BY <1>1, <1>2, <1>3, <1>4 DEF DoctorStep

\* A machine under way keeps its directory, and a seen one its TAP, from the claim on.
LEMMA HoldsNext ==
  ASSUME Holds, ScanKept, ScanStages, InUseIntact, MachineTypeOK, [MachineNext]_machineVars
  PROVE  Holds'
<1> USE DEF Holds, ScanKept, ScanStages, InUseIntact, Whole, MachineTypeOK, order, kernel, guests, doctor, Live, Booting, Stopping
<1>1. CASE PrepareStep
  BY <1>1 DEF PrepareStep, Claim, NetUp, RestrictNet, NewMachine, Start, Refuse, Spawned, SpawnFails
<1>2. CASE BootStep
  BY <1>2 DEF BootStep, JailedPID, Confirmed, ConfirmFails, WaitReady, RestoreDone, EndRun, ToShutdown
<1>3. CASE ShutdownStep
  BY <1>3 DEF ShutdownStep, Ask, RequestShutdown, AwaitExit, CleanUp, RunReturns, Stop, Done, JailRemoved
<1>4. CASE PushStep
  BY <1>4 DEF PushStep, TryPushCredential, PushUnsupported, PushGivesUp, GuestReady, Pushed, Authentic
<1>5. CASE GuestStep
  BY <1>5 DEF GuestStep, JailerWritesPid, GuestBoots, GuestFlushes, Halts, Signalled, Crashes, Ends
<1>6. CASE KillStep
  BY <1>6 DEF KillStep, KillOwner, WatchdogCleans, WatchdogLeaves, JailRemoved
<1>7. CASE DoctorStep
  <2>1. CASE ReapOrphans
    BY <2>1 DEF ReapOrphans
  <2>2. CASE ~ReapOrphans
    <3>1. UNCHANGED <<order, owner, kernel, missed>>
      BY <1>7, <2>2 DEF DoctorStep, ReadDir, ReadGone, ListTAPs, ListTables, DoctorEnds, Looks
    <3> QED  BY <3>1
  <2> QED  BY <2>1, <2>2
<1>8. CASE UNCHANGED machineVars
  BY <1>8 DEF machineVars
<1> QED  BY <1>1, <1>2, <1>3, <1>4, <1>5, <1>6, <1>7, <1>8 DEF MachineNext

\* The credential of this session replaces the frozen one and is never replaced
\* (tryPushCredential).
LEMMA MintedNext ==
  ASSUME Minted, NotYet, MachineTypeOK, [MachineNext]_machineVars
  PROVE  Minted'
<1> USE DEF Minted, NotYet, MachineTypeOK, order, kernel, guests, doctor, BeforeStart
<1>1. CASE PrepareStep
  BY <1>1 DEF PrepareStep, Claim, NetUp, RestrictNet, NewMachine, Start, Refuse, Spawned, SpawnFails
<1>2. CASE BootStep
  BY <1>2 DEF BootStep, JailedPID, Confirmed, ConfirmFails, WaitReady, RestoreDone, EndRun, ToShutdown
<1>3. CASE ShutdownStep
  BY <1>3 DEF ShutdownStep, Ask, RequestShutdown, AwaitExit, CleanUp, RunReturns, Stop, Done, JailRemoved
<1>4. CASE PushStep
  BY <1>4 DEF PushStep, TryPushCredential, PushUnsupported, PushGivesUp, GuestReady, Pushed, Authentic
<1>5. CASE GuestStep
  BY <1>5 DEF GuestStep, JailerWritesPid, GuestBoots, GuestFlushes, Halts, Signalled, Crashes, Ends
<1>6. CASE KillStep
  BY <1>6 DEF KillStep, KillOwner, WatchdogCleans, WatchdogLeaves, JailRemoved
<1>7. CASE DoctorStep
  BY <1>7 DEF DoctorStep, ReadDir, ReadGone, ListTAPs, ListTables, DoctorEnds, ReapOrphans, Looks
<1>8. CASE UNCHANGED machineVars
  BY <1>8 DEF machineVars
<1> QED  BY <1>1, <1>2, <1>3, <1>4, <1>5, <1>6, <1>7, <1>8 DEF MachineNext

\* What ended the VMM is known from the stage of Shutdown at which it ended.
LEMMA EndKnownNext ==
  ASSUME EndKnown, NotYet, ScanKept, MachineTypeOK, [MachineNext]_machineVars
  PROVE  EndKnown'
<1> USE DEF EndKnown, NotYet, ScanKept, MachineTypeOK, order, kernel, guests, doctor, Live, Booting, Stopping, BeforeStart
<1>1. CASE PrepareStep
  BY <1>1 DEF PrepareStep, Claim, NetUp, RestrictNet, NewMachine, Start, Refuse, Spawned, SpawnFails
<1>2. CASE BootStep
  BY <1>2 DEF BootStep, JailedPID, Confirmed, ConfirmFails, WaitReady, RestoreDone, EndRun, ToShutdown
<1>3. CASE ShutdownStep
  BY <1>3 DEF ShutdownStep, Ask, RequestShutdown, AwaitExit, CleanUp, RunReturns, Stop, Done, JailRemoved
<1>4. CASE PushStep
  BY <1>4 DEF PushStep, TryPushCredential, PushUnsupported, PushGivesUp, GuestReady, Pushed, Authentic
<1>5. CASE GuestStep
  BY <1>5 DEF GuestStep, JailerWritesPid, GuestBoots, GuestFlushes, Halts, Signalled, Crashes, Ends
<1>6. CASE KillStep
  BY <1>6 DEF KillStep, KillOwner, WatchdogCleans, WatchdogLeaves, JailRemoved
<1>7. CASE DoctorStep
  BY <1>7 DEF DoctorStep, ReadDir, ReadGone, ListTAPs, ListTables, DoctorEnds, ReapOrphans, Looks
<1>8. CASE UNCHANGED machineVars
  BY <1>8 DEF machineVars
<1> QED  BY <1>1, <1>2, <1>3, <1>4, <1>5, <1>6, <1>7, <1>8 DEF MachineNext

\* Shutdown removes what the machine made, and nothing makes it again (cleanup).
LEMMA NothingLeftNext ==
  ASSUME NothingLeft, NotYet, MachineTypeOK, [MachineNext]_machineVars
  PROVE  NothingLeft'
<1> USE DEF NothingLeft, NotYet, MachineTypeOK, order, kernel, guests, doctor, Freed, Live, Booting, Stopping
<1>1. CASE PrepareStep
  BY <1>1 DEF PrepareStep, Claim, NetUp, RestrictNet, NewMachine, Start, Refuse, Spawned, SpawnFails
<1>2. CASE BootStep
  BY <1>2 DEF BootStep, JailedPID, Confirmed, ConfirmFails, WaitReady, RestoreDone, EndRun, ToShutdown
<1>3. CASE ShutdownStep
  BY <1>3 DEF ShutdownStep, Ask, RequestShutdown, AwaitExit, CleanUp, RunReturns, Stop, Done, JailRemoved
<1>4. CASE PushStep
  BY <1>4 DEF PushStep, TryPushCredential, PushUnsupported, PushGivesUp, GuestReady, Pushed, Authentic
<1>5. CASE GuestStep
  BY <1>5 DEF GuestStep, JailerWritesPid, GuestBoots, GuestFlushes, Halts, Signalled, Crashes, Ends
<1>6. CASE KillStep
  BY <1>6 DEF KillStep, KillOwner, WatchdogCleans, WatchdogLeaves, JailRemoved
<1>7. CASE DoctorStep
  BY <1>7 DEF DoctorStep, ReadDir, ReadGone, ListTAPs, ListTables, DoctorEnds, ReapOrphans, Looks
<1>8. CASE UNCHANGED machineVars
  BY <1>8 DEF machineVars
<1> QED  BY <1>1, <1>2, <1>3, <1>4, <1>5, <1>6, <1>7, <1>8 DEF MachineNext

\* A machine is called up on a ready message, or a push, that carried its credential
\* (WaitReady, Restore).
LEMMA UpIsAuthenticatedNext ==
  ASSUME UpIsAuthenticated, Minted, ScanKept, Holds, MachineTypeOK, [MachineNext]_machineVars
  PROVE  UpIsAuthenticated'
<1> USE DEF UpIsAuthenticated, Minted, ScanKept, Holds, MachineTypeOK, order, kernel, guests, doctor, Live, Booting, Stopping
<1>1. CASE PrepareStep
  BY <1>1 DEF PrepareStep, Claim, NetUp, RestrictNet, NewMachine, Start, Refuse, Spawned, SpawnFails
<1>2. CASE BootStep
  BY <1>2 DEF BootStep, JailedPID, Confirmed, ConfirmFails, WaitReady, RestoreDone, EndRun, ToShutdown
<1>3. CASE ShutdownStep
  BY <1>3 DEF ShutdownStep, Ask, RequestShutdown, AwaitExit, CleanUp, RunReturns, Stop, Done, JailRemoved
<1>4. CASE PushStep
  BY <1>4 DEF PushStep, TryPushCredential, PushUnsupported, PushGivesUp, GuestReady, Pushed, Authentic
<1>5. CASE GuestStep
  BY <1>5 DEF GuestStep, JailerWritesPid, GuestBoots, GuestFlushes, Halts, Signalled, Crashes, Ends
<1>6. CASE KillStep
  BY <1>6 DEF KillStep, KillOwner, WatchdogCleans, WatchdogLeaves, JailRemoved
<1>7. CASE DoctorStep
  BY <1>7 DEF DoctorStep, ReadDir, ReadGone, ListTAPs, ListTables, DoctorEnds, ReapOrphans, Looks
<1>8. CASE UNCHANGED machineVars
  BY <1>8 DEF machineVars
<1> QED  BY <1>1, <1>2, <1>3, <1>4, <1>5, <1>6, <1>7, <1>8 DEF MachineNext

\* What doctor can see in use it does not list, at any stage of its scan, and what it did
\* not list it does not remove (scanOrphans, reapOrphans).
LEMMA InUseIntactNext ==
  ASSUME InUseIntact, ScanKept, ScanStages, Holds, MachineTypeOK, [MachineNext]_machineVars
  PROVE  InUseIntact'
<1> USE DEF InUseIntact, Whole, ScanKept, ScanStages, Holds, MachineTypeOK, order, kernel, guests, doctor, Live, Booting, Stopping
<1>1. CASE PrepareStep
  BY <1>1 DEF PrepareStep, Claim, NetUp, RestrictNet, NewMachine, Start, Refuse, Spawned, SpawnFails
<1>2. CASE BootStep
  BY <1>2 DEF BootStep, JailedPID, Confirmed, ConfirmFails, WaitReady, RestoreDone, EndRun, ToShutdown
<1>3. CASE ShutdownStep
  BY <1>3 DEF ShutdownStep, Ask, RequestShutdown, AwaitExit, CleanUp, RunReturns, Stop, Done, JailRemoved
<1>4. CASE PushStep
  BY <1>4 DEF PushStep, TryPushCredential, PushUnsupported, PushGivesUp, GuestReady, Pushed, Authentic
<1>5. CASE GuestStep
  BY <1>5 DEF GuestStep, JailerWritesPid, GuestBoots, GuestFlushes, Halts, Signalled, Crashes, Ends
<1>6. CASE KillStep
  BY <1>6 DEF KillStep, KillOwner, WatchdogCleans, WatchdogLeaves, JailRemoved
<1>7. CASE DoctorStep
  <2>1. CASE ReapOrphans
    BY <2>1 DEF ReapOrphans
  <2>2. CASE ~ReapOrphans
    <3>1. UNCHANGED <<order, owner, kernel, missed>>
      BY <1>7, <2>2 DEF DoctorStep, ReadDir, ReadGone, ListTAPs, ListTables, DoctorEnds, Looks
    <3> QED  BY <3>1
  <2> QED  BY <2>1, <2>2
<1>8. CASE UNCHANGED machineVars
  BY <1>8 DEF machineVars
<1> QED  BY <1>1, <1>2, <1>3, <1>4, <1>5, <1>6, <1>7, <1>8 DEF MachineNext

\* A Shutdown that leaves no note ended a machine that had flushed (Shutdown).
LEMMA NoteTruthfulNext ==
  ASSUME NoteTruthful, EndKnown, NotYet, MachineTypeOK, [MachineNext]_machineVars
  PROVE  NoteTruthful'
<1> USE DEF NoteTruthful, EndKnown, NotYet, MachineTypeOK, order, kernel, guests, doctor, Live, Booting, Stopping
<1>1. CASE PrepareStep
  BY <1>1 DEF PrepareStep, Claim, NetUp, RestrictNet, NewMachine, Start, Refuse, Spawned, SpawnFails
<1>2. CASE BootStep
  BY <1>2 DEF BootStep, JailedPID, Confirmed, ConfirmFails, WaitReady, RestoreDone, EndRun, ToShutdown
<1>3. CASE ShutdownStep
  BY <1>3 DEF ShutdownStep, Ask, RequestShutdown, AwaitExit, CleanUp, RunReturns, Stop, Done, JailRemoved
<1>4. CASE PushStep
  BY <1>4 DEF PushStep, TryPushCredential, PushUnsupported, PushGivesUp, GuestReady, Pushed, Authentic
<1>5. CASE GuestStep
  BY <1>5 DEF GuestStep, JailerWritesPid, GuestBoots, GuestFlushes, Halts, Signalled, Crashes, Ends
<1>6. CASE KillStep
  BY <1>6 DEF KillStep, KillOwner, WatchdogCleans, WatchdogLeaves, JailRemoved
<1>7. CASE DoctorStep
  BY <1>7 DEF DoctorStep, ReadDir, ReadGone, ListTAPs, ListTables, DoctorEnds, ReapOrphans, Looks
<1>8. CASE UNCHANGED machineVars
  BY <1>8 DEF machineVars
<1> QED  BY <1>1, <1>2, <1>3, <1>4, <1>5, <1>6, <1>7, <1>8 DEF MachineNext


\* A machine begins with nothing, of whatever kind it is to be.
LEMMA MachineStarts == MachineInit => MachineInv
<1> SUFFICES ASSUME MachineInit
             PROVE  MachineInv
  OBVIOUS
<1> USE DEF MachineInit
<1>1. MachineTypeOK
  BY DEF MachineTypeOK, ScanTypeOK, Over
<1>2. NothingLeft /\ UpIsAuthenticated /\ NoteTruthful /\ Minted
  BY DEF NothingLeft, UpIsAuthenticated, NoteTruthful, Minted
<1>3. InUseIntact /\ ScanStages /\ ScanKept /\ Holds /\ EndKnown
  BY DEF InUseIntact, Whole, ScanStages, ScanKept, Holds, EndKnown, Live, Booting, Stopping
<1>4. NotYet
  BY DEF NotYet, BeforeStart
<1> QED  BY <1>1, <1>2, <1>3, <1>4 DEF MachineInv, MachineSafe

\* Whatever its owner, its VMM, its watchdog and any doctor do, and wherever each is
\* killed: see MachineInv.
LEMMA MachineInductive == MachineSpec => []MachineInv
<1>1. MachineInv /\ [MachineNext]_machineVars => MachineInv'
  <2> SUFFICES ASSUME MachineInv, [MachineNext]_machineVars
               PROVE  MachineInv'
    OBVIOUS
  <2>1. /\ MachineTypeOK /\ NothingLeft /\ UpIsAuthenticated /\ InUseIntact /\ NoteTruthful
        /\ NotYet /\ Minted /\ ScanStages /\ ScanKept /\ Holds /\ EndKnown
    BY DEF MachineInv, MachineSafe
  <2>2. MachineTypeOK' /\ NothingLeft' /\ UpIsAuthenticated' /\ InUseIntact' /\ NoteTruthful'
    BY <2>1, MachineTypeOKNext, NothingLeftNext, UpIsAuthenticatedNext, InUseIntactNext,
       NoteTruthfulNext
  <2>3. NotYet' /\ Minted' /\ ScanStages' /\ ScanKept' /\ Holds' /\ EndKnown'
    BY <2>1, NotYetNext, MintedNext, ScanStagesNext, ScanKeptNext, HoldsNext, EndKnownNext
  <2> QED  BY <2>2, <2>3 DEF MachineInv, MachineSafe
<1> QED  BY <1>1, MachineStarts, PTL DEF MachineSpec

\* A machine is called up only when its guest holds this session's credential, and one
\* that ended, or was never made, leaves nothing behind (Shutdown, cleanup, WaitReady).
THEOREM MachineIsSafe == MachineSpec => []MachineSafe
<1>1. MachineInv => MachineSafe
  BY DEF MachineInv
<1> QED  BY <1>1, MachineInductive, PTL

\* What doctor can see in use keeps its directory and its network, whatever happens between
\* the stages of a scan: unless it began while one was under way (scanOrphans, reapOrphans).
THEOREM InUseStaysIntact == MachineSpec => []InUseIntact
<1>1. MachineInv => InUseIntact
  BY DEF MachineInv
<1> QED  BY <1>1, MachineInductive, PTL

\* A Shutdown without a note means a flushed workspace, unless the VMM ended by itself.
THEOREM NoteIsTruthful == MachineSpec => []NoteTruthful
<1>1. MachineInv => NoteTruthful
  BY DEF MachineInv
<1> QED  BY <1>1, MachineInductive, PTL

--------------------------------------------------------------------------------
(* What the guest confines.                                                        *)

\* A jump's offset fits its byte (seccompProgram's bound of 253 entries).
LEMMA FitsByte ==
  ASSUME NEW x \in Nat, x < ByteMax
  PROVE  x % ByteMax = x
<1>1. ByteMax \in Nat \ {0}
  BY ConfineAssumption
<1>2. \A m \in Nat \ {0} : x < m => x % m = x
  OBVIOUS
<1> QED  BY <1>1, <1>2

\* The filter of a list: the architecture, the call, a comparison for each entry, the two
\* answers (seccompProgram).
LEMMA ProgramIs ==
  ASSUME NEW denied \in Seq(STRING), Len(denied) \in 1..(ByteMax - 3),
         NEW prog, prog = seccompProgram(denied)
  PROVE  /\ Len(prog) = Len(denied) + 5 /\ prog # <<>>
         /\ prog[1] = Load("arch")
         /\ prog[2] = [code |-> "jeq", k |-> Native, jt |-> 0, jf |-> Len(denied) + 2]
         /\ prog[3] = Load("nr")
         /\ \A i \in 1..Len(denied) :
               prog[3 + i] = [code |-> "jeq", k |-> denied[i], jt |-> Len(denied) - i + 1, jf |-> 0]
         /\ prog[Len(denied) + 4] = Return("allow")
         /\ prog[Len(denied) + 5] = Return("errno")
<1>a. ByteMax \in Nat \ {0} /\ Len(denied) \in Nat
  BY ConfineAssumption
<1>1. PICK chain : chain = [i \in 1..Len(denied) |-> Jump(denied[i], Len(denied) - i + 1, 0)]
  OBVIOUS
<1>2. PICK front : front = <<Load("arch"), Jump(Native, 0, Len(denied) + 2), Load("nr")>>
  OBVIOUS
<1>3. PICK back : back = <<Return("allow"), Return("errno")>>
  OBVIOUS
<1>4. \A i \in 1..Len(denied) :
         Jump(denied[i], Len(denied) - i + 1, 0)
           = [code |-> "jeq", k |-> denied[i], jt |-> Len(denied) - i + 1, jf |-> 0]
  <2> TAKE i \in 1..Len(denied)
  <2>1. Len(denied) - i + 1 \in Nat /\ Len(denied) - i + 1 < ByteMax /\ 0 < ByteMax
    BY <1>a
  <2>2. (Len(denied) - i + 1) % ByteMax = Len(denied) - i + 1 /\ 0 % ByteMax = 0
    BY <2>1, FitsByte
  <2> QED  BY <2>2 DEF Jump
<1>5. Jump(Native, 0, Len(denied) + 2)
        = [code |-> "jeq", k |-> Native, jt |-> 0, jf |-> Len(denied) + 2]
  <2>1. Len(denied) + 2 \in Nat /\ Len(denied) + 2 < ByteMax /\ 0 < ByteMax
    BY <1>a
  <2>2. (Len(denied) + 2) % ByteMax = Len(denied) + 2 /\ 0 % ByteMax = 0
    BY <2>1, FitsByte
  <2> QED  BY <2>2 DEF Jump
<1>e. PICK a, b, c : a = Load("arch") /\ b = Jump(Native, 0, Len(denied) + 2) /\ c = Load("nr")
  OBVIOUS
<1>g. PICK y, z : y = Return("allow") /\ z = Return("errno")
  OBVIOUS
<1> DEFINE Instr == {a, b, c, y, z} \cup {chain[i] : i \in 1..Len(denied)}
<1>f. a \in Instr /\ b \in Instr /\ c \in Instr /\ y \in Instr /\ z \in Instr
      /\ \A i \in 1..Len(denied) : chain[i] \in Instr
  OBVIOUS
<1> HIDE DEF Instr
<1>6. /\ front \in Seq(Instr) /\ Len(front) = 3
      /\ front[1] = a /\ front[2] = b /\ front[3] = c
  BY <1>2, <1>e, <1>f
<1>7. chain \in Seq(Instr) /\ Len(chain) = Len(denied)
  BY <1>1, <1>a, <1>f
<1>8. back \in Seq(Instr) /\ Len(back) = 2 /\ back[1] = y /\ back[2] = z
  BY <1>3, <1>g, <1>f
<1>9. PICK both : both = front \o chain
  OBVIOUS
<1>10. /\ both \in Seq(Instr) /\ Len(both) = 3 + Len(denied)
       /\ \A i \in 1..3 : both[i] = front[i]
       /\ \A i \in 1..Len(denied) : both[3 + i] = chain[i]
  <2>1. front \in Seq(Instr) /\ chain \in Seq(Instr)
    BY <1>6, <1>7
  <2>2. /\ both \in Seq(Instr) /\ Len(both) = Len(front) + Len(chain)
        /\ \A i \in 1..Len(front) : both[i] = front[i]
        /\ \A i \in 1..Len(chain) : both[Len(front) + i] = chain[i]
    BY <1>9, <2>1, CatIs
  <2>3. Len(front) = 3 /\ Len(chain) = Len(denied)
    BY <1>6, <1>7
  <2> QED  BY <2>2, <2>3
<1>10a. both[1] = a /\ both[2] = b /\ both[3] = c
  BY <1>6, <1>10
<1>11. prog = both \o back
  <2>1. denied # <<>>
    BY <1>a
  <2> QED  BY <2>1, <1>1, <1>2, <1>3, <1>9 DEF seccompProgram
<1>12. /\ Len(prog) = (3 + Len(denied)) + 2
       /\ \A i \in 1..(3 + Len(denied)) : prog[i] = both[i]
       /\ \A i \in 1..2 : prog[(3 + Len(denied)) + i] = back[i]
  <2>1. both \in Seq(Instr) /\ back \in Seq(Instr)
    BY <1>8, <1>10
  <2>2. /\ Len(prog) = Len(both) + Len(back)
        /\ \A i \in 1..Len(both) : prog[i] = both[i]
        /\ \A i \in 1..Len(back) : prog[Len(both) + i] = back[i]
    BY <1>11, <2>1, CatIs
  <2>3. Len(both) = 3 + Len(denied) /\ Len(back) = 2
    BY <1>8, <1>10
  <2> QED  BY <2>2, <2>3
<1>12a. /\ Len(prog) = Len(denied) + 5
        /\ prog[Len(denied) + 4] = y /\ prog[Len(denied) + 5] = z
  <2>1. /\ (3 + Len(denied)) + 1 = Len(denied) + 4 /\ (3 + Len(denied)) + 2 = Len(denied) + 5
        /\ 1 \in 1..2 /\ 2 \in 1..2
    BY <1>a
  <2> QED  BY <1>8, <1>12, <2>1
<1>13. \A i \in 1..Len(denied) : prog[3 + i] = chain[i]
  <2> TAKE i \in 1..Len(denied)
  <2>1. 3 + i \in 1..(3 + Len(denied))
    BY <1>a
  <2> QED  BY <1>10, <1>12, <2>1
<1>14. prog[1] = a /\ prog[2] = b /\ prog[3] = c
  BY <1>10a, <1>12, <1>a
<1>15. prog # <<>>
  BY <1>12a, <1>a
<1>16. \A i \in 1..Len(denied) : chain[i] = Jump(denied[i], Len(denied) - i + 1, 0)
  BY <1>1
<1> QED  BY <1>4, <1>5, <1>e, <1>g, <1>12a, <1>13, <1>14, <1>15, <1>16

\* What is known after n turns of the filter's run: it is on its way through the chain, has
\* been sent to the refusal, or has answered (seccompProgram).
FilterSound(denied, arch, nr, n, s) ==
    LET Bad == arch # Native \/ nr \in Range(denied)
    IN  \/ s.got = "errno" /\ Bad
        \/ s.got = "allow" /\ ~Bad
        \/ s.got = "running" /\ n = 0 /\ s.pc = 1
        \/ s.got = "running" /\ n = 1 /\ s.pc = 2 /\ s.acc = arch
        \/ s.got = "running" /\ n = 2 /\ s.pc = 3 /\ arch = Native
        \/ /\ s.got = "running" /\ n \in 3..(Len(denied) + 3) /\ s.pc = n + 1 /\ s.acc = nr
           /\ arch = Native /\ \A i \in 1..(n - 3) : denied[i] # nr
        \/ s.got = "running" /\ n <= Len(denied) + 3 /\ s.pc = Len(denied) + 5 /\ Bad

\* Each turn of the filter's run keeps it.
LEMMA FilterTurn ==
  ASSUME NEW denied \in Seq(STRING), Len(denied) \in 1..(ByteMax - 3),
         NEW prog, prog = seccompProgram(denied),
         NEW arch \in STRING, NEW nr \in STRING,
         NEW n \in 1..Len(prog), NEW s \in FilterState,
         FilterSound(denied, arch, nr, n - 1, s)
  PROVE  /\ Execute(prog, [arch |-> arch, nr |-> nr], s) \in FilterState
         /\ FilterSound(denied, arch, nr, n, Execute(prog, [arch |-> arch, nr |-> nr], s))
<1> PICK data : data = [arch |-> arch, nr |-> nr]
  OBVIOUS
<1> PICK L : L = Len(denied)
  OBVIOUS
<1> PICK t : t = Execute(prog, data, s)
  OBVIOUS
<1>a. L \in Nat \ {0} /\ Len(prog) = L + 5 /\ n \in Nat /\ n \in 1..(L + 5)
  <2>1. ByteMax \in Nat
    BY ConfineAssumption
  <2>2. Len(prog) = L + 5
    BY ProgramIs
  <2> QED  BY <2>1, <2>2
<1>b. /\ prog[1] = Load("arch")
      /\ prog[2] = [code |-> "jeq", k |-> Native, jt |-> 0, jf |-> L + 2]
      /\ prog[3] = Load("nr")
      /\ \A i \in 1..L :
            prog[3 + i] = [code |-> "jeq", k |-> denied[i], jt |-> L - i + 1, jf |-> 0]
      /\ prog[L + 4] = Return("allow")
      /\ prog[L + 5] = Return("errno")
  BY ProgramIs
<1>c. /\ s.pc \in Nat /\ s.acc \in STRING \cup {"none"}
      /\ s.got \in {"running", "invalid", "allow", "errno"}
  BY DEF FilterState
<1>d. /\ Range(denied) = {denied[i] : i \in 1..L}
      /\ data["arch"] = arch /\ data["nr"] = nr
  BY DEF Range
<1> DEFINE Bad == arch # Native \/ nr \in Range(denied)
<1>s. SUFFICES t \in FilterState /\ FilterSound(denied, arch, nr, n, t)
  OBVIOUS
<1>1. CASE s.got # "running"
  <2>1. t = s
    BY <1>1 DEF Execute
  <2>2. (s.got = "errno" /\ Bad) \/ (s.got = "allow" /\ ~Bad)
    BY <1>1 DEF FilterSound
  <2> QED  BY <2>1, <2>2 DEF FilterSound
<1>2. CASE s.got = "running" /\ n - 1 = 0 /\ s.pc = 1
  <2>1. t = [pc |-> 2, acc |-> arch, got |-> "running"]
    BY <1>2, <1>a, <1>b, <1>d DEF Execute, Load
  <2>2. t \in FilterState
    BY <2>1 DEF FilterState
  <2>3. n = 1
    BY <1>2, <1>a
  <2> QED  BY <2>1, <2>2, <2>3 DEF FilterSound
<1>3. CASE s.got = "running" /\ n - 1 = 1 /\ s.pc = 2 /\ s.acc = arch
  <2>1. CASE arch = Native
    <3>1. t = [pc |-> 3, acc |-> arch, got |-> "running"]
      BY <1>3, <1>a, <1>b, <2>1 DEF Execute
    <3>2. t \in FilterState
      BY <3>1 DEF FilterState
    <3>3. n = 2
      BY <1>3, <1>a
    <3> QED  BY <2>1, <3>1, <3>2, <3>3 DEF FilterSound
  <2>2. CASE arch # Native
    <3>1. t = [pc |-> L + 5, acc |-> arch, got |-> "running"]
      BY <1>3, <1>a, <1>b, <2>2 DEF Execute
    <3>2. t \in FilterState
      BY <1>a, <3>1 DEF FilterState
    <3>3. n <= L + 3
      BY <1>3, <1>a
    <3> QED  BY <2>2, <3>1, <3>2, <3>3 DEF FilterSound
  <2> QED  BY <2>1, <2>2
<1>4. CASE s.got = "running" /\ n - 1 = 2 /\ s.pc = 3 /\ arch = Native
  <2>1. t = [pc |-> 4, acc |-> nr, got |-> "running"]
    BY <1>4, <1>a, <1>b, <1>d DEF Execute, Load
  <2>2. n = 3 /\ n \in 3..(L + 3)
    BY <1>4, <1>a
  <2>4. t \in FilterState
    BY <2>1 DEF FilterState
  <2>3. \A i \in 1..(n - 3) : denied[i] # nr
    BY <2>2
  <2> QED  BY <1>4, <2>1, <2>2, <2>3, <2>4 DEF FilterSound
<1>5. CASE /\ s.got = "running" /\ n - 1 \in 3..(L + 3) /\ s.pc = (n - 1) + 1 /\ s.acc = nr
           /\ arch = Native /\ \A i \in 1..((n - 1) - 3) : denied[i] # nr
  <2>0. s.pc = n /\ n \in 4..(L + 4)
    BY <1>5, <1>a
  <2>1. CASE n = L + 4
    <3>1. t = [pc |-> n, acc |-> nr, got |-> "allow"]
      BY <1>5, <1>a, <1>b, <2>0, <2>1 DEF Execute, Return
    <3>2. \A i \in 1..L : denied[i] # nr
      <4>1. (n - 1) - 3 = L
        BY <1>a, <2>1
      <4> QED  BY <1>5, <4>1
    <3>3. ~Bad
      BY <1>5, <1>d, <3>2
    <3>4. t \in FilterState
      BY <1>a, <3>1 DEF FilterState
    <3> QED  BY <3>1, <3>3, <3>4 DEF FilterSound
  <2>2. CASE n # L + 4
    <3>1. n - 3 \in 1..L /\ 3 + (n - 3) = n /\ n \in 3..(L + 3)
      BY <1>a, <2>0, <2>2
    <3>0. s.pc = n /\ ~(s.pc > Len(prog)) /\ s.got = "running" /\ s.acc = nr
      BY <1>5, <1>a, <2>0
    <3>2. prog[n] = [code |-> "jeq", k |-> denied[n - 3], jt |-> L - (n - 3) + 1, jf |-> 0]
      BY <1>b, <3>1
    <3>3. CASE denied[n - 3] = nr
      <4>1. t = [pc |-> n + 1 + (L - (n - 3) + 1), acc |-> nr, got |-> "running"]
        BY SMTT(30), <1>5, <3>0, <3>2, <3>3 DEF Execute
      <4>2. Bad
        BY <1>d, <3>1, <3>3
      <4>3. n + 1 + (L - (n - 3) + 1) = L + 5 /\ n <= L + 3 /\ L + 5 \in Nat
        BY <1>a, <3>1
      <4>4. t \in FilterState
        BY <4>1, <4>3 DEF FilterState
      <4> QED  BY <4>1, <4>2, <4>3, <4>4 DEF FilterSound
    <3>4. CASE denied[n - 3] # nr
      <4>1. t = [pc |-> n + 1, acc |-> nr, got |-> "running"]
        BY SMTT(30), <1>5, <1>a, <3>0, <3>2, <3>4 DEF Execute
      <4>2. \A i \in 1..(n - 3) : denied[i] # nr
        <5> TAKE i \in 1..(n - 3)
        <5>1. i = n - 3 \/ i \in 1..((n - 1) - 3)
          BY <1>a
        <5> QED  BY <1>5, <3>4, <5>1
      <4>3. t \in FilterState
        BY <1>a, <4>1 DEF FilterState
      <4> QED  BY <1>5, <3>1, <4>1, <4>2, <4>3 DEF FilterSound
    <3> QED  BY <3>3, <3>4
  <2> QED  BY <2>1, <2>2
<1>6. CASE s.got = "running" /\ n - 1 <= L + 3 /\ s.pc = L + 5 /\ Bad
  <2>1. t = [pc |-> L + 5, acc |-> s.acc, got |-> "errno"]
    BY <1>6, <1>a, <1>b DEF Execute, Return
  <2>2. t \in FilterState
    BY <1>a, <1>c, <2>1 DEF FilterState
  <2> QED  BY <1>6, <2>1, <2>2 DEF FilterSound
<1> QED  BY <1>1, <1>2, <1>3, <1>4, <1>5, <1>6 DEF FilterSound

\* The filter refuses what the profile refuses, calls of another architecture, and nothing
\* else, for every list its offsets can span (seccompProgram, applySeccomp).
LEMMA FilterExact ==
  ASSUME NEW denied \in Seq(STRING), Len(denied) \in 1..(ByteMax - 3),
         NEW arch \in STRING, NEW nr \in STRING
  PROVE  Filter(seccompProgram(denied), arch, nr) = "errno"
            <=> arch # Native \/ nr \in Range(denied)
<1>p. PICK prog : prog = seccompProgram(denied)
  OBVIOUS
<1>d. PICK data : data = [arch |-> arch, nr |-> nr]
  OBVIOUS
<1>s. PICK start : start = [pc |-> 1, acc |-> "none", got |-> "running"]
  OBVIOUS
<1>t. PICK turn : turn = [n \in 1..Len(prog) |-> [s \in FilterState |-> Execute(prog, data, s)]]
  OBVIOUS
<1>i. PICK I : I = {p \in (0..Len(prog)) \X FilterState : FilterSound(denied, arch, nr, p[1], p[2])}
  OBVIOUS
<1>a. Len(prog) = Len(denied) + 5 /\ prog # <<>> /\ Len(denied) \in Nat /\ Len(prog) \in Nat
  <2>1. ByteMax \in Nat
    BY ConfineAssumption
  <2>2. Len(prog) = Len(denied) + 5 /\ prog # <<>>
    BY <1>p, ProgramIs
  <2> QED  BY <2>1, <2>2
<1>j. \A n \in 0..Len(prog), q \in FilterState :
         FilterSound(denied, arch, nr, n, q) => <<n, q>> \in I
  <2> TAKE n \in 0..Len(prog), q \in FilterState
  <2>1. <<n, q>> \in (0..Len(prog)) \X FilterState /\ <<n, q>>[1] = n /\ <<n, q>>[2] = q
    OBVIOUS
  <2> QED  BY <1>i, <2>1
<1>1. <<0, start>> \in I
  <2>1. start \in FilterState
    BY <1>s DEF FilterState
  <2>2. FilterSound(denied, arch, nr, 0, start)
    BY <1>s DEF FilterSound
  <2>3. 0 \in 0..Len(prog)
    BY <1>a
  <2> QED  BY <1>j, <2>1, <2>2, <2>3, Zenon
<1>2. ASSUME NEW n \in 1..Len(prog), NEW s, <<n - 1, s>> \in I
      PROVE  <<n, turn[n][s]>> \in I
  <2>1. s \in FilterState /\ FilterSound(denied, arch, nr, n - 1, s)
    BY <1>2, <1>i
  <2>2. turn[n][s] = Execute(prog, data, s)
    BY <1>t, <2>1
  <2>3. Execute(prog, data, s) \in FilterState /\ FilterSound(denied, arch, nr, n, Execute(prog, data, s))
    BY <1>p, <1>d, <2>1, FilterTurn
  <2>4. n \in 0..Len(prog)
    BY <1>a
  <2> QED  BY <1>j, <2>2, <2>3, <2>4, Zenon
<1>3. <<Len(prog), Looped(turn, start, Len(prog))>> \in I
  <2>1. \A n \in 1..Len(prog) : \A s : <<n - 1, s>> \in I => <<n, turn[n][s]>> \in I
    BY <1>2
  <2> QED  BY <1>a, <1>1, <2>1, LoopKeeps
<1>4. Filter(prog, arch, nr) = Looped(turn, start, Len(prog)).got
  BY <1>a, <1>d, <1>s, <1>t DEF Filter
<1>5. PICK end : end = Looped(turn, start, Len(prog))
  OBVIOUS
<1>6. FilterSound(denied, arch, nr, Len(prog), end)
  BY <1>3, <1>5, <1>i
<1> QED  BY <1>p, <1>4, <1>5, <1>6, <1>a DEF FilterSound

\* What the profile refuses is a part of its list (Refused).
LEMMA RefusedSound ==
  ASSUME NEW deny \in Seq(STRING), NEW p
  PROVE  Refused(deny, p) \in Seq(STRING)
BY KeptSound DEF Refused

\* The filter is exact, whatever the profile refuses (Refused, seccompProgram).
LEMMA SeccompIsExact ==
  ASSUME NEW deny \in Seq(STRING), NEW p, NEW arch \in STRING, NEW nr \in STRING
  PROVE  SeccompExact(deny, p, arch, nr)
<1>1. Refused(deny, p) \in Seq(STRING)
  BY RefusedSound
<1>2. Len(Refused(deny, p)) \in 1..(ByteMax - 3) =>
         (Filter(seccompProgram(Refused(deny, p)), arch, nr) = "errno"
            <=> arch # Native \/ nr \in Range(Refused(deny, p)))
  BY <1>1, FilterExact
<1> QED  BY <1>2 DEF SeccompExact
\* The rules that reach a path: the root's, a tree's, a device's (applyLandlock).
LEMMA GrantedBy ==
  ASSUME NEW has, NEW path \in AnyPath, applyLandlock(2, has).ok, NEW right
  PROVE  right \in Granted(applyLandlock(2, has).rules, path) <=>
           \/ right \in readRights
           \/ right \in writeRights /\ \E d \in (Range(Write) \cup Range(DeviceTrees)) \cap has : Beneath(path, d)
           \/ right \in deviceRights /\ \E d \in Devices \cap has : Beneath(path, d)
<1> PICK trees : trees = {d \in Range(Write) \cup Range(DeviceTrees) : d \in has}
  OBVIOUS
<1>0. trees = (Range(Write) \cup Range(DeviceTrees)) \cap has
  OBVIOUS
<1> PICK rules : rules = {<< <<>>, readRights >>} \cup {<<d, writeRights>> : d \in trees}
                           \cup {<<d, deviceRights>> : d \in Devices \cap has}
  OBVIOUS
<1>1. applyLandlock(2, has).rules = rules
  BY DEF applyLandlock
<1>2. Beneath(path, <<>>)
  BY DEF Beneath, IsPrefix, AnyPath
<1>3. right \in Granted(rules, path) <=> \E r \in rules : Beneath(path, r[1]) /\ right \in r[2]
  BY DEF Granted
<1>4. (\E r \in rules : Beneath(path, r[1]) /\ right \in r[2]) <=>
           \/ right \in readRights
           \/ right \in writeRights /\ \E d \in trees : Beneath(path, d)
           \/ right \in deviceRights /\ \E d \in Devices \cap has : Beneath(path, d)
  <2>1. ASSUME NEW r \in rules, Beneath(path, r[1]), right \in r[2]
        PROVE  \/ right \in readRights
               \/ right \in writeRights /\ \E d \in trees : Beneath(path, d)
               \/ right \in deviceRights /\ \E d \in Devices \cap has : Beneath(path, d)
    BY <2>1
  <2>2. ASSUME right \in readRights
        PROVE  \E r \in rules : Beneath(path, r[1]) /\ right \in r[2]
    <3>1. << <<>>, readRights >> \in rules
      OBVIOUS
    <3> QED  BY <1>2, <2>2, <3>1
  <2>3. ASSUME right \in writeRights, NEW d \in trees, Beneath(path, d)
        PROVE  \E r \in rules : Beneath(path, r[1]) /\ right \in r[2]
    <3>1. <<d, writeRights>> \in rules
      OBVIOUS
    <3> QED  BY <2>3, <3>1
  <2>4. ASSUME right \in deviceRights, NEW d \in Devices \cap has, Beneath(path, d)
        PROVE  \E r \in rules : Beneath(path, r[1]) /\ right \in r[2]
    <3>1. <<d, deviceRights>> \in rules
      OBVIOUS
    <3> QED  BY <2>4, <3>1
  <2> QED  BY <2>1, <2>2, <2>3, <2>4
<1> QED  BY <1>0, <1>1, <1>3, <1>4

\* Nothing creates a device, everything may be read, and what the profile does not name
\* cannot be written (applyLandlock, deviceCreation).
LEMMA LandlockIsExact ==
  ASSUME NEW has, NEW path \in AnyPath
  PROVE  LandlockExact(has, path)
<1> PICK lock : lock = applyLandlock(2, has)
  OBVIOUS
<1> PICK rights : rights = Granted(lock.rules, path)
  OBVIOUS
<1>1. SUFFICES ASSUME lock.ok
               PROVE  /\ rights \cap deviceCreation = {}
                      /\ readRights \subseteq rights
                      /\ "write_file" \in rights <=>
                            \E d \in (Range(Write) \cup Range(DeviceTrees) \cup Devices) \cap has :
                                Beneath(path, d)
  BY DEF LandlockExact
<1>2. \A right : right \in rights =>
         right \in readRights \/ right \in writeRights \/ right \in deviceRights
  BY <1>1, GrantedBy
<1>3. rights \cap deviceCreation = {}
  BY <1>2 DEF readRights, writeRights, deviceRights, deviceCreation
<1>4. readRights \subseteq rights
  BY <1>1, GrantedBy
<1>5. "write_file" \in rights <=>
         \/ \E d \in (Range(Write) \cup Range(DeviceTrees)) \cap has : Beneath(path, d)
         \/ \E d \in Devices \cap has : Beneath(path, d)
  <2>1. /\ "write_file" \notin readRights /\ "write_file" \in writeRights
        /\ "write_file" \in deviceRights
    BY DEF readRights, writeRights, deviceRights
  <2> QED  BY <1>1, <2>1, GrantedBy
<1> QED  BY <1>3, <1>4, <1>5

\* What the wrapper is told is what it runs (confine, parseConfineArgs).
LEMMA ParsesBack ==
  ASSUME NEW path \in STRING, NEW args \in Seq(STRING), args # <<>>,
         NEW wrapped, wrapped = <<Marker, "--confine", "flavor", "--path", path, "--">> \o args
  PROVE  parseConfineArgs(wrapped) = [ok |-> TRUE, path |-> path, argv |-> args]
<1> PICK six : six = <<Marker, "--confine", "flavor", "--path", path, "--">>
  OBVIOUS
<1> PICK S : S = STRING \cup {Marker, "--confine", "flavor", "--path", "--"}
  OBVIOUS
<1>1. six \in Seq(S) /\ args \in Seq(S) /\ Len(six) = 6 /\ Len(args) \in Nat \ {0}
  OBVIOUS
<1>2. /\ wrapped \in Seq(S) /\ Len(wrapped) = 6 + Len(args)
      /\ \A i \in 1..6 : wrapped[i] = six[i]
  OBVIOUS
<1>3. wrapped[2] = "--confine" /\ wrapped[4] = "--path" /\ wrapped[5] = path /\ wrapped[6] = "--"
  BY <1>2
<1>4. SubSeq(wrapped, 7, Len(wrapped)) = args
  OBVIOUS
<1>5. ~(Len(wrapped) < 7)
  BY <1>1, <1>2
<1> QED  BY <1>3, <1>4, <1>5 DEF parseConfineArgs

\* A command starts confined, as it was asked for, or not at all (startAndRegister).
LEMMA StartsAreConfined ==
  ASSUME NEW cmd \in Command, NEW abi \in Nat, NEW has, NEW seccomp \in BOOLEAN
  PROVE  StartsConfined(cmd, abi, has, seccomp)
<1> PICK wrapped : wrapped = confine(cmd, TRUE)
  OBVIOUS
<1> PICK got : got = startAndRegister(cmd, abi, has, seccomp)
  OBVIOUS
<1>1. SUFFICES ASSUME got.code = 0
               PROVE  /\ got.path = cmd.path /\ got.argv = cmd.args
                      /\ seccomp /\ abi >= 2
                      /\ \A d \in Range(Write) \ {Work} : d \in has
  BY DEF StartsConfined
<1>2. confinementHolds(wrapped, TRUE) /\ ~cmd.err /\ got = runConfined(wrapped.args, abi, has, seccomp)
  <2>0. -1 # 0
    OBVIOUS
  <2>1. [code |-> -1, path |-> NoName, argv |-> <<>>].code = -1
    OBVIOUS
  <2>2. CASE ~confinementHolds(wrapped, TRUE)
    <3>1. got = [code |-> -1, path |-> NoName, argv |-> <<>>]
      BY <2>2 DEF startAndRegister
    <3> QED  BY <1>1, <2>0, <2>1, <3>1
  <2>3. CASE confinementHolds(wrapped, TRUE) /\ cmd.err
    <3>1. got = [code |-> -1, path |-> NoName, argv |-> <<>>]
      BY <2>3 DEF startAndRegister
    <3> QED  BY <1>1, <2>0, <2>1, <3>1
  <2>4. CASE confinementHolds(wrapped, TRUE) /\ ~cmd.err
    BY <2>4 DEF startAndRegister
  <2> QED  BY <2>2, <2>3, <2>4
<1>3. ~isConfineWrapper(cmd)
  BY DEF Command, isConfineWrapper
<1>4. cmd.path # NoName
  BY <1>2, <1>3 DEF confine, confinementHolds, Command
<1>5. wrapped.args = <<Marker, "--confine", "flavor", "--path", cmd.path, "--">> \o cmd.args
  BY <1>2, <1>3, <1>4 DEF confine, Command
<1>6. parseConfineArgs(wrapped.args) = [ok |-> TRUE, path |-> cmd.path, argv |-> cmd.args]
  BY <1>5, ParsesBack DEF Command
<1>7. applyLandlock(abi, has).ok /\ seccomp /\ got.path = cmd.path /\ got.argv = cmd.args
  <2>1. CASE applyLandlock(abi, has).ok /\ seccomp
    <3>0. PICK parsed : parsed = parseConfineArgs(wrapped.args)
      OBVIOUS
    <3>1. parsed.ok /\ parsed.path = cmd.path /\ parsed.argv = cmd.args
      BY <1>6, <3>0
    <3>2. got = [code |-> 0, path |-> parsed.path, argv |-> parsed.argv]
      BY <1>2, <2>1, <3>0, <3>1, Zenon DEF runConfined
    <3>3. got.path = parsed.path /\ got.argv = parsed.argv
      BY <3>2
    <3> QED  BY <2>1, <3>1, <3>3, Zenon
  <2>2. CASE ~(applyLandlock(abi, has).ok /\ seccomp)
    <3>1. got = [code |-> 126, path |-> NoName, argv |-> <<>>]
      BY <1>2, <1>6, <2>2 DEF runConfined
    <3>2. got.code = 126
      BY <3>1
    <3> QED  BY <1>1, <3>2
  <2> QED  BY <2>1, <2>2
<1>8. abi >= 2 /\ \A d \in Range(Write) \ {Work} : d \in has
  BY <1>7 DEF applyLandlock
<1> QED  BY <1>7, <1>8

\* How much of a tree's path another has in common with it (filepath.Rel).
Shares(tree, path, n) ==
    /\ n <= Len(path) /\ SubSeq(tree, 1, n) = SubSeq(path, 1, n)
    /\ \A m \in (n + 1)..Len(tree) :
           m > Len(path) \/ SubSeq(tree, 1, m) # SubSeq(path, 1, m)

\* Two paths share some names, none if they begin otherwise (filepath.Rel).
LEMMA SharesSome ==
  ASSUME NEW tree \in Seq(STRING), NEW path \in Seq(STRING)
  PROVE  \E n \in 0..Len(tree) : Shares(tree, path, n)
<1> DEFINE same == {n \in 0..Len(tree) : n <= Len(path) /\ SubSeq(tree, 1, n) = SubSeq(path, 1, n)}
           left == {Len(tree) - n : n \in same}
<1>1. Len(tree) \in Nat /\ Len(path) \in Nat
  OBVIOUS
<1>2. 0 \in same
  <2>1. SubSeq(tree, 1, 0) = <<>> /\ SubSeq(path, 1, 0) = <<>>
    OBVIOUS
  <2> QED  BY <1>1, <2>1
<1>3. left \subseteq Nat /\ left # {}
  BY <1>1, <1>2
<1>4. PICK l \in left : \A m \in left : l <= m
  <2> HIDE DEF left
  <2> QED  BY <1>3, LeastOf
<1>5. PICK n \in same : l = Len(tree) - n
  BY <1>4
<1>6. ASSUME NEW m \in (n + 1)..Len(tree), m <= Len(path), SubSeq(tree, 1, m) = SubSeq(path, 1, m)
      PROVE  FALSE
  <2>0. n \in 0..Len(tree)
    BY <1>5
  <2>1. m \in 0..Len(tree)
    BY <1>1, <2>0
  <2>2. m \in same
    BY <1>6, <2>1
  <2>3. l <= Len(tree) - m
    BY <1>4, <2>2
  <2> QED  BY <1>1, <1>5, <2>0, <2>1, <2>3
<1>7. n \in 0..Len(tree) /\ n <= Len(path) /\ SubSeq(tree, 1, n) = SubSeq(path, 1, n)
  BY <1>5
<1>8. \A m \in (n + 1)..Len(tree) : m > Len(path) \/ SubSeq(tree, 1, m) # SubSeq(path, 1, m)
  <2> TAKE m \in (n + 1)..Len(tree)
  <2>1. m \in Int
    BY <1>1, <1>7
  <2>2. m <= Len(path) \/ m > Len(path)
    BY <1>1, <2>1
  <2> QED  BY <1>6, <2>2
<1> QED  BY <1>7, <1>8 DEF Shares

\* A path the code takes to be beneath a tree begins with the tree's, and the relative
\* path is the rest of it (beneath, filepath.Rel).
LEMMA BeneathIs ==
  ASSUME NEW tree \in Seq(STRING), NEW path \in Seq(STRING), beneath(path, tree)
  PROVE  IsPrefix(tree, path) /\ Rel(tree, path) = SubSeq(path, Len(tree) + 1, Len(path))
<1> DEFINE common == CHOOSE n \in 0..Len(tree) : Shares(tree, path, n)
<1>1. Len(tree) \in Nat /\ Len(path) \in Nat
  OBVIOUS
<1>2. common \in 0..Len(tree) /\ Shares(tree, path, common)
  BY SharesSome
<1>3. Rel(tree, path)
        = [i \in 1..(Len(tree) - common) |-> ".."] \o SubSeq(path, common + 1, Len(path))
  BY DEF Rel, Shares
<1> HIDE DEF common
<1>4. CASE IsPrefix(tree, path)
  <2>1. Len(tree) <= Len(path) /\ SubSeq(tree, 1, Len(tree)) = SubSeq(path, 1, Len(tree))
    BY <1>4 DEF IsPrefix
  <2>2. common = Len(tree)
    <3>1. SUFFICES ASSUME common # Len(tree)
                   PROVE  FALSE
      OBVIOUS
    <3>2. Len(tree) \in (common + 1)..Len(tree)
      BY <1>1, <1>2, <3>1
    <3> QED  BY <1>1, <1>2, <2>1, <3>2 DEF Shares
  <2>3. [i \in 1..(Len(tree) - common) |-> ".."] = <<>>
    BY <1>1, <2>2
  <2>4. SubSeq(path, common + 1, Len(path)) \in Seq(STRING)
    BY <1>1, <1>2
  <2> QED  BY <1>3, <1>4, <2>2, <2>3, <2>4
<1>5. CASE ~IsPrefix(tree, path)
  <2>1. common # Len(tree)
    BY <1>2, <1>5 DEF Shares, IsPrefix
  <2>2. Len(tree) - common \in Nat \ {0}
    BY <1>1, <1>2, <2>1
  <2>3. PICK up : up = [i \in 1..(Len(tree) - common) |-> ".."]
    OBVIOUS
  <2>4. PICK down : down = SubSeq(path, common + 1, Len(path))
    OBVIOUS
  <2>5. PICK S : S = STRING \cup {".."}
    OBVIOUS
  <2>6. up \in Seq(S) /\ Len(up) = Len(tree) - common /\ up[1] = ".."
    BY <2>2, <2>3, <2>5
  <2>7. down \in Seq(S)
    BY <1>1, <1>2, <2>4, <2>5
  <2>8. (up \o down)[1] = ".."
    BY <2>2, <2>6, <2>7
  <2>9. Rel(tree, path)[1] = ".."
    BY <1>3, <2>3, <2>4, <2>8
  <2>10. path # tree
    BY <1>1, <1>5 DEF IsPrefix
  <2> QED  BY <2>9, <2>10 DEF beneath
<1> QED  BY <1>4, <1>5

\* What os.Root is told of a name: a link says where it leads.
LEMMA LinkLeads ==
  ASSUME NEW fs, FileSystem(fs), NEW path, Lstat(fs, path).kind = "link"
  PROVE  path \in DOMAIN fs /\ Lstat(fs, path).to \in Seq(STRING)
<1>1. path \in DOMAIN fs /\ Lstat(fs, path) = fs[path]
  BY DEF Lstat
<1>2. FileEntry(fs[path])
  BY <1>1 DEF FileSystem
<1> QED  BY <1>1, <1>2 DEF FileEntry, AnyPath

\* os.Root never leaves the tree (writeFile opens below it).
LEMMA WalkStays ==
  ASSUME NEW fs, FileSystem(fs), NEW tree \in Seq(STRING), NEW w \in Walks, IsPrefix(tree, w.at)
  PROVE  WalkOn(fs, tree, w) \in Walks /\ IsPrefix(tree, WalkOn(fs, tree, w).at)
<1>p. PICK part : part = Head(w.rest)
  OBVIOUS
<1>h. PICK here : here = Append(w.at, part)
  OBVIOUS
<1>e. PICK entry : entry = Lstat(fs, here)
  OBVIOUS
<1>t. PICK t : t = WalkOn(fs, tree, w)
  OBVIOUS
<1>1. w.at \in Seq(STRING) /\ w.rest \in Seq(STRING) /\ w.refused \in BOOLEAN
  BY DEF Walks
<1>2. CASE w.refused \/ w.rest = <<>>
  BY <1>2, <1>t DEF WalkOn
<1>3. CASE ~w.refused /\ w.rest # <<>>
  <2>1. part \in STRING /\ Tail(w.rest) \in Seq(STRING) /\ here \in Seq(STRING)
    <3>1. Head(w.rest) \in STRING /\ Tail(w.rest) \in Seq(STRING)
      BY <1>1, <1>3, JoinedHead
    <3> QED  BY <1>1, <1>p, <1>h, <3>1
  <2>4. CASE part \in {NoName, "."}
    <3>1. t = [at |-> w.at, rest |-> Tail(w.rest), refused |-> FALSE]
      BY <1>3, <1>t, <1>p, <1>h, <1>e, <2>4 DEF WalkOn
    <3> QED  BY <1>1, <1>t, <2>1, <3>1 DEF Walks
  <2>5. CASE part \notin {NoName, "."} /\ part = ".." /\ w.at = tree
    <3>1. t = [at |-> w.at, rest |-> w.rest, refused |-> TRUE]
      BY <1>3, <1>t, <1>p, <1>h, <1>e, <2>5 DEF WalkOn
    <3> QED  BY <1>1, <1>t, <3>1 DEF Walks
  <2>6. CASE part \notin {NoName, "."} /\ part = ".." /\ w.at # tree
    <3>1. t = [at |-> Front(w.at), rest |-> Tail(w.rest), refused |-> FALSE]
      BY <1>3, <1>t, <1>p, <1>h, <1>e, <2>6 DEF WalkOn
    <3>2. w.at # <<>> /\ Front(w.at) \in Seq(STRING) /\ IsPrefix(tree, Front(w.at))
      <4>1. Len(tree) <= Len(w.at) /\ SubSeq(tree, 1, Len(tree)) = SubSeq(w.at, 1, Len(tree))
            /\ Len(tree) \in Nat /\ Len(w.at) \in Nat
        BY <1>1 DEF IsPrefix
      <4>2. Len(tree) # Len(w.at)
        <5>1. SubSeq(tree, 1, Len(tree)) = tree /\ SubSeq(w.at, 1, Len(w.at)) = w.at
          BY <1>1
        <5> QED  BY <2>6, <4>1, <5>1
      <4>3. Len(w.at) # 0 /\ Len(tree) <= Len(w.at) - 1
        BY <4>1, <4>2
      <4>4. w.at # <<>>
        BY <1>1, <4>3
      <4>5. Front(w.at) = SubSeq(w.at, 1, Len(w.at) - 1)
        BY DEF Front
      <4>6. Front(w.at) \in Seq(STRING) /\ Len(Front(w.at)) = Len(w.at) - 1
            /\ \A i \in 1..(Len(w.at) - 1) : Front(w.at)[i] = w.at[i]
        BY <1>1, <4>1, <4>3, <4>5
      <4>7. \A i \in 1..Len(tree) : tree[i] = w.at[i]
        BY <1>1, <4>1
      <4>8. \A i \in 1..Len(tree) : tree[i] = Front(w.at)[i]
        BY <4>1, <4>3, <4>6, <4>7
      <4>9. IsPrefix(tree, Front(w.at))
        BY <4>1, <4>3, <4>6, <4>8 DEF IsPrefix
      <4> QED  BY <4>4, <4>6, <4>9
    <3>3. t \in Walks /\ t.at = Front(w.at)
      BY <2>1, <3>1, <3>2 DEF Walks
    <3> QED  BY <1>t, <3>2, <3>3
  <2>7. CASE part \notin {NoName, "."} /\ part # ".." /\ entry.kind = "link" /\ entry.absolute
    <3>1. t = [at |-> w.at, rest |-> w.rest, refused |-> TRUE]
      BY <1>3, <1>t, <1>p, <1>h, <1>e, <2>7 DEF WalkOn
    <3> QED  BY <1>1, <1>t, <3>1 DEF Walks
  <2>8. CASE part \notin {NoName, "."} /\ part # ".." /\ entry.kind = "link" /\ ~entry.absolute
    <3>1. t = [at |-> w.at, rest |-> entry.to \o Tail(w.rest), refused |-> FALSE]
      BY <1>3, <1>t, <1>p, <1>h, <1>e, <2>8 DEF WalkOn
    <3>2. entry.to \o Tail(w.rest) \in Seq(STRING)
      BY <1>e, <2>1, <2>8, LinkLeads
    <3>3. t \in Walks /\ t.at = w.at
      BY <1>1, <3>1, <3>2 DEF Walks
    <3> QED  BY <1>t, <3>3
  <2>9. CASE part \notin {NoName, "."} /\ part # ".." /\ entry.kind # "link"
             /\ entry.kind = "file" /\ Len(w.rest) > 1
    <3>1. t = [at |-> w.at, rest |-> w.rest, refused |-> TRUE]
      BY <1>3, <1>t, <1>p, <1>h, <1>e, <2>9 DEF WalkOn
    <3> QED  BY <1>1, <1>t, <3>1 DEF Walks
  <2>10. CASE part \notin {NoName, "."} /\ part # ".." /\ entry.kind # "link"
              /\ ~(entry.kind = "file" /\ Len(w.rest) > 1)
    <3>1. t = [at |-> here, rest |-> Tail(w.rest), refused |-> FALSE]
      BY <1>3, <1>t, <1>p, <1>h, <1>e, <2>10 DEF WalkOn
    <3>2. IsPrefix(tree, here)
      <4>1. Len(here) = Len(w.at) + 1 /\ \A i \in 1..Len(w.at) : here[i] = w.at[i]
        BY <1>1, <1>h, <2>1
      <4>2. Len(tree) <= Len(w.at) /\ \A i \in 1..Len(tree) : tree[i] = w.at[i]
        BY <1>1, PrefixIs
      <4>3. Len(tree) \in Nat /\ Len(w.at) \in Nat
        BY <1>1
      <4>4. Len(tree) <= Len(here) /\ \A i \in 1..Len(tree) : tree[i] = here[i]
        BY <4>1, <4>2, <4>3
      <4> QED  BY <2>1, <4>4, PrefixIs
    <3>3. t \in Walks /\ t.at = here
      BY <2>1, <3>1, <3>2 DEF Walks
    <3> QED  BY <1>t, <3>2, <3>3
  <2> QED  BY <2>4, <2>5, <2>6, <2>7, <2>8, <2>9, <2>10
<1> QED  BY <1>2, <1>3

\* So what it opens is in the tree (writeFile).
LEMMA FollowStays ==
  ASSUME NEW fs, FileSystem(fs), NEW tree \in Seq(STRING), NEW rest \in Seq(STRING),
         Follow(fs, tree, tree, rest) # <<>>
  PROVE  Follow(fs, tree, tree, rest) \in Seq(STRING) /\ IsPrefix(tree, Follow(fs, tree, tree, rest))
<1>t. PICK turn : turn = [n \in 1..MaxTurns |-> [w \in Walks |-> WalkOn(fs, tree, w)]]
  OBVIOUS
<1>s. PICK start : start = [at |-> tree, rest |-> rest, refused |-> FALSE]
  OBVIOUS
<1>i. PICK I : I = {p \in (0..MaxTurns) \X Walks : IsPrefix(tree, p[2].at)}
  OBVIOUS
<1>1. MaxTurns \in Nat
  BY ConfineAssumption
<1>j. \A n \in 0..MaxTurns, w \in Walks : IsPrefix(tree, w.at) => <<n, w>> \in I
  <2> TAKE n \in 0..MaxTurns, w \in Walks
  <2>1. <<n, w>> \in (0..MaxTurns) \X Walks /\ <<n, w>>[2] = w
    OBVIOUS
  <2> QED  BY <1>i, <2>1
<1>2. <<0, start>> \in I
  <2>1. start \in Walks /\ start.at = tree
    BY <1>s DEF Walks
  <2>2. IsPrefix(tree, tree) /\ 0 \in 0..MaxTurns
    BY <1>1 DEF IsPrefix
  <2> QED  BY <1>j, <2>1, <2>2
<1>3. ASSUME NEW n \in 1..MaxTurns, NEW w, <<n - 1, w>> \in I
      PROVE  <<n, turn[n][w]>> \in I
  <2>1. w \in Walks /\ IsPrefix(tree, w.at)
    BY <1>3, <1>i
  <2>2. turn[n][w] = WalkOn(fs, tree, w)
    BY <1>t, <2>1
  <2>3. n \in 0..MaxTurns
    BY <1>1
  <2> QED  BY <1>j, <2>1, <2>2, <2>3, WalkStays
<1>4. \A n \in 1..MaxTurns : \A w : <<n - 1, w>> \in I => <<n, turn[n][w]>> \in I
  BY <1>3
<1>5. PICK end : end = Looped(turn, start, MaxTurns)
  OBVIOUS
<1>6. <<MaxTurns, end>> \in I
  BY <1>1, <1>2, <1>4, <1>5, LoopKeeps
<1>7. end \in Walks /\ IsPrefix(tree, end.at)
  BY <1>6, <1>i
<1>8. Follow(fs, tree, tree, rest) = end.at
  BY <1>t, <1>s, <1>5 DEF Follow
<1> QED  BY <1>7, <1>8 DEF Walks

\* The first names of the first names (noSymlinksBeneath).
LEMMA FirstOfFirst ==
  ASSUME NEW S, NEW s \in Seq(S), NEW n \in 0..Len(s), NEW m \in 0..n
  PROVE  /\ SubSeq(s, 1, n) \in Seq(S) /\ Len(SubSeq(s, 1, n)) = n
         /\ SubSeq(SubSeq(s, 1, n), 1, m) = SubSeq(s, 1, m)
OBVIOUS

\* A path that passed noSymlinksBeneath has no link on the way: what is behind a name that
\* is not there is not there either.
LEMMA NoLinks ==
  ASSUME NEW fs, FileSystem(fs), NEW path \in Seq(STRING), noSymlinksBeneath(fs, path),
         NEW n \in 1..Len(path)
  PROVE  Lstat(fs, SubSeq(path, 1, n)).kind # "link"
<1>1. SUFFICES ASSUME Lstat(fs, SubSeq(path, 1, n)).kind = "link"
               PROVE  FALSE
  OBVIOUS
<1>2. PICK m \in 1..(n - 1) : Lstat(fs, SubSeq(path, 1, m)).kind = "none"
  BY <1>1 DEF noSymlinksBeneath
<1>3. PICK here : here = SubSeq(path, 1, n)
  OBVIOUS
<1>4. here \in DOMAIN fs
  BY <1>1, <1>3, LinkLeads
<1>5. n \in 0..Len(path) /\ m \in 0..n
  OBVIOUS
<1>6. Len(here) = n /\ SubSeq(here, 1, m) = SubSeq(path, 1, m)
  BY <1>3, <1>5, FirstOfFirst
<1>7. m \in 1..(Len(here) - 1)
  BY <1>6
<1>8. Lstat(fs, SubSeq(here, 1, m)).kind = "dir"
  BY <1>4, <1>7 DEF FileSystem
<1> QED  BY <1>2, <1>6, <1>8

\* The way to a clean path, k names of it behind.
OnTheWay(clean, k, w) ==
    w.at = SubSeq(clean, 1, k) /\ w.rest = SubSeq(clean, k + 1, Len(clean))

\* A name of a path without links is looked at, and passed or refused (writeFile).
LEMMA WalkStraight ==
  ASSUME NEW fs, FileSystem(fs), NEW tree \in Seq(STRING), NEW clean \in Seq(PlainNames),
         noSymlinksBeneath(fs, clean), NEW w \in Walks,
         w.refused \/ \E k \in 0..Len(clean) : OnTheWay(clean, k, w),
         NEW t, t = WalkOn(fs, tree, w)
  PROVE  t \in Walks /\ (t.refused \/ \E k \in 0..Len(clean) : OnTheWay(clean, k, t))
<1>1. w.at \in Seq(STRING) /\ w.rest \in Seq(STRING) /\ w.refused \in BOOLEAN
  BY DEF Walks
<1>2. CASE w.refused \/ w.rest = <<>>
  <2>1. t = w
    BY <1>2 DEF WalkOn
  <2> QED  BY <2>1
<1>3. CASE ~w.refused /\ w.rest # <<>>
  <2>1. PICK k \in 0..Len(clean) : OnTheWay(clean, k, w)
    BY <1>3
  <2>2. PICK part : part = Head(w.rest)
    OBVIOUS
  <2>3. PICK here : here = Append(w.at, part)
    OBVIOUS
  <2>4. PICK entry : entry = Lstat(fs, here)
    OBVIOUS
  <2>5. clean \in Seq(STRING) /\ Len(clean) \in Nat
    BY DEF PlainNames
  <2>6. k + 1 \in 1..Len(clean)
    <3>1. k # Len(clean)
      <4>1. SUFFICES ASSUME k = Len(clean)
                     PROVE  FALSE
        OBVIOUS
      <4>2. SubSeq(clean, k + 1, Len(clean)) = <<>>
        BY <2>5, <4>1
      <4> QED  BY <1>3, <2>1, <4>2 DEF OnTheWay
    <3> QED  BY <2>5, <3>1
  <2>7. part = clean[k + 1] /\ Tail(w.rest) = SubSeq(clean, k + 2, Len(clean))
    BY <2>1, <2>2, <2>5, <2>6 DEF OnTheWay
  <2>8. here = SubSeq(clean, 1, k + 1)
    BY <2>1, <2>3, <2>5, <2>6, <2>7 DEF OnTheWay
  <2>9. part \in STRING /\ part \notin {NoName, "."} /\ part # ".."
    BY <2>6, <2>7 DEF PlainNames
  <2>10. entry.kind # "link"
    BY <2>4, <2>5, <2>6, <2>8, NoLinks
  <2>11. here \in Seq(STRING) /\ Tail(w.rest) \in Seq(STRING)
    <3>1. Tail(w.rest) \in Seq(STRING)
      BY <1>1, <1>3, JoinedHead
    <3> QED  BY <1>1, <2>3, <2>9, <3>1
  <2>12. CASE entry.kind = "file" /\ Len(w.rest) > 1
    <3>1. t = [at |-> w.at, rest |-> w.rest, refused |-> TRUE]
      BY <1>3, <2>2, <2>3, <2>4, <2>9, <2>10, <2>12 DEF WalkOn
    <3> QED  BY <1>1, <3>1 DEF Walks
  <2>13. CASE ~(entry.kind = "file" /\ Len(w.rest) > 1)
    <3>1. t = [at |-> here, rest |-> Tail(w.rest), refused |-> FALSE]
      BY <1>3, <2>2, <2>3, <2>4, <2>9, <2>10, <2>13 DEF WalkOn
    <3>2. t \in Walks
      BY <2>11, <3>1 DEF Walks
    <3>3. OnTheWay(clean, k + 1, t)
      BY <2>5, <2>6, <2>7, <2>8, <3>1 DEF OnTheWay
    <3> QED  BY <2>5, <2>6, <3>2, <3>3
  <2> QED  BY <2>12, <2>13
<1> QED  BY <1>2, <1>3

\* So a path without links is opened where it says, if it is opened (writeFile).
LEMMA FollowStraight ==
  ASSUME NEW fs, FileSystem(fs), NEW tree \in Seq(STRING), NEW clean \in Seq(PlainNames),
         noSymlinksBeneath(fs, clean), IsPrefix(tree, clean),
         NEW rest, rest = SubSeq(clean, Len(tree) + 1, Len(clean)),
         Follow(fs, tree, tree, rest) # <<>>
  PROVE  Follow(fs, tree, tree, rest) = clean
<1>t. PICK turn : turn = [n \in 1..MaxTurns |-> [w \in Walks |-> WalkOn(fs, tree, w)]]
  OBVIOUS
<1>s. PICK start : start = [at |-> tree, rest |-> rest, refused |-> FALSE]
  OBVIOUS
<1>g. PICK Good : Good = {w \in Walks : w.refused \/ \E k \in 0..Len(clean) : OnTheWay(clean, k, w)}
  OBVIOUS
<1>i. PICK I : I = (0..MaxTurns) \X Good
  OBVIOUS
<1>1. MaxTurns \in Nat
  BY ConfineAssumption
<1>a. clean \in Seq(STRING) /\ Len(clean) \in Nat /\ Len(tree) \in Nat /\ Len(tree) <= Len(clean)
  BY DEF PlainNames, IsPrefix
<1>2. start \in Good
  <2>1. rest \in Seq(STRING)
    BY <1>a
  <2>2. start \in Walks
    BY <1>s, <2>1 DEF Walks
  <2>3. tree = SubSeq(clean, 1, Len(tree))
    <3>1. SubSeq(tree, 1, Len(tree)) = tree
      OBVIOUS
    <3> QED  BY <3>1 DEF IsPrefix
  <2>4. OnTheWay(clean, Len(tree), start)
    BY <1>s, <2>3 DEF OnTheWay
  <2>5. Len(tree) \in 0..Len(clean)
    BY <1>a
  <2> QED  BY <1>g, <2>2, <2>4, <2>5
<1>3. ASSUME NEW n \in 1..MaxTurns, NEW w, <<n - 1, w>> \in I
      PROVE  <<n, turn[n][w]>> \in I
  <2>1. w \in Good
    BY <1>3, <1>i
  <2>2. w \in Walks
    BY <1>g, <2>1
  <2>3. turn[n][w] = WalkOn(fs, tree, w)
    BY <1>t, <2>2
  <2>4. WalkOn(fs, tree, w) \in Good
    BY <1>g, <2>1, <2>2, WalkStraight
  <2>5. n \in 0..MaxTurns
    BY <1>1
  <2> QED  BY <1>i, <2>3, <2>4, <2>5
<1>4. \A n \in 1..MaxTurns : \A w : <<n - 1, w>> \in I => <<n, turn[n][w]>> \in I
  BY <1>3
<1>5. PICK end : end = Looped(turn, start, MaxTurns)
  OBVIOUS
<1>6. <<MaxTurns, end>> \in I
  <2>1. 0 \in 0..MaxTurns
    BY <1>1
  <2>2. <<0, start>> \in I
    BY <1>i, <1>2, <2>1
  <2> QED  BY <1>1, <1>4, <1>5, <2>2, LoopKeeps
<1>7. end \in Good
  BY <1>6, <1>i
<1>8. Follow(fs, tree, tree, rest) = end.at /\ ~end.refused /\ end.rest = <<>>
  BY <1>t, <1>s, <1>5 DEF Follow
<1>9. PICK k \in 0..Len(clean) : OnTheWay(clean, k, end)
  BY <1>7, <1>8, <1>g
<1>10. k = Len(clean)
  <2>1. SUFFICES ASSUME k # Len(clean)
                 PROVE  FALSE
    OBVIOUS
  <2>2. k + 1 \in 1..Len(clean)
    BY <1>a, <2>1
  <2>3. Len(SubSeq(clean, k + 1, Len(clean))) # 0
    BY <1>a, <2>2
  <2>4. SubSeq(clean, k + 1, Len(clean)) = <<>>
    BY <1>8, <1>9 DEF OnTheWay
  <2> QED  BY <2>3, <2>4
<1>11. SubSeq(clean, 1, Len(clean)) = clean
  BY <1>a
<1> QED  BY <1>8, <1>9, <1>10, <1>11 DEF OnTheWay

\* Every tree the profile names, and every device, is there.
Everything == Range(Write) \cup Range(DeviceTrees) \cup Devices

\* What is in a tree or is a device of the profile may be written (applyLandlock).
LEMMA MayWrite ==
  ASSUME NEW at \in AnyPath, NEW d \in Everything, IsPrefix(d, at)
  PROVE  "write_file" \in Granted(applyLandlock(2, Everything).rules, at)
<1>1. LandlockExact(Everything, at)
  BY LandlockIsExact
<1>2. applyLandlock(2, Everything).ok
  <2>1. ~(2 < 2) /\ \A e \in Range(Write) : e \in Everything
    BY DEF Everything
  <2> QED  BY <2>1 DEF applyLandlock
<1>3. d \in (Range(Write) \cup Range(DeviceTrees) \cup Devices) \cap Everything /\ Beneath(at, d)
  BY DEF Everything, Beneath
<1> QED  BY <1>1, <1>2, <1>3 DEF LandlockExact

\* A file tool writes where the profile lets a confined process write, and a path without
\* links where it says, whatever happens between the check and the open (writableTarget,
\* writeFile).
LEMMA WritesAreContained ==
  ASSUME NEW checked, FileSystem(checked), NEW opened, FileSystem(opened), NEW path \in AnyPath
  PROVE  WriteContained(checked, opened, TRUE, path)
<1>t. PICK t : t = writableTarget(checked, TRUE, path)
  OBVIOUS
<1>a. PICK at : at = WriteFile(checked, opened, TRUE, path, 1, 1)
  OBVIOUS
<1>c. PICK clean : clean = Clean(path)
  OBVIOUS
<1>1. SUFFICES ASSUME at # <<>>
               PROVE  /\ "write_file" \in Granted(applyLandlock(2, Everything).rules, at)
                      /\ checked = opened => at = clean
  BY <1>a, <1>c DEF WriteContained, Everything
<1>2. clean \in Seq(PlainNames) /\ clean \in AnyPath
  <2>1. clean \in Seq(PlainNames)
    BY <1>c, CleanIs DEF AnyPath
  <2> QED  BY <2>1 DEF PlainNames, AnyPath
<1>3. ~(1 > 1)
  OBVIOUS
<1>4. t.kind # "refused"
  BY <1>1, <1>a, <1>t DEF WriteFile
<1>s. PICK trees : trees = Kept(Write \o DeviceTrees,
                      {r \in Range(Write) \cup Range(DeviceTrees) : beneath(clean, r)})
  OBVIOUS
<1>5. noSymlinksBeneath(checked, clean)
  <2>1. SUFFICES ASSUME ~noSymlinksBeneath(checked, clean)
                 PROVE  FALSE
    OBVIOUS
  <2>2. t = [kind |-> "refused", tree |-> <<>>, rel |-> <<>>]
    BY <1>t, <1>c, <1>s, <2>1 DEF writableTarget
  <2> QED  BY <1>4, <2>2
<1>6. CASE trees # <<>>
  <2>1. PICK tree : tree = Head(trees)
    OBVIOUS
  <2>2. tree \in Range(Write) \cup Range(DeviceTrees) /\ beneath(clean, tree) /\ tree \in AnyPath
    <3>1. Write \o DeviceTrees \in Seq(AnyPath)
      BY ConfineAssumption DEF AnyPath
    <3>0. PICK T : T = {r \in Range(Write) \cup Range(DeviceTrees) : beneath(clean, r)}
      OBVIOUS
    <3>2. trees \in Seq(AnyPath) /\ Range(trees) \subseteq T
      <4>1. PICK all : all = Write \o DeviceTrees
        OBVIOUS
      <4>2. all \in Seq(AnyPath) /\ trees = Kept(all, T)
        BY <1>s, <3>0, <3>1, <4>1
      <4>3. Kept(all, T) \in Seq(AnyPath) /\ Range(Kept(all, T)) = Range(all) \cap T
        BY <4>2, KeptSound
      <4> QED  BY <4>2, <4>3
    <3>3. tree \in AnyPath /\ tree \in Range(trees)
      BY <1>6, <2>1, <3>2 DEF Range
    <3> QED  BY <3>0, <3>2, <3>3
  <2>3. t = [kind |-> "tree", tree |-> tree, rel |-> Rel(tree, clean)]
    BY <1>t, <1>c, <1>s, <1>5, <1>6, <2>1 DEF writableTarget
  <2>4. IsPrefix(tree, clean) /\ Rel(tree, clean) = SubSeq(clean, Len(tree) + 1, Len(clean))
    BY <1>2, <2>2, BeneathIs DEF AnyPath
  <2>5. PICK to : to = Follow(opened, tree, tree, Rel(tree, clean))
    OBVIOUS
  <2>6. at = to
    <3>1. t.kind = "tree" /\ t.tree = tree /\ t.rel = Rel(tree, clean)
      BY <2>3
    <3>2. at = IF to = tree \/ Lstat(opened, to).kind = "dir" THEN <<>> ELSE to
      BY <1>a, <1>t, <1>3, <2>5, <3>1 DEF WriteFile
    <3> QED  BY <1>1, <3>2
  <2>7. Rel(tree, clean) \in Seq(STRING)
    BY <1>2, <2>2, <2>4 DEF AnyPath
  <2>8. at \in AnyPath /\ IsPrefix(tree, at)
    BY <1>1, <2>2, <2>5, <2>6, <2>7, FollowStays DEF AnyPath
  <2>9. "write_file" \in Granted(applyLandlock(2, Everything).rules, at)
    BY <2>2, <2>8, MayWrite DEF Everything
  <2>10. checked = opened => at = clean
    BY <1>1, <1>2, <1>5, <2>2, <2>4, <2>5, <2>6, FollowStraight DEF AnyPath
  <2> QED  BY <2>9, <2>10
<1>7. CASE trees = <<>>
  <2>1. clean \in Devices
    <3>1. SUFFICES ASSUME clean \notin Devices
                   PROVE  FALSE
      OBVIOUS
    <3>2. t = [kind |-> "refused", tree |-> <<>>, rel |-> <<>>]
      BY <1>t, <1>c, <1>s, <1>5, <1>7, <3>1 DEF writableTarget
    <3> QED  BY <1>4, <3>2
  <2>2. t = [kind |-> "device", tree |-> clean, rel |-> <<>>]
    BY <1>t, <1>c, <1>s, <1>5, <1>7, <2>1 DEF writableTarget
  <2>3. at = clean
    <3>1. t.kind = "device" /\ t.tree = clean
      BY <2>2
    <3>3. 1 <= 1
      OBVIOUS
    <3>2. at = IF Lstat(opened, clean).kind = "link" THEN <<>> ELSE clean
      BY <1>a, <1>t, <1>3, <3>1, <3>3 DEF WriteFile
    <3> QED  BY <1>1, <3>2
  <2>4. IsPrefix(clean, clean)
    BY <1>2 DEF IsPrefix, AnyPath
  <2> QED  BY <1>2, <2>1, <2>3, <2>4, MayWrite DEF Everything
<1> QED  BY <1>6, <1>7

\* The guest confines every command it runs and its own file tools: the filter of any
\* profile, any path under the ruleset, any command, and any file written while a confined
\* process moves things (applySeccomp, applyLandlock, startAndRegister, writeFile).
THEOREM GuestIsConfined == ConfineInput(item) => Confined
<1> SUFFICES ASSUME ConfineInput(item)
             PROVE  Confined
  OBVIOUS
<1>1. item.kind = "seccomp" => SeccompExact(item.deny, item.ptrace, item.arch, item.nr)
  <2>1. item.kind = "seccomp" =>
           item \in [kind : {"seccomp"}, deny : Seq(STRING), ptrace : BOOLEAN, arch : STRING, nr : STRING]
    BY DEF ConfineInput
  <2>2. item.kind = "seccomp" => item.deny \in Seq(STRING) /\ item.arch \in STRING /\ item.nr \in STRING
    BY <2>1
  <2> QED  BY <2>2, SeccompIsExact
<1>2. item.kind = "landlock" => LandlockExact(item.has, item.path)
  <2>1. item.kind = "landlock" => item \in [kind : {"landlock"}, has : SUBSET AnyPath, path : AnyPath]
    BY DEF ConfineInput
  <2>2. item.kind = "landlock" => item.path \in AnyPath
    BY <2>1
  <2> QED  BY <2>2, LandlockIsExact
<1>3. item.kind = "start" => StartsConfined(item.cmd, item.abi, item.has, item.seccomp)
  <2>1. item.kind = "start" =>
           item \in [kind : {"start"}, cmd : Command, abi : Nat, has : SUBSET AnyPath, seccomp : BOOLEAN]
    BY DEF ConfineInput
  <2>2. item.kind = "start" => item.cmd \in Command /\ item.abi \in Nat /\ item.seccomp \in BOOLEAN
    BY <2>1
  <2> QED  BY <2>2, StartsAreConfined
<1>4. item.kind = "write" => WriteContained(item.checked, item.opened, TRUE, item.path)
  <2>1. item.kind = "write" =>
           item.path \in AnyPath /\ FileSystem(item.checked) /\ FileSystem(item.opened)
    BY DEF ConfineInput
  <2> QED  BY <2>1, WritesAreContained
<1> QED  BY <1>1, <1>2, <1>3, <1>4 DEF Confined
================================================================================
