------------------------ MODULE FlightRecorderProofs ------------------------
(***************************************************************************)
(* Theorems about FlightRecorder, for every number of handles, every size  *)
(* and every bound.                                                        *)
(***************************************************************************)
EXTENDS FlightRecorder, FiniteSetTheorems, TLAPS

\* A line hashes to a digest.
LEMMA DigestType ==
  ASSUME NEW line \in Line
  PROVE  Digest(line) \in Hash
<1>1. [seq |-> line.seq, body |-> line.body] \in [seq : Nat, body : Body]
  BY DEF Line
<1>2. line.prev \in Seq([seq : Nat, body : Body])
  BY DEF Line, Hash
<1> QED  BY <1>1, <1>2 DEF Digest, Hash

\* The record a line of the file is typed by is what NextLine builds.
LEMMA NextLineType ==
  ASSUME TypeOK, NEW p \in Recorders, pending[p] \in Body
  PROVE  NextLine(p) \in Line
<1>1. seq[p] + 1 \in Nat /\ prev[p] \in Hash
  BY DEF TypeOK, TypeHandle
<1> QED  BY <1>1 DEF NextLine, Line

\* Every line hashes to a digest, so the head of a chain is one.
LEMMA HeadType ==
  ASSUME NEW ls \in Seq(Line)
  PROVE  HeadOf(ls) \in Hash
<1>1. CASE ls = <<>>
  BY <1>1 DEF HeadOf, Hash
<1>2. CASE ls # <<>>
  <2>1. ls[Len(ls)] \in Line  BY <1>2
  <2> QED  BY <2>1, <1>2, DigestType DEF HeadOf
<1> QED  BY <1>1, <1>2

\* The bodies handles and erasures write are bodies.
LEMMA BodyTypes ==
  /\ \A p \in Recorders : DataBody(p) \in Body /\ EndBody(p) \in Body
  /\ \A p \in Recorders, n \in Nat : Epitaph(p, n) \in Body
  /\ ErasureBody \in Body
  BY DEF DataBody, EndBody, Epitaph, ErasureBody, Body, Types, Texts

\* A redacted body is a body.
LEMMA RedactedType ==
  ASSUME NEW b \in Body
  PROVE  Redacted(b) \in Body
  BY DEF Redacted, Body, Types, Texts

\* A chain built from bodies is made of lines, as many as the bodies.
LEMMA RechainedType ==
  ASSUME NEW bs \in Seq(Body)
  PROVE  /\ Rechained(bs) \in Seq(Line)
         /\ Len(Rechained(bs)) = Len(bs)
<1> DEFINE F(i) == [seq  |-> i,
                    prev |-> [j \in 1..(i - 1) |-> [seq |-> j, body |-> bs[j]]],
                    body |-> bs[i]]
<1>1. ASSUME NEW i \in 1..Len(bs)  PROVE F(i) \in Line
  <2>1. \A j \in 1..(i - 1) : [seq |-> j, body |-> bs[j]] \in [seq : Nat, body : Body]
    OBVIOUS
  <2>2. i - 1 \in Nat
    OBVIOUS
  <2> DEFINE E(j) == [seq |-> j, body |-> bs[j]]
  <2>3. [j \in 1..(i - 1) |-> E(j)] \in Seq([seq : Nat, body : Body])
    <3> HIDE DEF E
    <3>1. \A j \in 1..(i - 1) : E(j) \in [seq : Nat, body : Body]
      BY <2>1 DEF E
    <3> QED  BY <3>1, <2>2
  <2>4. F(i).prev \in Hash
    BY <2>3 DEF Hash
  <2> QED  BY <2>4 DEF Line
<1> HIDE DEF F
<1>2. Rechained(bs) = [i \in 1..Len(bs) |-> F(i)]
  BY DEF Rechained, F
<1>3. Len(bs) \in Nat  OBVIOUS
<1> QED  BY <1>1, <1>2, <1>3

\* Erase writes lines: one for each it found, and its own.
LEMMA ErasedType ==
  ASSUME NEW ls \in Seq(Line)
  PROVE  /\ Append(RedactedBodies(ls), ErasureBody) \in Seq(Body)
         /\ Len(Append(RedactedBodies(ls), ErasureBody)) = Len(ls) + 1
         /\ Rechained(Append(RedactedBodies(ls), ErasureBody)) \in Seq(Line)
         /\ Len(Rechained(Append(RedactedBodies(ls), ErasureBody))) = Len(ls) + 1
<1>1. \A i \in DOMAIN ls : Redacted(ls[i].body) \in Body
  <2>0. \A i \in DOMAIN ls : ls[i] \in Line  OBVIOUS
  <2>1. \A i \in DOMAIN ls : ls[i].body \in Body  BY <2>0 DEF Line
  <2> QED  BY <2>1, RedactedType
<1>2. RedactedBodies(ls) \in Seq(Body) /\ Len(RedactedBodies(ls)) = Len(ls)
  BY <1>1 DEF RedactedBodies
<1>3. Append(RedactedBodies(ls), ErasureBody) \in Seq(Body)
      /\ Len(Append(RedactedBodies(ls), ErasureBody)) = Len(ls) + 1
  BY <1>2, BodyTypes
<1> QED  BY <1>3, RechainedType

\* The redactable lines of a file can be counted.
LEMMA RedactableType ==
  ASSUME NEW ls \in Seq(Line)
  PROVE  Cardinality(Redactable(ls)) \in Nat
<1>1. DOMAIN ls = 1..Len(ls) /\ Len(ls) \in Nat
  OBVIOUS
<1>2. IsFiniteSet(1..Len(ls))
  BY <1>1, FS_Interval
<1>3. Redactable(ls) \subseteq 1..Len(ls)
  BY <1>1 DEF Redactable
<1> QED  BY <1>2, <1>3, FS_Subset, FS_CardinalityType

---------------------------------------------------------------------------

\* The initial state has its types.
LEMMA TypeInit == Init => TypeOK
<1> SUFFICES ASSUME Init PROVE TypeOK
  OBVIOUS
<1>1. TypeFile
  <2>1. lines \in Seq(Line) /\ <<>> \in Hash  BY DEF Init, Hash
  <2> QED  BY <2>1 DEF Init, TypeFile, NoAnchor, Tails
<1>2. TypeHandle
  <2>1. <<>> \in Hash  BY DEF Hash
  <2> QED  BY <2>1 DEF Init, TypeHandle, Places, Busy
<1>3. TypeLatch
  BY DEF Init, TypeLatch
<1>4. TypeOthers
  <2>1. snap \in [lines : Seq(Line), readable : BOOLEAN]  BY DEF Init
  <2>2. acked \in [Recorders -> Nat]  BY DEF Init
  <2>3. verdict \in Answers  BY DEF Init, Answers
  <2>4. reading \in BOOLEAN /\ rewritten \in BOOLEAN  BY Zenon DEF Init
  <2> QED  BY <2>1, <2>2, <2>3, <2>4 DEF Init, TypeOthers
<1> QED  BY <1>1, <1>2, <1>3, <1>4 DEF TypeOK

\* What returning an error from appendLocked does keeps every type.
LEMMA TypeFailed ==
  ASSUME TypeOK, NEW p \in Recorders, Failed(p), UNCHANGED handle
  PROVE  TypeHandle' /\ TypeLatch' /\ lock' \in Recorders \cup {Eraser, Nobody}
<1>1. Epitaph(p, seq[p] + 1) \in Body /\ seq[p] + 1 \in Nat
  <2>1. seq[p] + 1 \in Nat  BY DEF TypeOK, TypeHandle
  <2> QED  BY <2>1, BodyTypes
<1>2. TypeHandle'
  BY <1>1 DEF TypeOK, TypeHandle, Failed, Places, Busy, handle
<1>3. TypeLatch'
  BY <1>1 DEF TypeOK, TypeLatch, Failed, latch
<1> QED  BY <1>2, <1>3 DEF Failed

\* So does what returning nil does.
LEMMA TypeSucceeded ==
  ASSUME TypeOK, NEW p \in Recorders, Succeeded(p), UNCHANGED handle
  PROVE  /\ TypeHandle' /\ TypeLatch' /\ lock' \in Recorders \cup {Eraser, Nobody}
         /\ acked' \in [Recorders -> Nat]
<1>1. TypeHandle'
  BY DEF TypeOK, TypeHandle, Succeeded, Places, Busy, handle
<1>2. TypeLatch'
  BY DEF TypeOK, TypeLatch, Succeeded
<1>3. acked' \in [Recorders -> Nat]
  BY DEF TypeOK, TypeOthers, Succeeded
<1> QED  BY <1>1, <1>2, <1>3 DEF Succeeded

\* A process that dies leaves its handle typed.
LEMMA TypeDie ==
  ASSUME TypeOK, NEW p \in Recorders, Die(p), UNCHANGED handle
  PROVE  TypeHandle' /\ lock' \in Recorders \cup {Eraser, Nobody}
  BY DEF TypeOK, TypeHandle, TypeOthers, Die, Places, Busy, handle

\* A write that does not finish leaves a file.
LEMMA TypeTorn ==
  ASSUME TypeOK, NEW p \in Recorders, Torn(p), UNCHANGED anchor
  PROVE  TypeFile' /\ unanchored' \in Nat
<1>1. NextLine(p) \in Line
  BY NextLineType DEF TypeOK, TypeHandle, Torn, Busy
<1>2. size' \in Int /\ tail' \in Tails /\ unanchored' \in Nat
  BY ConstantsAssumption DEF TypeOK, TypeFile, TypeOthers, Torn, Tails
<1>3. lines' \in Seq(Line)
  BY <1>1 DEF TypeOK, TypeFile, Torn
<1> QED  BY <1>2, <1>3 DEF TypeOK, TypeFile

\* Every step keeps every type.
LEMMA TypeNext == TypeOK /\ [Next]_vars => TypeOK'
<1> SUFFICES ASSUME TypeOK, [Next]_vars PROVE TypeOK'
  OBVIOUS
<1> USE DEF file, handle, latch, eraser, reader, history
<1> DEFINE A == [present : BOOLEAN, seq : Nat, hash : Hash]
<1>1. ASSUME NEW p \in Recorders, Open(p)  PROVE TypeOK'
  <2>1. TypeFile'
    BY <1>1 DEF TypeOK, TypeFile, Open
  <2>2. TypeHandle'
    BY <1>1 DEF TypeOK, TypeHandle, Open, Places, Busy
  <2>3. TypeLatch'
    BY <1>1 DEF TypeOK, TypeLatch, Open
  <2>4. TypeOthers'
    BY <1>1 DEF TypeOK, TypeOthers, Open
  <2> QED  BY <2>1, <2>2, <2>3, <2>4 DEF TypeOK
<1>2. ASSUME NEW p \in Recorders, NEW b \in Body, BeginAppend(p, b)  PROVE TypeOK'
  <2>1. TypeFile'
    BY <1>2 DEF TypeOK, TypeFile, BeginAppend
  <2>2. TypeHandle'
    BY <1>2 DEF TypeOK, TypeHandle, BeginAppend, Places, Busy
  <2>3. TypeLatch'
    BY <1>2 DEF TypeOK, TypeLatch, BeginAppend
  <2>4. TypeOthers'
    BY <1>2 DEF TypeOK, TypeOthers, BeginAppend
  <2> QED  BY <2>1, <2>2, <2>3, <2>4 DEF TypeOK
<1>3. ASSUME NEW p \in Recorders, EndBroken(p)  PROVE TypeOK'
  <2>0. Epitaph(p, failedAt[p]) \in Body
    BY BodyTypes DEF TypeOK, TypeLatch
  <2>1. TypeFile'
    BY <1>3 DEF TypeOK, TypeFile, EndBroken
  <2>2. TypeHandle'
    BY <1>3, <2>0 DEF TypeOK, TypeHandle, EndBroken, Places, Busy
  <2>3. TypeLatch'
    BY <1>3 DEF TypeOK, TypeLatch, EndBroken
  <2>4. TypeOthers'
    BY <1>3 DEF TypeOK, TypeOthers, EndBroken
  <2> QED  BY <2>1, <2>2, <2>3, <2>4 DEF TypeOK
<1>4. ASSUME NEW p \in Recorders, Lock(p)  PROVE TypeOK'
  <2>1. TypeFile'
    BY <1>4 DEF TypeOK, TypeFile, Lock
  <2>2. TypeHandle'
    BY <1>4 DEF TypeOK, TypeHandle, Lock, Places, Busy
  <2>3. TypeLatch'
    BY <1>4 DEF TypeOK, TypeLatch, Lock
  <2>4. TypeOthers'
    BY <1>4 DEF TypeOK, TypeOthers, Lock
  <2> QED  BY <2>1, <2>2, <2>3, <2>4 DEF TypeOK
<1>5. ASSUME NEW p \in Recorders, CatchUp(p)  PROVE TypeOK'
  <2>0. HeadOf(lines) \in Hash /\ Len(lines) \in Nat /\ size \in Int
    BY HeadType DEF TypeOK, TypeFile
  <2>1. TypeFile'
    BY <1>5 DEF TypeOK, TypeFile, CatchUp
  <2>2. TypeHandle'
    BY <1>5, <2>0 DEF TypeOK, TypeHandle, CatchUp, Places, Busy
  <2>3. TypeLatch'
    BY <1>5 DEF TypeOK, TypeLatch, CatchUp
  <2>4. TypeOthers'
    BY <1>5 DEF TypeOK, TypeOthers, CatchUp
  <2> QED  BY <2>1, <2>2, <2>3, <2>4 DEF TypeOK
<1>6. ASSUME NEW p \in Recorders, CatchUpRefuses(p)  PROVE TypeOK'
  <2>0. TypeHandle' /\ TypeLatch' /\ lock' \in Recorders \cup {Eraser, Nobody}
    BY <1>6, TypeFailed DEF CatchUpRefuses
  <2>1. TypeFile'
    BY <1>6 DEF TypeOK, TypeFile, CatchUpRefuses
  <2>2. TypeHandle'
    BY <2>0
  <2>3. TypeLatch'
    BY <2>0
  <2>4. TypeOthers'
    BY <1>6, <2>0 DEF TypeOK, TypeOthers, CatchUpRefuses
  <2> QED  BY <2>1, <2>2, <2>3, <2>4 DEF TypeOK
<1>7. ASSUME NEW p \in Recorders, Write(p)  PROVE TypeOK'
  <2>0. NextLine(p) \in Line
    BY <1>7, NextLineType DEF TypeOK, TypeHandle, Write, Busy
  <2>00. Digest(NextLine(p)) \in Hash
    BY <2>0, DigestType
  <2>1. TypeFile'
    <3>0. lines \in Seq(Line) /\ tail \in Tails
      BY DEF TypeOK, TypeFile
    <3>00. Append(lines, NextLine(p)) \in Seq(Line)
      BY <2>0, <3>0
    <3>1. lines' \in Seq(Line) /\ tail' \in Tails
      BY <1>7, <3>0, <3>00 DEF Write, Extend, Tails
    <3> QED  BY <1>7, <3>1, ConstantsAssumption DEF TypeOK, TypeFile, Write
  <2>2. TypeHandle'
    BY <1>7, <2>00, ConstantsAssumption DEF TypeOK, TypeHandle, Write, Places, Busy
  <2>3. TypeLatch'
    BY <1>7 DEF TypeOK, TypeLatch, Write
  <2>4. TypeOthers'
    BY <1>7 DEF TypeOK, TypeOthers, Write
  <2> QED  BY <2>1, <2>2, <2>3, <2>4 DEF TypeOK
<1>8. ASSUME NEW p \in Recorders, LineRefused(p)  PROVE TypeOK'
  <2>0. TypeHandle' /\ TypeLatch' /\ lock' \in Recorders \cup {Eraser, Nobody}
    BY <1>8, TypeFailed DEF LineRefused
  <2>1. TypeFile'
    BY <1>8 DEF TypeOK, TypeFile, LineRefused
  <2>2. TypeHandle'
    BY <2>0
  <2>3. TypeLatch'
    BY <2>0
  <2>4. TypeOthers'
    BY <1>8, <2>0 DEF TypeOK, TypeOthers, LineRefused
  <2> QED  BY <2>1, <2>2, <2>3, <2>4 DEF TypeOK
<1>9. ASSUME NEW p \in Recorders, ShortWrite(p)  PROVE TypeOK'
  <2>0. TypeHandle' /\ TypeLatch' /\ lock' \in Recorders \cup {Eraser, Nobody}
    BY <1>9, TypeFailed DEF ShortWrite
  <2>00. TypeFile' /\ unanchored' \in Nat
    BY <1>9, TypeTorn DEF ShortWrite
  <2>1. TypeFile'
    BY <2>00
  <2>2. TypeHandle'
    BY <2>0
  <2>3. TypeLatch'
    BY <2>0
  <2>4. TypeOthers'
    BY <1>9, <2>0, <2>00 DEF TypeOK, TypeOthers, ShortWrite
  <2> QED  BY <2>1, <2>2, <2>3, <2>4 DEF TypeOK
<1>10. ASSUME NEW p \in Recorders, AnchorWritten(p)  PROVE TypeOK'
  <2>0. /\ TypeHandle' /\ TypeLatch' /\ lock' \in Recorders \cup {Eraser, Nobody}
       /\ acked' \in [Recorders -> Nat]
    BY <1>10, TypeSucceeded DEF AnchorWritten
  <2>00. anchor' \in A
    BY <1>10 DEF TypeOK, TypeFile, TypeHandle, AnchorWritten, AnchorAt, NoAnchor, Hash
  <2>1. TypeFile'
    BY <1>10, <2>00 DEF TypeOK, TypeFile, AnchorWritten
  <2>2. TypeHandle'
    BY <2>0
  <2>3. TypeLatch'
    BY <2>0
  <2>4. TypeOthers'
    BY <1>10, <2>0 DEF TypeOK, TypeOthers, AnchorWritten
  <2> QED  BY <2>1, <2>2, <2>3, <2>4 DEF TypeOK
<1>11. ASSUME NEW p \in Recorders, AnchorRemoved(p)  PROVE TypeOK'
  <2>0. /\ TypeHandle' /\ TypeLatch' /\ lock' \in Recorders \cup {Eraser, Nobody}
       /\ acked' \in [Recorders -> Nat]
    BY <1>11, TypeSucceeded DEF AnchorRemoved
  <2>00. anchor' \in A
    BY <1>11 DEF TypeOK, TypeFile, TypeHandle, AnchorRemoved, AnchorAt, NoAnchor, Hash
  <2>1. TypeFile'
    BY <1>11, <2>00 DEF TypeOK, TypeFile, AnchorRemoved
  <2>2. TypeHandle'
    BY <2>0
  <2>3. TypeLatch'
    BY <2>0
  <2>4. TypeOthers'
    <3>0. rewritten' \in BOOLEAN
      BY <1>11, Zenon DEF AnchorRemoved
    <3>1. faults' \in Nat /\ unanchored' \in Nat
      BY <1>11 DEF TypeOK, TypeOthers, AnchorRemoved
    <3> QED  BY <1>11, <3>0, <2>0, <3>1 DEF TypeOK, TypeOthers, AnchorRemoved
  <2> QED  BY <2>1, <2>2, <2>3, <2>4 DEF TypeOK
<1>12. ASSUME NEW p \in Recorders, AnchorLeft(p)  PROVE TypeOK'
  <2>0. /\ TypeHandle' /\ TypeLatch' /\ lock' \in Recorders \cup {Eraser, Nobody}
       /\ acked' \in [Recorders -> Nat]
    BY <1>12, TypeSucceeded DEF AnchorLeft
  <2>00. anchor' \in A
    BY <1>12 DEF TypeOK, TypeFile, TypeHandle, AnchorLeft, AnchorAt, NoAnchor, Hash
  <2>1. TypeFile'
    BY <1>12, <2>00 DEF TypeOK, TypeFile, AnchorLeft
  <2>2. TypeHandle'
    BY <2>0
  <2>3. TypeLatch'
    BY <2>0
  <2>4. TypeOthers'
    BY <1>12, <2>0 DEF TypeOK, TypeOthers, AnchorLeft
  <2> QED  BY <2>1, <2>2, <2>3, <2>4 DEF TypeOK
<1>13. ASSUME NEW p \in Recorders, Crash(p)  PROVE TypeOK'
  <2>0. TypeHandle' /\ lock' \in Recorders \cup {Eraser, Nobody}
    BY <1>13, TypeDie DEF Crash
  <2>1. TypeFile'
    BY <1>13 DEF TypeOK, TypeFile, Crash
  <2>2. TypeHandle'
    BY <2>0
  <2>3. TypeLatch'
    BY <1>13 DEF TypeOK, TypeLatch, Crash
  <2>4. TypeOthers'
    BY <1>13, <2>0 DEF TypeOK, TypeOthers, Crash
  <2> QED  BY <2>1, <2>2, <2>3, <2>4 DEF TypeOK
<1>14. ASSUME NEW p \in Recorders, KilledWriting(p)  PROVE TypeOK'
  <2>0. TypeHandle' /\ lock' \in Recorders \cup {Eraser, Nobody}
    BY <1>14, TypeDie DEF KilledWriting
  <2>00. TypeFile' /\ unanchored' \in Nat
    BY <1>14, TypeTorn DEF KilledWriting
  <2>1. TypeFile'
    BY <2>00
  <2>2. TypeHandle'
    BY <2>0
  <2>3. TypeLatch'
    BY <1>14 DEF TypeOK, TypeLatch, KilledWriting
  <2>4. TypeOthers'
    BY <1>14, <2>0, <2>00 DEF TypeOK, TypeOthers, KilledWriting
  <2> QED  BY <2>1, <2>2, <2>3, <2>4 DEF TypeOK
<1>15. CASE ReadChain
  <2>0. "none" \in Answers
    BY DEF Answers
  <2>00. [lines |-> lines, readable |-> Readable] \in [lines : Seq(Line), readable : BOOLEAN]
    BY DEF TypeOK, TypeFile, Readable
  <2>1. TypeFile'
    BY <1>15 DEF TypeOK, TypeFile, ReadChain
  <2>2. TypeHandle'
    BY <1>15 DEF TypeOK, TypeHandle, ReadChain
  <2>3. TypeLatch'
    BY <1>15 DEF TypeOK, TypeLatch, ReadChain
  <2>4. TypeOthers'
    BY <1>15, <2>0, <2>00 DEF TypeOK, TypeOthers, ReadChain
  <2> QED  BY <2>1, <2>2, <2>3, <2>4 DEF TypeOK
<1>16. CASE ReadAnchor
  <2>0. Verdict(snap, anchor) \in Answers
    BY DEF Verdict, AnchorState, Answers
  <2>00. [lines |-> <<>>, readable |-> TRUE] \in [lines : Seq(Line), readable : BOOLEAN]
    OBVIOUS
  <2>1. TypeFile'
    BY <1>16 DEF TypeOK, TypeFile, ReadAnchor
  <2>2. TypeHandle'
    BY <1>16 DEF TypeOK, TypeHandle, ReadAnchor
  <2>3. TypeLatch'
    BY <1>16 DEF TypeOK, TypeLatch, ReadAnchor
  <2>4. TypeOthers'
    BY <1>16, <2>0, <2>00 DEF TypeOK, TypeOthers, ReadAnchor
  <2> QED  BY <2>1, <2>2, <2>3, <2>4 DEF TypeOK
<1>17. CASE EraseLock
  <2>1. TypeFile'
    BY <1>17 DEF TypeOK, TypeFile, EraseLock
  <2>2. TypeHandle'
    BY <1>17 DEF TypeOK, TypeHandle, EraseLock
  <2>3. TypeLatch'
    BY <1>17 DEF TypeOK, TypeLatch, EraseLock
  <2>4. TypeOthers'
    BY <1>17 DEF TypeOK, TypeOthers, EraseLock
  <2> QED  BY <2>1, <2>2, <2>3, <2>4 DEF TypeOK
<1>18. CASE EraseRefuses
  <2>1. TypeFile'
    BY <1>18 DEF TypeOK, TypeFile, EraseRefuses
  <2>2. TypeHandle'
    BY <1>18 DEF TypeOK, TypeHandle, EraseRefuses
  <2>3. TypeLatch'
    BY <1>18 DEF TypeOK, TypeLatch, EraseRefuses
  <2>4. TypeOthers'
    BY <1>18 DEF TypeOK, TypeOthers, EraseRefuses, EraseDone
  <2> QED  BY <2>1, <2>2, <2>3, <2>4 DEF TypeOK
<1>19. CASE EraseRewrites
  <2>0. Erased(lines) \in Seq(Line)
    BY ErasedType DEF TypeOK, TypeFile, Erased
  <2>00. ErasedSize \in Int
    BY RedactableType, ConstantsAssumption DEF TypeOK, TypeFile, ErasedSize
  <2>1. TypeFile'
    BY <1>19, <2>0, <2>00 DEF TypeOK, TypeFile, EraseRewrites, Tails
  <2>2. TypeHandle'
    BY <1>19 DEF TypeOK, TypeHandle, EraseRewrites
  <2>3. TypeLatch'
    BY <1>19 DEF TypeOK, TypeLatch, EraseRewrites
  <2>4. TypeOthers'
    BY <1>19, <2>00 DEF TypeOK, TypeOthers, EraseRewrites
  <2> QED  BY <2>1, <2>2, <2>3, <2>4 DEF TypeOK
<1>20. CASE EraseTruncates
  <2>1. TypeFile'
    BY <1>20 DEF TypeOK, TypeFile, TypeOthers, EraseTruncates, Tails
  <2>2. TypeHandle'
    BY <1>20 DEF TypeOK, TypeHandle, EraseTruncates
  <2>3. TypeLatch'
    BY <1>20 DEF TypeOK, TypeLatch, EraseTruncates
  <2>4. TypeOthers'
    BY <1>20 DEF TypeOK, TypeOthers, EraseTruncates
  <2> QED  BY <2>1, <2>2, <2>3, <2>4 DEF TypeOK
<1>21. CASE EraseAnchors
  <2>000. lines \in Seq(Line) /\ <<>> \in Hash
    BY DEF TypeOK, TypeFile, Hash
  <2>0. Len(lines) \in Nat /\ HeadOf(lines) \in Hash /\ <<>> \in Hash
    BY <2>000, HeadType
  <2>00. AnchorAt(Len(lines), HeadOf(lines)) \in A /\ NoAnchor \in A
    BY <2>0 DEF AnchorAt, NoAnchor
  <2>1. TypeFile'
    BY <1>21, <2>00 DEF TypeOK, TypeFile, EraseAnchors
  <2>2. TypeHandle'
    BY <1>21 DEF TypeOK, TypeHandle, EraseAnchors
  <2>3. TypeLatch'
    BY <1>21 DEF TypeOK, TypeLatch, EraseAnchors
  <2>4. TypeOthers'
    <3>0. rewritten' \in BOOLEAN
      BY <1>21, Zenon DEF EraseAnchors
    <3>1. faults' \in Nat /\ unanchored' \in Nat
      BY <1>21 DEF TypeOK, TypeOthers, EraseAnchors
    <3> QED  BY <1>21, <3>0, <3>1 DEF TypeOK, TypeOthers, EraseAnchors, EraseDone
  <2> QED  BY <2>1, <2>2, <2>3, <2>4 DEF TypeOK
<1>22. CASE EraseStops
  <2>1. TypeFile'
    BY <1>22 DEF TypeOK, TypeFile, EraseStops
  <2>2. TypeHandle'
    BY <1>22 DEF TypeOK, TypeHandle, EraseStops
  <2>3. TypeLatch'
    BY <1>22 DEF TypeOK, TypeLatch, EraseStops
  <2>4. TypeOthers'
    BY <1>22 DEF TypeOK, TypeOthers, EraseStops, EraseDone
  <2> QED  BY <2>1, <2>2, <2>3, <2>4 DEF TypeOK
<1>23. CASE UNCHANGED vars
  <2>1. TypeFile' /\ TypeLatch'
    BY <1>23 DEF TypeOK, TypeFile, TypeLatch, vars
  <2>2. TypeHandle'
    BY <1>23 DEF TypeOK, TypeHandle, vars
  <2>3. TypeOthers'
    BY <1>23 DEF TypeOK, TypeOthers, vars
  <2> QED  BY <2>1, <2>2, <2>3 DEF TypeOK
<1> QED
  BY <1>1, <1>2, <1>3, <1>4, <1>5, <1>6, <1>7, <1>8, <1>9, <1>10, <1>11, <1>12, <1>13, <1>14, <1>15, <1>16, <1>17, <1>18, <1>19, <1>20, <1>21, <1>22, <1>23, BodyTypes
  DEF Next, Step, EraseStep

\* The state the code keeps has its types in every reachable state.
THEOREM TypeCorrect == Spec => []TypeOK
  BY TypeInit, TypeNext, PTL DEF Spec

---------------------------------------------------------------------------
\* The handles, the eraser and the reader exclude each other as the flock says.
LEMMA MutexInit == Init => MutexInv
  BY ConstantsAssumption DEF Init, MutexInv

\* Append, Erase and ReadSnapshot take the flock before they read and drop it when
\* they return or die, so it has one holder.
LEMMA MutexNext == TypeOK /\ MutexInv /\ [Next]_vars => MutexInv'
<1> SUFFICES ASSUME TypeOK, MutexInv, [Next]_vars PROVE MutexInv'
  OBVIOUS
<1> USE ConstantsAssumption
<1> USE DEF file, handle, latch, eraser, reader, history, Readable
<1>0. /\ pc \in [Recorders -> Places] /\ lock \in Recorders \cup {Eraser, Nobody}
      /\ reading \in BOOLEAN /\ erasures \in Nat
  BY DEF TypeOK, TypeHandle, TypeOthers
<1>1. ASSUME NEW p \in Recorders, Open(p)  PROVE MutexInv'
  BY <1>1, <1>0 DEF MutexInv, Open
<1>2. ASSUME NEW p \in Recorders, NEW b \in {DataBody(p), EndBody(p)}, BeginAppend(p, b)
      PROVE  MutexInv'
  BY <1>2, <1>0 DEF MutexInv, BeginAppend
<1>3. ASSUME NEW p \in Recorders, EndBroken(p)  PROVE MutexInv'
  BY <1>3, <1>0 DEF MutexInv, EndBroken
<1>4. ASSUME NEW p \in Recorders, Lock(p)  PROVE MutexInv'
  BY <1>4, <1>0 DEF MutexInv, Lock
<1>5. ASSUME NEW p \in Recorders, CatchUp(p)  PROVE MutexInv'
  BY <1>5, <1>0 DEF MutexInv, CatchUp
<1>6. ASSUME NEW p \in Recorders, CatchUpRefuses(p)  PROVE MutexInv'
  BY <1>6, <1>0 DEF MutexInv, CatchUpRefuses, Failed
<1>7. ASSUME NEW p \in Recorders, Write(p)  PROVE MutexInv'
  BY <1>7, <1>0 DEF MutexInv, Write, Extend
<1>8. ASSUME NEW p \in Recorders, LineRefused(p)  PROVE MutexInv'
  BY <1>8, <1>0 DEF MutexInv, LineRefused, Failed
<1>9. ASSUME NEW p \in Recorders, ShortWrite(p)  PROVE MutexInv'
  BY <1>9, <1>0 DEF MutexInv, ShortWrite, Failed, Torn
<1>10. ASSUME NEW p \in Recorders, AnchorWritten(p)  PROVE MutexInv'
  BY <1>10, <1>0 DEF MutexInv, AnchorWritten, Succeeded
<1>11. ASSUME NEW p \in Recorders, AnchorRemoved(p)  PROVE MutexInv'
  BY <1>11, <1>0 DEF MutexInv, AnchorRemoved, Succeeded
<1>12. ASSUME NEW p \in Recorders, AnchorLeft(p)  PROVE MutexInv'
  BY <1>12, <1>0 DEF MutexInv, AnchorLeft, Succeeded
<1>13. ASSUME NEW p \in Recorders, Crash(p)  PROVE MutexInv'
  BY <1>13, <1>0 DEF MutexInv, Crash, Die
<1>14. ASSUME NEW p \in Recorders, KilledWriting(p)  PROVE MutexInv'
  BY <1>14, <1>0 DEF MutexInv, KilledWriting, Die, Torn
<1>15. CASE ReadChain
  BY <1>15, <1>0 DEF MutexInv, ReadChain
<1>16. CASE ReadAnchor
  BY <1>16, <1>0 DEF MutexInv, ReadAnchor
<1>17. CASE EraseLock
  BY <1>17, <1>0 DEF MutexInv, EraseLock
<1>18. CASE EraseRefuses
  BY <1>18, <1>0 DEF MutexInv, EraseRefuses, EraseDone
<1>19. CASE EraseRewrites
  BY <1>19, <1>0 DEF MutexInv, EraseRewrites, Erasable
<1>20. CASE EraseTruncates
  BY <1>20, <1>0 DEF MutexInv, EraseTruncates
<1>21. CASE EraseAnchors
  BY <1>21, <1>0 DEF MutexInv, EraseAnchors, EraseDone
<1>22. CASE EraseStops
  BY <1>22, <1>0 DEF MutexInv, EraseStops, EraseDone
<1>23. CASE UNCHANGED vars
  BY <1>23 DEF MutexInv, vars
<1> QED
  BY <1>1, <1>2, <1>3, <1>4, <1>5, <1>6, <1>7, <1>8, <1>9, <1>10,
     <1>11, <1>12, <1>13, <1>14, <1>15, <1>16, <1>17, <1>18, <1>19, <1>20,
     <1>21, <1>22, <1>23
  DEF Next, Step, EraseStep

---------------------------------------------------------------------------
\* What an erasure leaves of a line: who recorded it and its type.
LEMMA ErasedLines ==
  ASSUME NEW ls \in Seq(Line)
  PROVE  /\ Erased(ls) \in Seq(Line) /\ Len(Erased(ls)) = Len(ls) + 1
         /\ \A i \in 1..Len(ls) : Erased(ls)[i].body = Redacted(ls[i].body)
         /\ Erased(ls)[Len(ls) + 1].body = ErasureBody
<1> DEFINE bs  == Append(RedactedBodies(ls), ErasureBody)
           new == Erased(ls)
<1>1. /\ bs \in Seq(Body) /\ Len(bs) = Len(ls) + 1
      /\ new \in Seq(Line) /\ Len(new) = Len(ls) + 1
  BY ErasedType DEF Erased
<1>2. Len(ls) \in Nat /\ DOMAIN ls = 1..Len(ls)
  OBVIOUS
<1>3. \A i \in 1..Len(bs) : new[i].body = bs[i]
  BY DEF Rechained, Erased
<1>4. RedactedBodies(ls) = [i \in 1..Len(ls) |-> Redacted(ls[i].body)]
  BY <1>2 DEF RedactedBodies
<1>5. \A i \in 1..Len(ls) : bs[i] = Redacted(ls[i].body)
  <2>1. \A i \in 1..Len(ls) : Redacted(ls[i].body) \in Body
    <3>1. \A i \in 1..Len(ls) : ls[i] \in Line  BY <1>2
    <3>2. \A i \in 1..Len(ls) : ls[i].body \in Body  BY <3>1 DEF Line
    <3> QED  BY <3>2, RedactedType
  <2>2. RedactedBodies(ls) \in Seq(Body) /\ Len(RedactedBodies(ls)) = Len(ls)
    BY <1>2, <1>4, <2>1
  <2>3. \A i \in 1..Len(ls) : RedactedBodies(ls)[i] = Redacted(ls[i].body)
    BY <1>4
  <2> HIDE DEF new
  <2> QED  BY <1>2, <2>2, <2>3
<1>6. bs[Len(ls) + 1] = ErasureBody
  <2>1. RedactedBodies(ls) \in Seq(Body) /\ Len(RedactedBodies(ls)) = Len(ls)
    <3>1. \A i \in 1..Len(ls) : ls[i] \in Line  BY <1>2
    <3>2. \A i \in 1..Len(ls) : ls[i].body \in Body  BY <3>1 DEF Line
    <3> QED  BY <3>2, <1>2, <1>4, RedactedType
  <2> QED  BY <2>1, <1>2
<1> HIDE DEF bs
<1> QED  BY <1>1, <1>2, <1>3, <1>5, <1>6

---------------------------------------------------------------------------
\* A handle writes what it was given or its epitaph.
LEMMA EventInit == Init => EventInv
  BY DEF Init, EventInv, Busy

\* What a handle holds to write is set by Append's event or by writeEpitaphLocked, and
\* by no other step.
LEMMA EventNext == TypeOK /\ EventInv /\ [Next]_vars => EventInv'
<1> SUFFICES ASSUME TypeOK, EventInv, [Next]_vars PROVE EventInv'
  OBVIOUS
<1> USE DEF file, handle, latch, eraser, reader, history
<1>0. /\ pc \in [Recorders -> Places] /\ pending \in [Recorders -> Body \cup {NoBody}]
      /\ failure \subseteq Recorders /\ epitaph \subseteq Recorders
      /\ failedAt \in [Recorders -> Nat]
  BY DEF TypeOK, TypeHandle, TypeLatch
<1>1. ASSUME NEW p \in Recorders, Open(p)  PROVE EventInv'
  BY <1>1, <1>0 DEF EventInv, Busy, Open
<1>2. ASSUME NEW p \in Recorders, NEW b \in {DataBody(p), EndBody(p)}, BeginAppend(p, b)
      PROVE  EventInv'
  BY <1>2, <1>0 DEF EventInv, Busy, BeginAppend
<1>3. ASSUME NEW p \in Recorders, EndBroken(p)  PROVE EventInv'
  BY <1>3, <1>0 DEF EventInv, Busy, EndBroken
<1>4. ASSUME NEW p \in Recorders, Lock(p)  PROVE EventInv'
  BY <1>4, <1>0 DEF EventInv, Busy, Lock
<1>5. ASSUME NEW p \in Recorders, CatchUp(p)  PROVE EventInv'
  BY <1>5, <1>0 DEF EventInv, Busy, CatchUp
<1>6. ASSUME NEW p \in Recorders, CatchUpRefuses(p)  PROVE EventInv'
  BY <1>6, <1>0 DEF EventInv, Busy, CatchUpRefuses, Failed
<1>7. ASSUME NEW p \in Recorders, Write(p)  PROVE EventInv'
  BY <1>7, <1>0 DEF EventInv, Busy, Write, Extend
<1>8. ASSUME NEW p \in Recorders, LineRefused(p)  PROVE EventInv'
  BY <1>8, <1>0 DEF EventInv, Busy, LineRefused, Failed
<1>9. ASSUME NEW p \in Recorders, ShortWrite(p)  PROVE EventInv'
  BY <1>9, <1>0 DEF EventInv, Busy, ShortWrite, Failed, Torn
<1>10. ASSUME NEW p \in Recorders, AnchorWritten(p)  PROVE EventInv'
  BY <1>10, <1>0 DEF EventInv, Busy, AnchorWritten, Succeeded
<1>11. ASSUME NEW p \in Recorders, AnchorRemoved(p)  PROVE EventInv'
  BY <1>11, <1>0 DEF EventInv, Busy, AnchorRemoved, Succeeded
<1>12. ASSUME NEW p \in Recorders, AnchorLeft(p)  PROVE EventInv'
  BY <1>12, <1>0 DEF EventInv, Busy, AnchorLeft, Succeeded
<1>13. ASSUME NEW p \in Recorders, Crash(p)  PROVE EventInv'
  BY <1>13, <1>0 DEF EventInv, Busy, Crash, Die
<1>14. ASSUME NEW p \in Recorders, KilledWriting(p)  PROVE EventInv'
  BY <1>14, <1>0 DEF EventInv, Busy, KilledWriting, Die, Torn
<1>15. CASE ReadChain
  BY <1>15, <1>0 DEF EventInv, Busy, ReadChain
<1>16. CASE ReadAnchor
  BY <1>16, <1>0 DEF EventInv, Busy, ReadAnchor
<1>17. CASE EraseLock
  BY <1>17, <1>0 DEF EventInv, Busy, EraseLock
<1>18. CASE EraseRefuses
  BY <1>18, <1>0 DEF EventInv, Busy, EraseRefuses, EraseDone
<1>19. CASE EraseRewrites
  BY <1>19, <1>0 DEF EventInv, Busy, EraseRewrites
<1>20. CASE EraseTruncates
  BY <1>20, <1>0 DEF EventInv, Busy, EraseTruncates
<1>21. CASE EraseAnchors
  BY <1>21, <1>0 DEF EventInv, Busy, EraseAnchors, EraseDone
<1>22. CASE EraseStops
  BY <1>22, <1>0 DEF EventInv, Busy, EraseStops, EraseDone
<1>23. CASE UNCHANGED vars
  BY <1>23 DEF EventInv, Busy, vars
<1> QED
  BY <1>1, <1>2, <1>3, <1>4, <1>5, <1>6, <1>7, <1>8, <1>9, <1>10,
     <1>11, <1>12, <1>13, <1>14, <1>15, <1>16, <1>17, <1>18, <1>19, <1>20,
     <1>21, <1>22, <1>23
  DEF Next, Step, EraseStep

---------------------------------------------------------------------------
\* After its epitaph a handle adds nothing to the chain.
LEMMA LatchInit == Init => LatchInv /\ NothingAfterEpitaph
  BY DEF Init, LatchInv, NothingAfterEpitaph

\* failLocked latches the failure, and every later Append returns it before writing.
LEMMA LatchNext ==
  TypeOK /\ MutexInv /\ EventInv /\ LatchInv /\ NothingAfterEpitaph /\ [Next]_vars
    => LatchInv' /\ NothingAfterEpitaph'
<1> SUFFICES ASSUME TypeOK, MutexInv, EventInv, LatchInv, NothingAfterEpitaph, [Next]_vars
             PROVE  LatchInv' /\ NothingAfterEpitaph'
  OBVIOUS
<1> USE DEF file, handle, latch, eraser, reader, history
<1>0. /\ pc \in [Recorders -> Places]
      /\ failure \subseteq Recorders /\ epitaph \subseteq Recorders
      /\ lines \in Seq(Line) /\ lock \in Recorders \cup {Eraser, Nobody}
  BY DEF TypeOK, TypeHandle, TypeLatch, TypeFile, TypeOthers
<1>00. \A p \in Recorders : lock = p <=> pc[p] \in {"catchup", "write", "anchor"}
  BY DEF MutexInv
<1>A. ASSUME NEW p \in Recorders, pc[p] = "write", tail = "ok",
             lines' = Append(lines, NextLine(p)),
             \/ p \notin epitaph /\ pc' = [pc EXCEPT ![p] = "anchor"] /\ UNCHANGED <<failure, epitaph>>
             \/ tail' = "unterminated" /\ failure \subseteq failure'
      PROVE  LatchInv' /\ NothingAfterEpitaph'
  <2>1. /\ Len(lines') = Len(lines) + 1 /\ Len(lines) \in Nat
        /\ \A i \in 1..Len(lines) : lines'[i] = lines[i]
        /\ lines'[Len(lines) + 1] = NextLine(p)
        /\ DOMAIN lines = 1..Len(lines) /\ DOMAIN lines' = 1..(Len(lines) + 1)
    <3>1. NextLine(p) \in Line
      BY <1>A, NextLineType DEF TypeOK, TypeHandle, Busy
    <3> QED  BY <1>A, <3>1, <1>0
  <2>2. /\ NextLine(p).body = pending[p]
        /\ pending[p].by = p /\ (pending[p].type = "epitaph" <=> p \in failure)
    <3>1. pending[p] \in IF p \in failure THEN {Epitaph(p, failedAt[p])}
                                          ELSE {DataBody(p), EndBody(p)}
      BY <1>A DEF EventInv, Busy
    <3> QED  BY <3>1 DEF NextLine, Epitaph, DataBody, EndBody
  <2>3. \A i \in 1..Len(lines) : lines[i].body.type = "epitaph" =>
           lines[i].body.by # p /\ lines[i].body.by \in failure
    BY <1>A, <2>1, <1>0 DEF LatchInv, EventInv
  <2>4. LatchInv'
    BY <1>A, <1>0, <2>1, <2>2, <2>3 DEF LatchInv
  <2>5. NothingAfterEpitaph'
    BY <1>0, <2>1, <2>2, <2>3 DEF NothingAfterEpitaph
  <2> QED  BY <2>4, <2>5
<1>1. ASSUME NEW p \in Recorders, Open(p)  PROVE LatchInv' /\ NothingAfterEpitaph'
  BY <1>1, <1>0, <1>00 DEF LatchInv, NothingAfterEpitaph, EventInv, Open
<1>2. ASSUME NEW p \in Recorders, NEW b \in {DataBody(p), EndBody(p)}, BeginAppend(p, b)
      PROVE  LatchInv' /\ NothingAfterEpitaph'
  BY <1>2, <1>0, <1>00 DEF LatchInv, NothingAfterEpitaph, EventInv, BeginAppend
<1>3. ASSUME NEW p \in Recorders, EndBroken(p)  PROVE LatchInv' /\ NothingAfterEpitaph'
  BY <1>3, <1>0, <1>00 DEF LatchInv, NothingAfterEpitaph, EventInv, EndBroken
<1>4. ASSUME NEW p \in Recorders, Lock(p)  PROVE LatchInv' /\ NothingAfterEpitaph'
  BY <1>4, <1>0, <1>00 DEF LatchInv, NothingAfterEpitaph, EventInv, Lock
<1>5. ASSUME NEW p \in Recorders, CatchUp(p)  PROVE LatchInv' /\ NothingAfterEpitaph'
  BY <1>5, <1>0, <1>00 DEF LatchInv, NothingAfterEpitaph, EventInv, CatchUp
<1>6. ASSUME NEW p \in Recorders, CatchUpRefuses(p)  PROVE LatchInv' /\ NothingAfterEpitaph'
  BY <1>6, <1>0, <1>00 DEF LatchInv, NothingAfterEpitaph, EventInv, CatchUpRefuses, Failed
<1>7. ASSUME NEW p \in Recorders, Write(p)  PROVE LatchInv' /\ NothingAfterEpitaph'
  <2>1. CASE tail = "ok"
    BY <1>7, <2>1, <1>A DEF Write, Extend, EventInv
  <2>2. CASE tail # "ok"
    BY <1>7, <2>2, <1>0 DEF Write, Extend, LatchInv, NothingAfterEpitaph, EventInv
  <2> QED  BY <2>1, <2>2
<1>8. ASSUME NEW p \in Recorders, LineRefused(p)  PROVE LatchInv' /\ NothingAfterEpitaph'
  BY <1>8, <1>0, <1>00 DEF LatchInv, NothingAfterEpitaph, EventInv, LineRefused, Failed
<1>9. ASSUME NEW p \in Recorders, ShortWrite(p)  PROVE LatchInv' /\ NothingAfterEpitaph'
  <2>1. CASE tail' = "cut"
    BY <1>9, <2>1, <1>0, <1>00 DEF LatchInv, NothingAfterEpitaph, EventInv, ShortWrite, Failed, Torn
  <2>2. CASE tail' = "unterminated"
    BY <1>9, <2>2, <1>A DEF ShortWrite, Failed, Torn
  <2> QED  BY <1>9, <2>1, <2>2 DEF ShortWrite, Failed, Torn
<1>10. ASSUME NEW p \in Recorders, AnchorWritten(p)  PROVE LatchInv' /\ NothingAfterEpitaph'
  BY <1>10, <1>0, <1>00 DEF LatchInv, NothingAfterEpitaph, EventInv, AnchorWritten, Succeeded
<1>11. ASSUME NEW p \in Recorders, AnchorRemoved(p)  PROVE LatchInv' /\ NothingAfterEpitaph'
  BY <1>11, <1>0, <1>00 DEF LatchInv, NothingAfterEpitaph, EventInv, AnchorRemoved, Succeeded
<1>12. ASSUME NEW p \in Recorders, AnchorLeft(p)  PROVE LatchInv' /\ NothingAfterEpitaph'
  BY <1>12, <1>0, <1>00 DEF LatchInv, NothingAfterEpitaph, EventInv, AnchorLeft, Succeeded
<1>13. ASSUME NEW p \in Recorders, Crash(p)  PROVE LatchInv' /\ NothingAfterEpitaph'
  BY <1>13, <1>0, <1>00 DEF LatchInv, NothingAfterEpitaph, EventInv, Crash, Die
<1>14. ASSUME NEW p \in Recorders, KilledWriting(p)  PROVE LatchInv' /\ NothingAfterEpitaph'
  <2>1. CASE tail' = "cut"
    BY <1>14, <2>1, <1>0, <1>00 DEF LatchInv, NothingAfterEpitaph, EventInv, KilledWriting, Die, Torn
  <2>2. CASE tail' = "unterminated"
    BY <1>14, <2>2, <1>A DEF KilledWriting, Die, Torn
  <2> QED  BY <1>14, <2>1, <2>2 DEF KilledWriting, Die, Torn
<1>15. CASE ReadChain
  BY <1>15, <1>0, <1>00 DEF LatchInv, NothingAfterEpitaph, EventInv, ReadChain
<1>16. CASE ReadAnchor
  BY <1>16, <1>0, <1>00 DEF LatchInv, NothingAfterEpitaph, EventInv, ReadAnchor
<1>17. CASE EraseLock
  BY <1>17, <1>0, <1>00 DEF LatchInv, NothingAfterEpitaph, EventInv, EraseLock
<1>18. CASE EraseRefuses
  BY <1>18, <1>0, <1>00 DEF LatchInv, NothingAfterEpitaph, EventInv, EraseRefuses, EraseDone
<1>19. CASE EraseRewrites
  <2> DEFINE new == Erased(lines)
  <2>1. /\ new \in Seq(Line) /\ Len(new) = Len(lines) + 1
        /\ \A i \in 1..Len(lines) : new[i].body = Redacted(lines[i].body)
        /\ new[Len(lines) + 1].body = ErasureBody
    BY <1>0, ErasedLines
  <2>2. \A i \in 1..Len(lines) :
           new[i].body.type = lines[i].body.type /\ new[i].body.by = lines[i].body.by
    <3>1. \A i \in 1..Len(lines) : lines[i] \in Line
      BY <1>0
    <3>2. \A i \in 1..Len(lines) : lines[i].body \in Body
      BY <3>1 DEF Line
    <3> HIDE DEF new
    <3> QED  BY <2>1, <3>2 DEF Redacted, Body
  <2>3. lines' = new /\ tail = "ok" /\ UNCHANGED <<pc, failure, epitaph>>
    BY <1>19 DEF EraseRewrites, Erasable
  <2>4. DOMAIN lines = 1..Len(lines) /\ DOMAIN new = 1..(Len(lines) + 1) /\ Len(lines) \in Nat
    BY <2>1, <1>0
  <2>5. new[Len(lines) + 1].body.type = "erasure" /\ new[Len(lines) + 1].body.by = Eraser
    BY <2>1 DEF ErasureBody
  <2>6. \A i \in 1..Len(lines) : lines[i].body.type = "epitaph" => lines[i].body.by \in Recorders
    BY <1>0, <2>4 DEF LatchInv
  <2> HIDE DEF new
  <2>7. LatchInv'
    BY <2>2, <2>3, <2>4, <2>5 DEF LatchInv
  <2>8. NothingAfterEpitaph'
    BY <2>2, <2>3, <2>4, <2>5, <2>6, ConstantsAssumption DEF NothingAfterEpitaph
  <2> QED  BY <2>7, <2>8
<1>20. CASE EraseTruncates
  <2>1. tail \in {"ok", "stale"}
    BY <1>20 DEF MutexInv, EraseTruncates
  <2> QED  BY <1>20, <2>1 DEF LatchInv, NothingAfterEpitaph, EraseTruncates
<1>21. CASE EraseAnchors
  BY <1>21, <1>0, <1>00 DEF LatchInv, NothingAfterEpitaph, EventInv, EraseAnchors, EraseDone
<1>22. CASE EraseStops
  BY <1>22, <1>0, <1>00 DEF LatchInv, NothingAfterEpitaph, EventInv, EraseStops, EraseDone
<1>23. CASE UNCHANGED vars
  BY <1>23 DEF LatchInv, NothingAfterEpitaph, vars
<1> QED
  BY <1>1, <1>2, <1>3, <1>4, <1>5, <1>6, <1>7, <1>8, <1>9, <1>10,
     <1>11, <1>12, <1>13, <1>14, <1>15, <1>16, <1>17, <1>18, <1>19, <1>20,
     <1>21, <1>22, <1>23
  DEF Next, Step, EraseStep

\* A recorder that failed says so at most once and never writes again, however
\* many processes, failures, deaths and erasures there are.
THEOREM LatchHolds == Spec => []NothingAfterEpitaph
<1> DEFINE Inv == TypeOK /\ MutexInv /\ EventInv /\ LatchInv /\ NothingAfterEpitaph
<1>1. Init => Inv
  BY TypeInit, MutexInit, EventInit, LatchInit
<1>2. Inv /\ [Next]_vars => Inv'
  BY TypeNext, MutexNext, EventNext, LatchNext
<1> QED  BY <1>1, <1>2, PTL DEF Spec

---------------------------------------------------------------------------
\* A sequence given element by element grows by its next element.
LEMMA AppendNext ==
  ASSUME NEW S, NEW n \in Nat, NEW F(_), \A j \in 1..(n + 1) : F(j) \in S
  PROVE  Append([j \in 1..n |-> F(j)], F(n + 1)) = [j \in 1..(n + 1) |-> F(j)]
<1>1. [j \in 1..n |-> F(j)] \in Seq(S) /\ [j \in 1..(n + 1) |-> F(j)] \in Seq(S)
  OBVIOUS
<1>2. Len([j \in 1..n |-> F(j)]) = n /\ Len([j \in 1..(n + 1) |-> F(j)]) = n + 1
  OBVIOUS
<1> QED  BY <1>1, <1>2

\* A chain built by numbering and hashing a list of bodies verifies: what an
\* erasure leaves is a chain, whatever it replaced.
LEMMA RechainedVerifies ==
  ASSUME NEW bs \in Seq(Body)
  PROVE  Verifies(Rechained(bs))
<1> DEFINE E(j) == [seq |-> j, body |-> bs[j]]
           new  == Rechained(bs)
<1>1. /\ Len(bs) \in Nat /\ DOMAIN new = 1..Len(bs)
      /\ \A i \in 1..Len(bs) : /\ new[i].seq = i
                               /\ new[i].prev = [j \in 1..(i - 1) |-> E(j)]
                               /\ new[i].body = bs[i]
  BY DEF Rechained
<1>2. ASSUME NEW i \in 1..Len(bs), i # 1
      PROVE  new[i].prev = Digest(new[i - 1])
  <2>1. i - 1 \in 1..Len(bs) /\ i - 2 \in Nat /\ (i - 2) + 1 = i - 1 /\ (i - 1) - 1 = i - 2
    BY <1>1, <1>2
  <2>2. Digest(new[i - 1]) = Append([j \in 1..(i - 2) |-> E(j)], E(i - 1))
    BY <1>1, <2>1 DEF Digest
  <2>3. \A j \in 1..(i - 1) : E(j) \in [seq : Nat, body : Body]
    BY <1>1, <2>1
  <2>4. Append([j \in 1..(i - 2) |-> E(j)], E(i - 1)) = [j \in 1..(i - 1) |-> E(j)]
    <3> HIDE DEF E
    <3> DEFINE n == i - 2
    <3>1. n \in Nat /\ n + 1 = i - 1
      BY <2>1
    <3>2. \A j \in 1..(n + 1) : E(j) \in [seq : Nat, body : Body]
      BY <2>3, <3>1
    <3> HIDE DEF n
    <3>3. Append([j \in 1..n |-> E(j)], E(n + 1)) = [j \in 1..(n + 1) |-> E(j)]
      BY <3>1, <3>2, AppendNext
    <3> QED  BY <3>1, <3>3 DEF n
  <2> QED  BY <1>1, <2>2, <2>4
<1>3. ASSUME NEW i \in 1..Len(bs), i = 1
      PROVE  new[i].prev = <<>>
  <2>1. [j \in 1..0 |-> E(j)] \in Seq({E(j) : j \in 1..0}) /\ Len([j \in 1..0 |-> E(j)]) = 0
    OBVIOUS
  <2>2. [j \in 1..0 |-> E(j)] = <<>>
    BY <2>1
  <2>3. i - 1 = 0  BY <1>3
  <2>4. new[i].prev = [j \in 1..(i - 1) |-> E(j)]  BY <1>1
  <2> HIDE DEF new, E
  <2> QED  BY <2>2, <2>3, <2>4
<1> HIDE DEF new
<1>4. Verifies(new)
  BY <1>1, <1>2, <1>3 DEF Verifies
<1> QED  BY <1>4 DEF new

\* A line that names the end of a chain extends it.
LEMMA VerifiesAppend ==
  ASSUME NEW ls \in Seq(Line), Verifies(ls), NEW line \in Line,
         line.seq = Len(ls) + 1, line.prev = HeadOf(ls)
  PROVE  Verifies(Append(ls, line)) /\ HeadOf(Append(ls, line)) = Digest(line)
<1> DEFINE new == Append(ls, line)
<1>1. /\ new \in Seq(Line) /\ Len(new) = Len(ls) + 1 /\ Len(ls) \in Nat
      /\ DOMAIN new = 1..(Len(ls) + 1) /\ DOMAIN ls = 1..Len(ls)
      /\ \A i \in 1..Len(ls) : new[i] = ls[i]
      /\ new[Len(ls) + 1] = line /\ new # <<>>
  OBVIOUS
<1> HIDE DEF new
<1>2. ASSUME NEW i \in 1..Len(ls)
      PROVE  new[i].seq = i /\ new[i].prev = IF i = 1 THEN <<>> ELSE Digest(new[i - 1])
  <2>1. ls[i].seq = i /\ ls[i].prev = IF i = 1 THEN <<>> ELSE Digest(ls[i - 1])
    BY <1>1 DEF Verifies
  <2>2. i # 1 => i - 1 \in 1..Len(ls)
    BY <1>1
  <2> QED  BY <1>1, <2>1, <2>2
<1>3. new[Len(ls) + 1].prev = IF Len(ls) + 1 = 1 THEN <<>> ELSE Digest(new[(Len(ls) + 1) - 1])
  <2>1. CASE ls = <<>>
    BY <1>1, <2>1 DEF HeadOf
  <2>2. CASE ls # <<>>
    <3>1. Len(ls) \in 1..Len(ls) /\ (Len(ls) + 1) - 1 = Len(ls) /\ Len(ls) + 1 # 1
      BY <1>1, <2>2
    <3> QED  BY <1>1, <2>2, <3>1 DEF HeadOf
  <2> QED  BY <2>1, <2>2
<1>4. Verifies(new)
  BY <1>1, <1>2, <1>3 DEF Verifies
<1>5. HeadOf(new) = Digest(line)
  BY <1>1 DEF HeadOf
<1> QED  BY <1>4, <1>5 DEF new

\* Where redaction never shortens a line, an erasure makes the file longer.
LEMMA ErasedGrows ==
  ASSUME TypeOK, SizeOnlyGrows, MaxErasures > 0
  PROVE  ErasedSize > size
<1>1. Cardinality(Redactable(lines)) \in Nat
  BY RedactableType DEF TypeOK, TypeFile
<1>2. RedactedSize - LineSize \in Nat
  BY ConstantsAssumption DEF SizeOnlyGrows
<1>3. \A a, b \in Nat : a * b \in Nat
  OBVIOUS
<1>4. Cardinality(Redactable(lines)) * (RedactedSize - LineSize) \in Nat
  BY <1>1, <1>2, <1>3
<1>5. size \in Int  BY DEF TypeOK, TypeFile
<1> QED  BY <1>4, <1>5, ConstantsAssumption DEF ErasedSize

---------------------------------------------------------------------------
\* No handle extends a chain from an end that is not the file's end.
LEMMA ChainInit == Init => ChainInv
  BY DEF Init, ChainInv, Verifies, HeadOf

\* catchUp reads every byte another handle added before appendLocked extends the end,
\* and refuses a file whose end it cannot read.
LEMMA ChainNext ==
  ASSUME SizeOnlyGrows
  PROVE  TypeOK /\ MutexInv /\ ChainInv /\ [Next]_vars => ChainInv'
<1> SUFFICES ASSUME TypeOK, MutexInv, ChainInv, [Next]_vars PROVE ChainInv'
  OBVIOUS
<1> USE DEF file, handle, latch, eraser, reader, history
<1>0. /\ pc \in [Recorders -> Places] /\ lock \in Recorders \cup {Eraser, Nobody}
      /\ lines \in Seq(Line) /\ size \in Int /\ Len(lines) \in Nat
      /\ seq \in [Recorders -> Nat] /\ off \in [Recorders -> Int]
      /\ prev \in [Recorders -> Hash] /\ failedAt \in [Recorders -> Nat]
  BY DEF TypeOK, TypeHandle, TypeLatch, TypeFile, TypeOthers
<1>00. /\ \A p \in Recorders : lock = p <=> pc[p] \in {"catchup", "write", "anchor"}
       /\ lock = Eraser <=> epc # "idle"
  BY DEF MutexInv
<1>A. ASSUME NEW p \in Recorders, pc[p] = "write"
      PROVE  /\ NextLine(p) \in Line /\ tail = "ok" /\ off[p] = size
             /\ Verifies(Append(lines, NextLine(p)))
             /\ HeadOf(Append(lines, NextLine(p))) = Digest(NextLine(p))
             /\ seq[p] = Len(lines) /\ Len(Append(lines, NextLine(p))) = Len(lines) + 1
             /\ epc = "idle"
  <2>1. NextLine(p) \in Line
    BY <1>A, NextLineType DEF TypeOK, TypeHandle, Busy
  <2>2. /\ tail = "ok" /\ seq[p] = Len(lines) /\ prev[p] = HeadOf(lines)
        /\ off[p] = size /\ Verifies(lines)
    BY <1>A DEF ChainInv
  <2>3. NextLine(p).seq = Len(lines) + 1 /\ NextLine(p).prev = HeadOf(lines)
    BY <2>2 DEF NextLine
  <2>4. epc = "idle"
    BY <1>A, <1>00, ConstantsAssumption
  <2> QED  BY <1>0, <2>1, <2>2, <2>3, <2>4, VerifiesAppend
<1>1. ASSUME NEW p \in Recorders, Open(p)  PROVE ChainInv'
  BY <1>1, <1>0, <1>00 DEF ChainInv, Open
<1>2. ASSUME NEW p \in Recorders, NEW b \in {DataBody(p), EndBody(p)}, BeginAppend(p, b)
      PROVE  ChainInv'
  BY <1>2, <1>0, <1>00 DEF ChainInv, BeginAppend
<1>3. ASSUME NEW p \in Recorders, EndBroken(p)  PROVE ChainInv'
  BY <1>3, <1>0, <1>00 DEF ChainInv, EndBroken
<1>4. ASSUME NEW p \in Recorders, Lock(p)  PROVE ChainInv'
  BY <1>4, <1>0, <1>00 DEF ChainInv, Lock
<1>5. ASSUME NEW p \in Recorders, CatchUp(p)  PROVE ChainInv'
  <2>1. CASE Stale(p)
    <3>1. Verifies(lines) /\ tail = "ok"
      BY <1>5, <2>1 DEF CatchUp, Extensible
    <3> QED  BY <1>5, <1>0, <1>00, <2>1, <3>1 DEF ChainInv, CatchUp
  <2>2. CASE ~Stale(p)
    BY <1>5, <1>0, <1>00, <2>2 DEF ChainInv, CatchUp, Stale
  <2> QED  BY <2>1, <2>2
<1>6. ASSUME NEW p \in Recorders, CatchUpRefuses(p)  PROVE ChainInv'
  BY <1>6, <1>0, <1>00 DEF ChainInv, CatchUpRefuses, Failed
<1>7. ASSUME NEW p \in Recorders, Write(p)  PROVE ChainInv'
  <2>1. /\ lines' = Append(lines, NextLine(p)) /\ tail' = tail
        /\ size' = size + LineSize /\ seq' = [seq EXCEPT ![p] = @ + 1]
        /\ prev' = [prev EXCEPT ![p] = Digest(NextLine(p))]
        /\ off' = [off EXCEPT ![p] = @ + LineSize]
        /\ pc' = [pc EXCEPT ![p] = "anchor"]
        /\ UNCHANGED <<epc, newSize, failedAt>>
    BY <1>7, <1>A DEF Write, Extend
  <2>2. pc[p] = "write"  BY <1>7 DEF Write
  <2>3. \A q \in Recorders : q # p => pc[q] \notin {"write", "anchor"}
    BY <1>00, <2>2
  <2>4. Verifies(lines') /\ HeadOf(lines') = Digest(NextLine(p)) /\ Len(lines') = Len(lines) + 1
    BY <1>A, <2>1, <2>2
  <2> HIDE DEF Verifies
  <2> QED  BY <1>0, <1>A, <2>1, <2>2, <2>3, <2>4, ConstantsAssumption DEF ChainInv
<1>8. ASSUME NEW p \in Recorders, LineRefused(p)  PROVE ChainInv'
  BY <1>8, <1>0, <1>00 DEF ChainInv, LineRefused, Failed
<1>9. ASSUME NEW p \in Recorders, ShortWrite(p)  PROVE ChainInv'
  <2>1. pc[p] = "write" /\ size' > size /\ tail' \in {"cut", "unterminated"}
    BY <1>9, <1>0, ConstantsAssumption DEF ShortWrite, Failed, Torn
  <2>2. \A q \in Recorders : q # p => pc[q] \notin {"write", "anchor"}
    BY <1>00, <2>1
  <2>3. /\ lines' \in {lines, Append(lines, NextLine(p))} /\ UNCHANGED <<handle, epc, newSize>>
        /\ \A q \in Recorders : q # p => pc'[q] = pc[q]
        /\ pc'[p] \notin {"write", "anchor"}
    BY <1>9, <1>0 DEF ShortWrite, Failed, Torn
  <2>4. Verifies(lines') /\ Len(lines') >= Len(lines) /\ Len(lines') \in Nat
    <3>1. CASE lines' = lines
      BY <1>0, <3>1 DEF ChainInv
    <3>2. CASE lines' = Append(lines, NextLine(p))
      BY <1>A, <1>0, <2>1, <3>2
    <3> QED  BY <2>3, <3>1, <3>2
  <2>5. \A q \in Recorders : failedAt'[q] <= Len(lines') + 1
    <3>1. \A q \in Recorders : failedAt'[q] = failedAt[q] \/ failedAt'[q] = seq[q] + 1
      BY <1>9, <1>0 DEF ShortWrite, Failed, Torn
    <3>2. \A q \in Recorders : failedAt[q] <= Len(lines) + 1 /\ seq[q] <= Len(lines)
      BY DEF ChainInv
    <3>3. \A q \in Recorders : failedAt[q] \in Nat /\ seq[q] \in Nat
      BY <1>0
    <3>4. Len(lines) \in Nat /\ Len(lines') \in Nat /\ Len(lines') >= Len(lines)
      BY <1>0, <2>4
    <3> QED  BY ONLY <3>1, <3>2, <3>3, <3>4
  <2>6. epc = "idle"
    BY <1>A, <2>1
  <2>7. /\ tail' \notin {"stale", "glued"} /\ epc' # "written"
    BY <2>1, <2>3, <2>6
  <2>8. \A q \in Recorders : off'[q] <= size' /\ off'[q] # size' /\ pc'[q] \notin {"write", "anchor"}
                              /\ seq'[q] <= Len(lines')
    <3>1. \A q \in Recorders : off[q] <= size /\ seq[q] <= Len(lines)
      BY DEF ChainInv
    <3>2. \A q \in Recorders : off'[q] = off[q] /\ seq'[q] = seq[q] /\ pc'[q] \notin {"write", "anchor"}
      BY <2>2, <2>3
    <3>3. size' \in Int
      BY <1>9, <1>0, ConstantsAssumption DEF ShortWrite, Failed, Torn
    <3> QED  BY <1>0, <2>1, <2>4, <3>1, <3>2, <3>3
  <2> HIDE DEF Verifies
  <2> QED  BY <1>0, <2>4, <2>5, <2>7, <2>8 DEF ChainInv
<1>10. ASSUME NEW p \in Recorders, AnchorWritten(p)  PROVE ChainInv'
  BY <1>10, <1>0, <1>00 DEF ChainInv, AnchorWritten, Succeeded
<1>11. ASSUME NEW p \in Recorders, AnchorRemoved(p)  PROVE ChainInv'
  BY <1>11, <1>0, <1>00 DEF ChainInv, AnchorRemoved, Succeeded
<1>12. ASSUME NEW p \in Recorders, AnchorLeft(p)  PROVE ChainInv'
  BY <1>12, <1>0, <1>00 DEF ChainInv, AnchorLeft, Succeeded
<1>13. ASSUME NEW p \in Recorders, Crash(p)  PROVE ChainInv'
  BY <1>13, <1>0, <1>00 DEF ChainInv, Crash, Die
<1>14. ASSUME NEW p \in Recorders, KilledWriting(p)  PROVE ChainInv'
  <2>1. pc[p] = "write" /\ size' > size /\ tail' \in {"cut", "unterminated"}
    BY <1>14, <1>0, ConstantsAssumption DEF KilledWriting, Die, Torn
  <2>2. \A q \in Recorders : q # p => pc[q] \notin {"write", "anchor"}
    BY <1>00, <2>1
  <2>3. /\ lines' \in {lines, Append(lines, NextLine(p))} /\ UNCHANGED <<handle, epc, newSize>>
        /\ \A q \in Recorders : q # p => pc'[q] = pc[q]
        /\ pc'[p] \notin {"write", "anchor"}
    BY <1>14, <1>0 DEF KilledWriting, Die, Torn
  <2>4. Verifies(lines') /\ Len(lines') >= Len(lines) /\ Len(lines') \in Nat
    <3>1. CASE lines' = lines
      BY <1>0, <3>1 DEF ChainInv
    <3>2. CASE lines' = Append(lines, NextLine(p))
      BY <1>A, <1>0, <2>1, <3>2
    <3> QED  BY <2>3, <3>1, <3>2
  <2>5. \A q \in Recorders : failedAt'[q] <= Len(lines') + 1
    <3>1. \A q \in Recorders : failedAt'[q] = failedAt[q] \/ failedAt'[q] = seq[q] + 1
      BY <1>14, <1>0 DEF KilledWriting, Die, Torn
    <3>2. \A q \in Recorders : failedAt[q] <= Len(lines) + 1 /\ seq[q] <= Len(lines)
      BY DEF ChainInv
    <3>3. \A q \in Recorders : failedAt[q] \in Nat /\ seq[q] \in Nat
      BY <1>0
    <3>4. Len(lines) \in Nat /\ Len(lines') \in Nat /\ Len(lines') >= Len(lines)
      BY <1>0, <2>4
    <3> QED  BY ONLY <3>1, <3>2, <3>3, <3>4
  <2>6. epc = "idle"
    BY <1>A, <2>1
  <2>7. /\ tail' \notin {"stale", "glued"} /\ epc' # "written"
    BY <2>1, <2>3, <2>6
  <2>8. \A q \in Recorders : off'[q] <= size' /\ off'[q] # size' /\ pc'[q] \notin {"write", "anchor"}
                              /\ seq'[q] <= Len(lines')
    <3>1. \A q \in Recorders : off[q] <= size /\ seq[q] <= Len(lines)
      BY DEF ChainInv
    <3>2. \A q \in Recorders : off'[q] = off[q] /\ seq'[q] = seq[q] /\ pc'[q] \notin {"write", "anchor"}
      BY <2>2, <2>3
    <3>3. size' \in Int
      BY <1>14, <1>0, ConstantsAssumption DEF KilledWriting, Die, Torn
    <3> QED  BY <1>0, <2>1, <2>4, <3>1, <3>2, <3>3
  <2> HIDE DEF Verifies
  <2> QED  BY <1>0, <2>4, <2>5, <2>7, <2>8 DEF ChainInv
<1>15. CASE ReadChain
  BY <1>15, <1>0, <1>00 DEF ChainInv, ReadChain
<1>16. CASE ReadAnchor
  BY <1>16, <1>0, <1>00 DEF ChainInv, ReadAnchor
<1>17. CASE EraseLock
  BY <1>17, <1>0, <1>00 DEF ChainInv, EraseLock
<1>18. CASE EraseRefuses
  BY <1>18, <1>0, <1>00 DEF ChainInv, EraseRefuses, EraseDone
<1>19. CASE EraseRewrites
  <2>1. MaxErasures > 0  BY <1>19 DEF MutexInv, EraseRewrites
  <2>2. ErasedSize > size /\ ErasedSize \in Int
    <3>1. Cardinality(Redactable(lines)) \in Nat  BY <1>0, RedactableType
    <3>2. ErasedSize \in Int  BY <1>0, <3>1, ConstantsAssumption DEF ErasedSize
    <3> QED  BY <2>1, <3>2, ErasedGrows
  <2>3. /\ lines' = Erased(lines) /\ size' = ErasedSize /\ newSize' = ErasedSize
        /\ tail = "ok" /\ tail' = "ok" /\ UNCHANGED <<pc, handle, failedAt>>
    BY <1>19, <1>0, <2>2 DEF EraseRewrites, Erasable
  <2>4. Verifies(Erased(lines)) /\ Len(Erased(lines)) = Len(lines) + 1
    BY <1>0, ErasedType, RechainedVerifies DEF Erased
  <2>5. \A q \in Recorders : pc[q] \notin {"write", "anchor"}
    BY <1>19, <1>00, ConstantsAssumption DEF EraseRewrites
  <2> QED  BY <1>0, <2>2, <2>3, <2>4, <2>5 DEF ChainInv
<1>20. CASE EraseTruncates
  <2>1. tail = "ok" /\ newSize = size  BY <1>20 DEF ChainInv, EraseTruncates
  <2> QED  BY <1>20, <2>1 DEF ChainInv, EraseTruncates
<1>21. CASE EraseAnchors
  BY <1>21, <1>0, <1>00 DEF ChainInv, EraseAnchors, EraseDone
<1>22. CASE EraseStops
  BY <1>22, <1>0, <1>00 DEF ChainInv, EraseStops, EraseDone
<1>23. CASE UNCHANGED vars
  BY <1>23 DEF ChainInv, vars
<1> QED
  BY <1>1, <1>2, <1>3, <1>4, <1>5, <1>6, <1>7, <1>8, <1>9, <1>10,
     <1>11, <1>12, <1>13, <1>14, <1>15, <1>16, <1>17, <1>18, <1>19, <1>20,
     <1>21, <1>22, <1>23
  DEF Next, Step, EraseStep

\* Where redaction never shortens a line, the lines of the file are always a
\* chain Verify accepts and nothing is ever appended behind damage.
THEOREM ChainHolds ==
  SizeOnlyGrows => (Spec => [](ChainVerifies /\ NothingAfterDamage))
<1> SUFFICES ASSUME SizeOnlyGrows PROVE Spec => [](ChainVerifies /\ NothingAfterDamage)
  OBVIOUS
<1> DEFINE Inv == TypeOK /\ MutexInv /\ ChainInv
<1>1. Init => Inv
  BY TypeInit, MutexInit, ChainInit
<1>2. Inv /\ [Next]_vars => Inv'
  BY TypeNext, MutexNext, ChainNext
<1>3. Inv => ChainVerifies /\ NothingAfterDamage
  BY DEF ChainInv, ChainVerifies, NothingAfterDamage
<1> QED  BY <1>1, <1>2, <1>3, PTL DEF Spec

---------------------------------------------------------------------------
\* The anchor counts a prefix of the chain and names its head.
LEMMA AnchorInit == Init => AnchorInv
  BY DEF Init, AnchorInv, NoAnchor

\* appendLocked and Erase write the anchor after the lines, under one flock, so at
\* most one event separates them unless an append was interrupted.
LEMMA AnchorNext ==
  TypeOK /\ MutexInv /\ ChainInv /\ AnchorInv /\ [Next]_vars => AnchorInv'
<1> SUFFICES ASSUME TypeOK, MutexInv, ChainInv, AnchorInv, [Next]_vars PROVE AnchorInv'
  OBVIOUS
<1> USE DEF file, handle, latch, eraser, reader, history
<1>0. /\ pc \in [Recorders -> Places] /\ lock \in Recorders \cup {Eraser, Nobody}
      /\ lines \in Seq(Line) /\ Len(lines) \in Nat /\ unanchored \in Nat
      /\ anchor.seq \in Nat
  BY DEF TypeOK, TypeHandle, TypeFile, TypeOthers
<1>00. /\ \A p \in Recorders : lock = p <=> pc[p] \in {"catchup", "write", "anchor"}
       /\ lock = Eraser <=> epc # "idle"
  BY DEF MutexInv
<1>A. ASSUME NEW line \in Line, lines' = Append(lines, line), unanchored' = unanchored + 1,
             UNCHANGED <<anchor, rewritten, epc>>
      PROVE  AnchorInv'
  <2>1. /\ Len(lines') = Len(lines) + 1 /\ lines' # <<>>
        /\ \A i \in 1..Len(lines) : lines'[i] = lines[i]
    BY <1>A, <1>0
  <2>2. ASSUME anchor.present, ~rewritten
        PROVE  /\ anchor.seq > 0 /\ anchor.seq + (unanchored + 1) = Len(lines')
               /\ anchor.hash = Digest(lines'[anchor.seq])
    <3>1. /\ anchor.seq > 0 /\ anchor.seq + unanchored = Len(lines)
          /\ anchor.hash = Digest(lines[anchor.seq])
      BY <2>2 DEF AnchorInv
    <3>2. anchor.seq \in 1..Len(lines)
      BY SMTT(30), <3>1, <1>0
    <3>3. lines'[anchor.seq] = lines[anchor.seq]
      BY <3>2, <2>1
    <3>4. anchor.hash = Digest(lines'[anchor.seq])
      BY <3>1, <3>3
    <3>5. anchor.seq + (unanchored + 1) = Len(lines')
      <4>1. /\ anchor.seq + unanchored = Len(lines) /\ Len(lines') = Len(lines) + 1
            /\ anchor.seq \in Nat /\ unanchored \in Nat /\ Len(lines) \in Nat
        BY <3>1, <2>1, <1>0
      <4> QED  BY ONLY <4>1
    <3> QED  BY <3>1, <3>4, <3>5
  <2> QED  BY <1>A, <2>1, <2>2 DEF AnchorInv
<1>B. ASSUME NEW p \in Recorders, pc[p] = "write"
      PROVE  NextLine(p) \in Line /\ tail = "ok"
  BY <1>B, NextLineType DEF TypeOK, TypeHandle, Busy, ChainInv
<1>C. ASSUME NEW p \in Recorders, pc[p] = "anchor"
      PROVE  /\ seq[p] = Len(lines) /\ seq[p] > 0 /\ prev[p] = Digest(lines[seq[p]])
             /\ epc = "idle"
  <2>1. seq[p] = Len(lines) /\ seq[p] > 0 /\ prev[p] = HeadOf(lines)
    BY <1>C DEF ChainInv
  <2>2. lines # <<>>  BY <2>1, <1>0
  <2>3. epc = "idle"  BY <1>C, <1>00, ConstantsAssumption
  <2> QED  BY <2>1, <2>2, <2>3 DEF HeadOf
<1>1. ASSUME NEW p \in Recorders, Open(p)  PROVE AnchorInv'
  BY <1>1, <1>0 DEF AnchorInv, Open
<1>2. ASSUME NEW p \in Recorders, NEW b \in {DataBody(p), EndBody(p)}, BeginAppend(p, b)
      PROVE  AnchorInv'
  BY <1>2, <1>0 DEF AnchorInv, BeginAppend
<1>3. ASSUME NEW p \in Recorders, EndBroken(p)  PROVE AnchorInv'
  BY <1>3, <1>0 DEF AnchorInv, EndBroken
<1>4. ASSUME NEW p \in Recorders, Lock(p)  PROVE AnchorInv'
  BY <1>4, <1>0 DEF AnchorInv, Lock
<1>5. ASSUME NEW p \in Recorders, CatchUp(p)  PROVE AnchorInv'
  BY <1>5, <1>0 DEF AnchorInv, CatchUp
<1>6. ASSUME NEW p \in Recorders, CatchUpRefuses(p)  PROVE AnchorInv'
  BY <1>6, <1>0 DEF AnchorInv, CatchUpRefuses, Failed
<1>7. ASSUME NEW p \in Recorders, Write(p)  PROVE AnchorInv'
  BY <1>7, <1>A, <1>B DEF Write, Extend
<1>8. ASSUME NEW p \in Recorders, LineRefused(p)  PROVE AnchorInv'
  BY <1>8, <1>0 DEF AnchorInv, LineRefused, Failed
<1>9. ASSUME NEW p \in Recorders, ShortWrite(p)  PROVE AnchorInv'
  <2>1. CASE tail' = "cut"
    BY <1>9, <2>1 DEF AnchorInv, ShortWrite, Failed, Torn
  <2>2. CASE tail' = "unterminated"
    BY <1>9, <2>2, <1>A, <1>B DEF ShortWrite, Failed, Torn
  <2> QED  BY <1>9, <2>1, <2>2 DEF ShortWrite, Failed, Torn
<1>10. ASSUME NEW p \in Recorders, AnchorWritten(p)  PROVE AnchorInv'
  <2>1. pc[p] = "anchor" /\ anchor' = AnchorAt(seq[p], prev[p]) /\ unanchored' = 0
        /\ UNCHANGED <<lines, epc>>
    BY <1>10 DEF AnchorWritten
  <2> QED  BY <1>0, <1>C, <2>1 DEF AnchorInv, AnchorAt
<1>11. ASSUME NEW p \in Recorders, AnchorRemoved(p)  PROVE AnchorInv'
  <2>1. pc[p] = "anchor" /\ anchor' = NoAnchor /\ UNCHANGED <<lines, epc>>
    BY <1>11 DEF AnchorRemoved
  <2> QED  BY <1>C, <2>1 DEF AnchorInv, NoAnchor
<1>12. ASSUME NEW p \in Recorders, AnchorLeft(p)  PROVE AnchorInv'
  BY <1>12, <1>0 DEF AnchorInv, AnchorLeft, Succeeded
<1>13. ASSUME NEW p \in Recorders, Crash(p)  PROVE AnchorInv'
  BY <1>13, <1>0 DEF AnchorInv, Crash, Die
<1>14. ASSUME NEW p \in Recorders, KilledWriting(p)  PROVE AnchorInv'
  <2>1. CASE tail' = "cut"
    BY <1>14, <2>1 DEF AnchorInv, KilledWriting, Die, Torn
  <2>2. CASE tail' = "unterminated"
    BY <1>14, <2>2, <1>A, <1>B DEF KilledWriting, Die, Torn
  <2> QED  BY <1>14, <2>1, <2>2 DEF KilledWriting, Die, Torn
<1>15. CASE ReadChain
  BY <1>15, <1>0 DEF AnchorInv, ReadChain
<1>16. CASE ReadAnchor
  BY <1>16, <1>0 DEF AnchorInv, ReadAnchor
<1>17. CASE EraseLock
  BY <1>17, <1>0 DEF AnchorInv, EraseLock
<1>18. CASE EraseRefuses
  BY <1>18, <1>0 DEF AnchorInv, EraseRefuses, EraseDone
<1>19. CASE EraseRewrites
  <2>1. rewritten' /\ epc' = "written"
    BY <1>19 DEF EraseRewrites
  <2>2. lines' # <<>>
    <3>1. Erased(lines) \in Seq(Line) /\ Len(Erased(lines)) = Len(lines) + 1
      BY <1>0, ErasedLines
    <3> QED  BY <1>19, <3>1, <1>0 DEF EraseRewrites
  <2> QED  BY <2>1, <2>2 DEF AnchorInv
<1>20. CASE EraseTruncates
  <2>1. ~anchor.present \/ rewritten \/ UNCHANGED <<anchor, unanchored, lines>>
    BY <1>20 DEF EraseTruncates
  <2>2. lines # <<>>
    BY <1>20 DEF AnchorInv, EraseTruncates
  <2> QED  BY <1>20, <2>1, <2>2 DEF AnchorInv, EraseTruncates
<1>21. CASE EraseAnchors
  <2>1. lines # <<>> /\ UNCHANGED lines /\ unanchored' = 0 /\ epc' = "idle"
    BY <1>21 DEF AnchorInv, EraseAnchors, EraseDone
  <2>2. CASE anchor' = NoAnchor
    BY <2>1, <2>2 DEF AnchorInv, NoAnchor
  <2>3. CASE anchor' = AnchorAt(Len(lines), HeadOf(lines))
    <3>1. Len(lines) > 0 /\ HeadOf(lines) = Digest(lines[Len(lines)])
      BY <1>0, <2>1 DEF HeadOf
    <3> QED  BY <1>0, <2>1, <2>3, <3>1 DEF AnchorInv, AnchorAt
  <2> QED  BY <1>21, <2>2, <2>3 DEF EraseAnchors
<1>22. CASE EraseStops
  BY <1>22, <1>0 DEF AnchorInv, EraseStops, EraseDone
<1>23. CASE UNCHANGED vars
  BY <1>23 DEF AnchorInv, vars
<1> QED
  BY <1>1, <1>2, <1>3, <1>4, <1>5, <1>6, <1>7, <1>8, <1>9, <1>10,
     <1>11, <1>12, <1>13, <1>14, <1>15, <1>16, <1>17, <1>18, <1>19, <1>20,
     <1>21, <1>22, <1>23
  DEF Next, Step, EraseStep

\* What the anchor says of a chain it is at most one event behind is never a
\* mismatch.
LEMMA HonestAnchor ==
  ASSUME TypeOK, ChainInv, AnchorInv, ~rewritten, unanchored < 2
  PROVE  AnchorState(anchor, lines) # "mismatch"
<1> SUFFICES ASSUME anchor.present PROVE AnchorState(anchor, lines) # "mismatch"
  BY DEF AnchorState
<1>1. /\ anchor.seq > 0 /\ anchor.seq + unanchored = Len(lines)
      /\ anchor.hash = Digest(lines[anchor.seq])
  BY DEF AnchorInv
<1>2. /\ lines \in Seq(Line) /\ Len(lines) \in Nat /\ DOMAIN lines = 1..Len(lines)
      /\ unanchored \in Nat /\ anchor.seq \in Nat
  BY DEF TypeOK, TypeFile, TypeOthers
<1>3. lines # <<>>
  BY <1>1, <1>2
<1>4. CASE unanchored = 0
  <2>1. anchor.seq = Len(lines) /\ anchor.hash = HeadOf(lines)
    BY <1>1, <1>2, <1>3, <1>4 DEF HeadOf
  <2> QED  BY <2>1 DEF AnchorState
<1>5. CASE unanchored = 1
  <2>1. anchor.seq = Len(lines) - 1 /\ Len(lines) # 1 /\ Len(lines) \in DOMAIN lines
    BY <1>1, <1>2, <1>5
  <2>2. lines[Len(lines)].prev = Digest(lines[Len(lines) - 1])
    BY <2>1 DEF ChainInv, Verifies
  <2>3. PrevOfHead(lines) = Digest(lines[Len(lines) - 1])
    BY <1>3, <2>2 DEF PrevOfHead
  <2>4. PrevOfHead(lines) # <<>>
    <3>1. lines[Len(lines) - 1] \in Line
      BY <1>1, <1>2, <2>1
    <3> DEFINE line == lines[Len(lines) - 1]
    <3>2. line.prev \in Seq([seq : Nat, body : Body])
          /\ [seq |-> line.seq, body |-> line.body] \in [seq : Nat, body : Body]
      BY <3>1 DEF Line, Hash
    <3> HIDE DEF line
    <3>3. Digest(line) # <<>>
      BY SMTT(30), <3>2 DEF Digest
    <3> QED  BY <2>3, <3>3 DEF line
  <2> QED  BY <1>1, <2>1, <2>3, <2>4 DEF AnchorState
<1> QED  BY <1>2, <1>4, <1>5

\* Where redaction never shortens a line: between operations the pair only reads
\* as a rewrite after two interrupted appends in a row or an interrupted
\* erasure, and no reader, whenever it comes, sees one otherwise.
THEOREM AnchorHolds ==
  SizeOnlyGrows => (Spec => []NoFalseTamper /\ HonestVerdict)
<1> SUFFICES ASSUME SizeOnlyGrows PROVE Spec => []NoFalseTamper /\ HonestVerdict
  OBVIOUS
<1> DEFINE Inv == TypeOK /\ MutexInv /\ ChainInv /\ AnchorInv
<1>1. Init => Inv
  BY TypeInit, MutexInit, ChainInit, AnchorInit
<1>2. Inv /\ [Next]_vars => Inv'
  BY TypeNext, MutexNext, ChainNext, AnchorNext
<1>3. Inv => NoFalseTamper
  <2>1. TypeOK => unanchored \in Nat  BY DEF TypeOK, TypeOthers
  <2> QED  BY <2>1, HonestAnchor DEF NoFalseTamper
<1>4. Inv /\ [Next]_vars =>
        [reading /\ ~reading' =>
           /\ verdict' = "broken" => ~Readable
           /\ verdict' = "mismatch" => unanchored >= 2 \/ rewritten]_vars
  <2> SUFFICES ASSUME Inv, [Next]_vars, reading, ~reading'
               PROVE  /\ verdict' = "broken" => ~Readable
                      /\ verdict' = "mismatch" => unanchored >= 2 \/ rewritten
    OBVIOUS
  <2>1. ReadAnchor
    <3> USE DEF file, handle, latch, eraser, reader, history
    <3>1. ASSUME NEW p \in Recorders, Step(p) \/ Crash(p) \/ KilledWriting(p)
          PROVE  UNCHANGED reading
      BY <3>1 DEF Step, CatchUp, CatchUpRefuses, Write, LineRefused, ShortWrite,
         AnchorWritten, AnchorRemoved, AnchorLeft, Crash, KilledWriting
    <3>2. ASSUME NEW p \in Recorders,
                 \/ Open(p) \/ BeginAppend(p, DataBody(p)) \/ BeginAppend(p, EndBody(p))
                 \/ EndBroken(p) \/ Lock(p)
          PROVE  UNCHANGED reading
      BY <3>2 DEF Open, BeginAppend, EndBroken, Lock
    <3>3. ASSUME EraseLock \/ EraseStep PROVE UNCHANGED reading
      BY <3>3 DEF EraseLock, EraseStep, EraseRefuses, EraseRewrites, EraseTruncates,
         EraseAnchors, EraseStops
    <3>4. CASE ReadChain  BY <3>4 DEF ReadChain
    <3>5. CASE UNCHANGED vars  BY <3>5 DEF vars
    <3> QED  BY <3>1, <3>2, <3>3, <3>4, <3>5 DEF Next
  <2>2. verdict' = Verdict([lines |-> lines, readable |-> Readable], anchor)
    BY <2>1 DEF ReadAnchor, MutexInv
  <2>3. verdict' = "broken" => ~Readable
    BY <2>2 DEF Verdict, AnchorState, ChainInv
  <2>4. verdict' = "mismatch" => AnchorState(anchor, lines) = "mismatch"
    BY <2>2 DEF Verdict
  <2>5. unanchored \in Nat  BY DEF TypeOK, TypeOthers
  <2> QED  BY <2>3, <2>4, <2>5, HonestAnchor
<1> QED  BY <1>1, <1>2, <1>3, <1>4, PTL DEF Spec, HonestVerdict

---------------------------------------------------------------------------
\* No epitaph names an event later than itself.
\* failLocked names the seq the lost event would have had before the epitaph takes
\* the next free one.
LEMMA EpitaphNext ==
  ASSUME SizeOnlyGrows
  PROVE  TypeOK /\ MutexInv /\ EventInv /\ ChainInv /\ EpitaphNotAhead /\ [Next]_vars
           => EpitaphNotAhead'
<1> SUFFICES ASSUME TypeOK, MutexInv, EventInv, ChainInv, EpitaphNotAhead, [Next]_vars
             PROVE  EpitaphNotAhead'
  OBVIOUS
<1> USE DEF file, handle, latch, eraser, reader, history
<1>0. lines \in Seq(Line) /\ Len(lines) \in Nat /\ DOMAIN lines = 1..Len(lines)
  BY DEF TypeOK, TypeFile
<1>A. ASSUME NEW p \in Recorders, pc[p] = "write", lines' = Append(lines, NextLine(p))
      PROVE  EpitaphNotAhead'
  <2>1. NextLine(p) \in Line
    BY <1>A, NextLineType DEF TypeOK, TypeHandle, Busy
  <2>2. /\ DOMAIN lines' = 1..(Len(lines) + 1) /\ lines'[Len(lines) + 1] = NextLine(p)
        /\ \A i \in 1..Len(lines) : lines'[i] = lines[i]
    BY <1>A, <1>0, <2>1
  <2>3. NextLine(p).body.type = "epitaph" => NextLine(p).body.at <= Len(lines) + 1
    <3>1. pending[p] \in IF p \in failure THEN {Epitaph(p, failedAt[p])}
                                          ELSE {DataBody(p), EndBody(p)}
      BY <1>A DEF EventInv, Busy
    <3>2. failedAt[p] <= Len(lines) + 1
      BY DEF ChainInv
    <3> QED  BY <3>1, <3>2 DEF NextLine, Epitaph, DataBody, EndBody
  <2> QED  BY <1>0, <2>2, <2>3 DEF EpitaphNotAhead
<1>1. ASSUME NEW p \in Recorders, Open(p)  PROVE EpitaphNotAhead'
  BY <1>1 DEF EpitaphNotAhead, Open
<1>2. ASSUME NEW p \in Recorders, NEW b \in {DataBody(p), EndBody(p)}, BeginAppend(p, b)
      PROVE  EpitaphNotAhead'
  BY <1>2 DEF EpitaphNotAhead, BeginAppend
<1>3. ASSUME NEW p \in Recorders, EndBroken(p)  PROVE EpitaphNotAhead'
  BY <1>3 DEF EpitaphNotAhead, EndBroken
<1>4. ASSUME NEW p \in Recorders, Lock(p)  PROVE EpitaphNotAhead'
  BY <1>4 DEF EpitaphNotAhead, Lock
<1>5. ASSUME NEW p \in Recorders, CatchUp(p)  PROVE EpitaphNotAhead'
  BY <1>5 DEF EpitaphNotAhead, CatchUp
<1>6. ASSUME NEW p \in Recorders, CatchUpRefuses(p)  PROVE EpitaphNotAhead'
  BY <1>6 DEF EpitaphNotAhead, CatchUpRefuses, Failed
<1>7. ASSUME NEW p \in Recorders, Write(p)  PROVE EpitaphNotAhead'
  <2>1. CASE tail = "ok"
    BY <1>7, <2>1, <1>A DEF Write, Extend
  <2>2. CASE tail # "ok"
    BY <1>7, <2>2 DEF Write, Extend, EpitaphNotAhead
  <2> QED  BY <2>1, <2>2
<1>8. ASSUME NEW p \in Recorders, LineRefused(p)  PROVE EpitaphNotAhead'
  BY <1>8 DEF EpitaphNotAhead, LineRefused, Failed
<1>9. ASSUME NEW p \in Recorders, ShortWrite(p)  PROVE EpitaphNotAhead'
  <2>1. pc[p] = "write" /\ (UNCHANGED lines \/ lines' = Append(lines, NextLine(p)))
    BY <1>9 DEF ShortWrite, Failed, Torn
  <2> QED  BY <1>A, <2>1 DEF EpitaphNotAhead
<1>10. ASSUME NEW p \in Recorders, AnchorWritten(p)  PROVE EpitaphNotAhead'
  BY <1>10 DEF EpitaphNotAhead, AnchorWritten, Succeeded
<1>11. ASSUME NEW p \in Recorders, AnchorRemoved(p)  PROVE EpitaphNotAhead'
  BY <1>11 DEF EpitaphNotAhead, AnchorRemoved, Succeeded
<1>12. ASSUME NEW p \in Recorders, AnchorLeft(p)  PROVE EpitaphNotAhead'
  BY <1>12 DEF EpitaphNotAhead, AnchorLeft, Succeeded
<1>13. ASSUME NEW p \in Recorders, Crash(p)  PROVE EpitaphNotAhead'
  BY <1>13 DEF EpitaphNotAhead, Crash, Die
<1>14. ASSUME NEW p \in Recorders, KilledWriting(p)  PROVE EpitaphNotAhead'
  <2>1. pc[p] = "write" /\ (UNCHANGED lines \/ lines' = Append(lines, NextLine(p)))
    BY <1>14 DEF KilledWriting, Die, Torn
  <2> QED  BY <1>A, <2>1 DEF EpitaphNotAhead
<1>15. CASE ReadChain
  BY <1>15 DEF EpitaphNotAhead, ReadChain
<1>16. CASE ReadAnchor
  BY <1>16 DEF EpitaphNotAhead, ReadAnchor
<1>17. CASE EraseLock
  BY <1>17 DEF EpitaphNotAhead, EraseLock
<1>18. CASE EraseRefuses
  BY <1>18 DEF EpitaphNotAhead, EraseRefuses, EraseDone
<1>19. CASE EraseRewrites
  <2>1. /\ Erased(lines) \in Seq(Line) /\ Len(Erased(lines)) = Len(lines) + 1
        /\ \A i \in 1..Len(lines) : Erased(lines)[i].body = Redacted(lines[i].body)
        /\ Erased(lines)[Len(lines) + 1].body = ErasureBody
    BY <1>0, ErasedLines
  <2>2. \A i \in 1..Len(lines) : lines[i].body \in Body
    <3>1. \A i \in 1..Len(lines) : lines[i] \in Line  BY <1>0
    <3> QED  BY <3>1 DEF Line
  <2>3. \A i \in 1..Len(lines) : /\ Erased(lines)[i].body.type = lines[i].body.type
                                 /\ Erased(lines)[i].body.at = lines[i].body.at
    BY <2>1, <2>2 DEF Redacted, Body
  <2>4. Erased(lines)[Len(lines) + 1].body.type # "epitaph"
    BY <2>1 DEF ErasureBody
  <2>5. lines' = Erased(lines)  BY <1>19 DEF EraseRewrites
  <2>6. DOMAIN Erased(lines) = 1..(Len(lines) + 1)
    BY <2>1, <1>0
  <2> QED  BY <1>0, <2>3, <2>4, <2>5, <2>6 DEF EpitaphNotAhead
<1>20. CASE EraseTruncates
  BY <1>20 DEF EpitaphNotAhead, EraseTruncates
<1>21. CASE EraseAnchors
  BY <1>21 DEF EpitaphNotAhead, EraseAnchors, EraseDone
<1>22. CASE EraseStops
  BY <1>22 DEF EpitaphNotAhead, EraseStops, EraseDone
<1>23. CASE UNCHANGED vars
  BY <1>23 DEF EpitaphNotAhead, vars
<1> QED
  BY <1>1, <1>2, <1>3, <1>4, <1>5, <1>6, <1>7, <1>8, <1>9, <1>10,
     <1>11, <1>12, <1>13, <1>14, <1>15, <1>16, <1>17, <1>18, <1>19, <1>20,
     <1>21, <1>22, <1>23
  DEF Next, Step, EraseStep

\* Where redaction never shortens a line, the event an epitaph calls lost is not
\* on the chain before it.
THEOREM EpitaphHolds == SizeOnlyGrows => (Spec => []EpitaphNotAhead)
<1> SUFFICES ASSUME SizeOnlyGrows PROVE Spec => []EpitaphNotAhead
  OBVIOUS
<1> DEFINE Inv == TypeOK /\ MutexInv /\ EventInv /\ ChainInv /\ EpitaphNotAhead
<1>1. Init => Inv
  <2>1. Init => EpitaphNotAhead  BY DEF Init, EpitaphNotAhead
  <2> QED  BY <2>1, TypeInit, MutexInit, EventInit, ChainInit
<1>2. Inv /\ [Next]_vars => Inv'
  BY TypeNext, MutexNext, EventNext, ChainNext, EpitaphNext
<1> QED  BY <1>1, <1>2, PTL DEF Spec

---------------------------------------------------------------------------
\* No event is answered before there is one.
LEMMA AckInit == Init => AckInv
<1> SUFFICES ASSUME Init PROVE AckInv
  OBVIOUS
<1>1. \A p \in Recorders : LinesOf(p) = {}
  BY DEF Init, LinesOf
<1>2. Cardinality({}) = 0
  BY FS_EmptySet
<1>3. \A p \in Recorders : Cardinality(LinesOf(p)) = 0 /\ acked[p] = 0 /\ pc[p] = "closed"
  BY <1>1, <1>2 DEF Init
<1> QED  BY <1>3 DEF AckInv

\* Append answers nil after its line is on the file and in no other case, and neither
\* the other writers nor an erasure take a line away.
LEMMA AckNext ==
  ASSUME SizeOnlyGrows
  PROVE  TypeOK /\ EventInv /\ ChainInv /\ AckInv /\ [Next]_vars => AckInv'
<1> SUFFICES ASSUME TypeOK, EventInv, ChainInv, AckInv, [Next]_vars PROVE AckInv'
  OBVIOUS
<1> USE DEF file, handle, latch, eraser, reader, history
<1>0. /\ lines \in Seq(Line) /\ Len(lines) \in Nat /\ DOMAIN lines = 1..Len(lines)
      /\ pc \in [Recorders -> Places] /\ failure \subseteq Recorders
      /\ acked \in [Recorders -> Nat]
      /\ \A q \in Recorders : IsFiniteSet(LinesOf(q)) /\ Cardinality(LinesOf(q)) \in Nat
  <2>1. /\ lines \in Seq(Line) /\ Len(lines) \in Nat /\ DOMAIN lines = 1..Len(lines)
    BY DEF TypeOK, TypeFile
  <2>2. \A q \in Recorders : LinesOf(q) \subseteq 1..Len(lines)
    BY <2>1 DEF LinesOf
  <2>3. IsFiniteSet(1..Len(lines))
    BY <2>1, FS_Interval
  <2>4. \A q \in Recorders : IsFiniteSet(LinesOf(q)) /\ Cardinality(LinesOf(q)) \in Nat
    BY <2>2, <2>3, FS_Subset, FS_CardinalityType
  <2> QED  BY <2>1, <2>4 DEF TypeOK, TypeHandle, TypeLatch, TypeOthers
<1>C. UNCHANGED lines => \A q \in Recorders : LinesOf(q)' = LinesOf(q)
  BY DEF LinesOf
<1>A. ASSUME NEW p \in Recorders, pc[p] = "write", lines' = Append(lines, NextLine(p))
      PROVE  /\ \A q \in Recorders : q # p \/ p \in failure => LinesOf(q)' = LinesOf(q)
             /\ p \notin failure
                  => Cardinality(LinesOf(p)') = Cardinality(LinesOf(p)) + 1
  <2>1. NextLine(p) \in Line
    BY <1>A, NextLineType DEF TypeOK, TypeHandle, Busy
  <2>2. /\ DOMAIN lines' = 1..(Len(lines) + 1) /\ lines'[Len(lines) + 1] = NextLine(p)
        /\ \A i \in 1..Len(lines) : lines'[i] = lines[i]
    BY <1>A, <1>0, <2>1
  <2>3. /\ NextLine(p).body.by = p
        /\ NextLine(p).body.type = "epitaph" <=> p \in failure
    <3>1. pending[p] \in IF p \in failure THEN {Epitaph(p, failedAt[p])}
                                          ELSE {DataBody(p), EndBody(p)}
      BY <1>A DEF EventInv, Busy
    <3>2. CASE p \in failure
      BY <3>1, <3>2 DEF NextLine, Epitaph
    <3>3. CASE p \notin failure
      BY <3>1, <3>3 DEF NextLine, DataBody, EndBody
    <3> QED  BY <3>2, <3>3
  <2>4. \A q \in Recorders : q # p \/ p \in failure => LinesOf(q)' = LinesOf(q)
    BY <1>0, <2>2, <2>3 DEF LinesOf
  <2>5. ASSUME p \notin failure
        PROVE  Cardinality(LinesOf(p)') = Cardinality(LinesOf(p)) + 1
    <3>1. LinesOf(p)' = LinesOf(p) \cup {Len(lines) + 1} /\ Len(lines) + 1 \notin LinesOf(p)
      BY <1>0, <2>2, <2>3, <2>5 DEF LinesOf
    <3> QED  BY <1>0, <3>1, FS_AddElement
  <2> QED  BY <2>4, <2>5
\* A line more of one handle, which is then at its anchor, or failed or dead.
<1>B. ASSUME NEW p \in Recorders, pc[p] = "write", lines' = Append(lines, NextLine(p)),
             pc'[p] = "anchor" \/ p \in failure' \/ pc'[p] = "dead", UNCHANGED acked,
             failure \subseteq failure', failure' \subseteq failure \cup {p},
             \A q \in Recorders \ {p} : pc'[q] = pc[q]
      PROVE  AckInv'
  <2>1. ASSUME NEW q \in Recorders, q # p
        PROVE  /\ Cardinality(LinesOf(q)') \in {acked'[q], acked'[q] + 1}
               /\ q \notin failure' /\ pc'[q] \notin {"anchor", "dead"}
                    => Cardinality(LinesOf(q)') = acked'[q]
               /\ q \notin failure' /\ pc'[q] = "anchor"
                    => Cardinality(LinesOf(q)') = acked'[q] + 1
    <3>1. LinesOf(q)' = LinesOf(q)  BY <1>A, <1>B, <2>1
    <3> QED  BY <1>B, <2>1, <3>1 DEF AckInv
  <2>2. /\ Cardinality(LinesOf(p)') \in {acked[p], acked[p] + 1}
        /\ p \notin failure => Cardinality(LinesOf(p)') = acked[p] + 1
    <3>1. CASE p \in failure
      <4>1. LinesOf(p)' = LinesOf(p)  BY <1>A, <1>B, <3>1
      <4> QED  BY <3>1, <4>1 DEF AckInv
    <3>2. CASE p \notin failure
      <4>1. Cardinality(LinesOf(p)') = Cardinality(LinesOf(p)) + 1  BY <1>A, <1>B, <3>2
      <4>2. Cardinality(LinesOf(p)) = acked[p]  BY <1>B, <3>2 DEF AckInv
      <4> QED  BY <4>1, <4>2
    <3> QED  BY <3>1, <3>2
  <2>3. /\ Cardinality(LinesOf(p)') \in {acked'[p], acked'[p] + 1}
        /\ p \notin failure' /\ pc'[p] \notin {"anchor", "dead"}
             => Cardinality(LinesOf(p)') = acked'[p]
        /\ p \notin failure' /\ pc'[p] = "anchor"
             => Cardinality(LinesOf(p)') = acked'[p] + 1
    BY <1>B, <2>2
  <2> QED  BY <2>1, <2>3 DEF AckInv
\* The same when the line was cut short and is none.
<1>D. ASSUME NEW p \in Recorders, pc[p] = "write", UNCHANGED lines,
             p \in failure' \/ pc'[p] = "dead", pc'[p] # "anchor", UNCHANGED acked,
             failure \subseteq failure', failure' \subseteq failure \cup {p},
             \A q \in Recorders \ {p} : pc'[q] = pc[q]
      PROVE  AckInv'
  BY <1>C, <1>D DEF AckInv
<1>1. ASSUME NEW p \in Recorders, Open(p)  PROVE AckInv'
  BY <1>1, <1>0, <1>C DEF AckInv, Open
<1>2. ASSUME NEW p \in Recorders, NEW b \in {DataBody(p), EndBody(p)}, BeginAppend(p, b)
      PROVE  AckInv'
  BY <1>2, <1>0, <1>C DEF AckInv, BeginAppend
<1>3. ASSUME NEW p \in Recorders, EndBroken(p)  PROVE AckInv'
  BY <1>3, <1>0, <1>C DEF AckInv, EndBroken
<1>4. ASSUME NEW p \in Recorders, Lock(p)  PROVE AckInv'
  BY <1>4, <1>0, <1>C DEF AckInv, Lock
<1>5. ASSUME NEW p \in Recorders, CatchUp(p)  PROVE AckInv'
  BY <1>5, <1>0, <1>C DEF AckInv, CatchUp
<1>6. ASSUME NEW p \in Recorders, CatchUpRefuses(p)  PROVE AckInv'
  BY <1>6, <1>0, <1>C DEF AckInv, CatchUpRefuses, Failed
<1>7. ASSUME NEW p \in Recorders, Write(p)  PROVE AckInv'
  <2>1. lines' = Append(lines, NextLine(p))
    BY <1>7 DEF Write, Extend, ChainInv
  <2> QED  BY <1>7, <2>1, <1>0, <1>B DEF Write
<1>8. ASSUME NEW p \in Recorders, LineRefused(p)  PROVE AckInv'
  BY <1>8, <1>0, <1>C DEF AckInv, LineRefused, Failed
<1>9. ASSUME NEW p \in Recorders, ShortWrite(p)  PROVE AckInv'
  <2>1. pc[p] = "write" /\ (UNCHANGED lines \/ lines' = Append(lines, NextLine(p)))
    BY <1>9 DEF ShortWrite, Torn
  <2>2. /\ p \in failure' /\ pc'[p] # "anchor" /\ UNCHANGED acked
        /\ failure \subseteq failure' /\ failure' \subseteq failure \cup {p}
        /\ \A q \in Recorders \ {p} : pc'[q] = pc[q]
    BY <1>9, <1>0 DEF ShortWrite, Failed
  <2> QED  BY <2>1, <2>2, <1>B, <1>D
<1>10. ASSUME NEW p \in Recorders, AnchorWritten(p)  PROVE AckInv'
  BY <1>10, <1>0, <1>C DEF AckInv, AnchorWritten, Succeeded
<1>11. ASSUME NEW p \in Recorders, AnchorRemoved(p)  PROVE AckInv'
  BY <1>11, <1>0, <1>C DEF AckInv, AnchorRemoved, Succeeded
<1>12. ASSUME NEW p \in Recorders, AnchorLeft(p)  PROVE AckInv'
  BY <1>12, <1>0, <1>C DEF AckInv, AnchorLeft, Succeeded
<1>13. ASSUME NEW p \in Recorders, Crash(p)  PROVE AckInv'
  BY <1>13, <1>0, <1>C DEF AckInv, Crash, Die
<1>14. ASSUME NEW p \in Recorders, KilledWriting(p)  PROVE AckInv'
  <2>1. pc[p] = "write" /\ (UNCHANGED lines \/ lines' = Append(lines, NextLine(p)))
    BY <1>14 DEF KilledWriting, Torn
  <2>2. /\ pc'[p] = "dead" /\ UNCHANGED acked
        /\ UNCHANGED failure /\ \A q \in Recorders \ {p} : pc'[q] = pc[q]
    BY <1>14, <1>0 DEF KilledWriting, Die
  <2> QED  BY <2>1, <2>2, <1>B, <1>D
<1>15. CASE ReadChain
  BY <1>15, <1>0, <1>C DEF AckInv, ReadChain
<1>16. CASE ReadAnchor
  BY <1>16, <1>0, <1>C DEF AckInv, ReadAnchor
<1>17. CASE EraseLock
  BY <1>17, <1>0, <1>C DEF AckInv, EraseLock
<1>18. CASE EraseRefuses
  BY <1>18, <1>0, <1>C DEF AckInv, EraseRefuses, EraseDone
<1>19. CASE EraseRewrites
  <2>1. \A q \in Recorders : LinesOf(q)' = LinesOf(q)
    <3>1. /\ Erased(lines) \in Seq(Line) /\ Len(Erased(lines)) = Len(lines) + 1
          /\ \A i \in 1..Len(lines) : Erased(lines)[i].body = Redacted(lines[i].body)
          /\ Erased(lines)[Len(lines) + 1].body = ErasureBody
      BY <1>0, ErasedLines
    <3>2. \A i \in 1..Len(lines) : lines[i].body \in Body
      <4>1. \A i \in 1..Len(lines) : lines[i] \in Line  BY <1>0
      <4> QED  BY <4>1 DEF Line
    <3>3. \A i \in 1..Len(lines) : /\ Erased(lines)[i].body.type = lines[i].body.type
                                   /\ Erased(lines)[i].body.by = lines[i].body.by
      BY <3>1, <3>2 DEF Redacted, Body
    <3>4. Erased(lines)[Len(lines) + 1].body.by \notin Recorders
      BY <3>1, ConstantsAssumption DEF ErasureBody
    <3>5. lines' = Erased(lines) /\ DOMAIN Erased(lines) = 1..(Len(lines) + 1)
      BY <1>19, <3>1, <1>0 DEF EraseRewrites
    <3> QED  BY <1>0, <3>3, <3>4, <3>5 DEF LinesOf
  <2> QED  BY <1>19, <2>1, <1>0 DEF AckInv, EraseRewrites
<1>20. CASE EraseTruncates
  BY <1>20, <1>0, <1>C DEF AckInv, EraseTruncates
<1>21. CASE EraseAnchors
  BY <1>21, <1>0, <1>C DEF AckInv, EraseAnchors, EraseDone
<1>22. CASE EraseStops
  BY <1>22, <1>0, <1>C DEF AckInv, EraseStops, EraseDone
<1>23. CASE UNCHANGED vars
  BY <1>23, <1>0, <1>C DEF AckInv, vars
<1> QED
  BY <1>1, <1>2, <1>3, <1>4, <1>5, <1>6, <1>7, <1>8, <1>9, <1>10,
     <1>11, <1>12, <1>13, <1>14, <1>15, <1>16, <1>17, <1>18, <1>19, <1>20,
     <1>21, <1>22, <1>23
  DEF Next, Step, EraseStep

\* Where redaction never shortens a line, every event whose Append returned nil is on
\* the chain and stays there, and nothing is appended behind damage.
THEOREM RecordHolds == SizeOnlyGrows => (Spec => []RecordSafe)
<1> SUFFICES ASSUME SizeOnlyGrows PROVE Spec => []RecordSafe
  OBVIOUS
<1> DEFINE Inv == TypeOK /\ MutexInv /\ EventInv /\ ChainInv /\ AckInv
<1>1. Init => Inv
  BY TypeInit, MutexInit, EventInit, ChainInit, AckInit
<1>2. Inv /\ [Next]_vars => Inv'
  BY TypeNext, MutexNext, EventNext, ChainNext, AckNext
<1>3. Inv => RecordSafe
  <2> SUFFICES ASSUME Inv PROVE RecordSafe
    OBVIOUS
  <2>1. NothingAfterDamage
    BY DEF ChainInv, NothingAfterDamage
  <2>2. ASSUME NEW p \in Recorders
        PROVE  Cardinality(LinesOf(p)) \in acked[p]..(acked[p] + 1)
    <3>1. acked[p] \in Nat
      BY DEF TypeOK, TypeOthers
    <3> QED  BY <3>1 DEF AckInv
  <2> QED  BY <2>1, <2>2 DEF RecordSafe, AckedIsRecorded
<1> QED  BY <1>1, <1>2, <1>3, PTL DEF Spec

---------------------------------------------------------------------------
\* Appending a line appends what it says.
LEMMA ViewAppend ==
  ASSUME NEW ls \in Seq(Line), NEW line \in Line
  PROVE  View(Append(ls, line)) = Append(View(ls), Seen(line.body))
<1> DEFINE S == {Seen(b) : b \in Body}
<1>1. \A b \in Body : Seen(b) \in S
  OBVIOUS
<1> HIDE DEF S
<1>2. \A i \in 1..Len(ls) : Seen(ls[i].body) \in S
  <2>1. \A i \in 1..Len(ls) : ls[i] \in Line  OBVIOUS
  <2> QED  BY <1>1, <2>1 DEF Line
<1>3. Seen(line.body) \in S
  BY <1>1 DEF Line
<1>4. View(ls) \in Seq(S) /\ Len(View(ls)) = Len(ls) /\ Len(ls) \in Nat
      /\ \A i \in 1..Len(ls) : View(ls)[i] = Seen(ls[i].body)
  BY <1>2 DEF View
<1> DEFINE new == Append(ls, line)
<1>5. /\ DOMAIN new = 1..(Len(ls) + 1) /\ \A i \in 1..Len(ls) : new[i] = ls[i]
      /\ new[Len(ls) + 1] = line
  OBVIOUS
<1> HIDE DEF new
<1>6. View(new) = [i \in 1..(Len(ls) + 1) |-> Seen(new[i].body)]
  BY <1>5 DEF View
<1>7. /\ Append(View(ls), Seen(line.body)) \in Seq(S)
      /\ Len(Append(View(ls), Seen(line.body))) = Len(ls) + 1
      /\ \A i \in 1..Len(ls) : Append(View(ls), Seen(line.body))[i] = Seen(ls[i].body)
      /\ Append(View(ls), Seen(line.body))[Len(ls) + 1] = Seen(line.body)
  BY <1>3, <1>4
<1>8. \A i \in 1..(Len(ls) + 1) : Append(View(ls), Seen(line.body))[i] = Seen(new[i].body)
  <2>1. \A i \in 1..(Len(ls) + 1) : i \in 1..Len(ls) \/ i = Len(ls) + 1
    BY <1>4
  <2> QED  BY <1>5, <1>7, <2>1
<1>9. Append(View(ls), Seen(line.body)) = [i \in 1..(Len(ls) + 1) |-> Seen(new[i].body)]
  BY <1>4, <1>7, <1>8
<1> QED  BY <1>6, <1>9 DEF new

\* An erasure is a redaction of what is said, and one more event.
LEMMA ViewErased ==
  ASSUME NEW ls \in Seq(Line)
  PROVE  View(Erased(ls)) =
           Append([i \in DOMAIN View(ls) |->
                     [View(ls)[i] EXCEPT !.text = IF @ = "content" THEN "erased" ELSE @]],
                  Audit!Event(Eraser, "erasure", "none"))
<1> DEFINE R(e) == [e EXCEPT !.text = IF @ = "content" THEN "erased" ELSE @]
           red  == [i \in DOMAIN View(ls) |-> R(View(ls)[i])]
           last == Audit!Event(Eraser, "erasure", "none")
           new  == Erased(ls)
           All  == [by : Recorders \cup {Eraser}, type : Types, text : Texts]
<1>1. /\ new \in Seq(Line) /\ Len(new) = Len(ls) + 1 /\ Len(ls) \in Nat
      /\ \A i \in 1..Len(ls) : new[i].body = Redacted(ls[i].body)
      /\ new[Len(ls) + 1].body = ErasureBody
  BY ErasedLines
<1>2. \A i \in 1..Len(ls) : ls[i].body \in Body
  <2>1. \A i \in 1..Len(ls) : ls[i] \in Line  OBVIOUS
  <2> QED  BY <2>1 DEF Line
<1>3. \A b \in Body : Seen(Redacted(b)) = R(Seen(b)) /\ R(Seen(b)) \in All
  BY DEF Seen, Redacted, Body, Texts
<1>4. Seen(ErasureBody) = last /\ last \in All
  BY DEF Seen, ErasureBody, Audit!Event, Types, Texts
<1>5. /\ DOMAIN View(ls) = 1..Len(ls)
      /\ \A i \in 1..Len(ls) : View(ls)[i] = Seen(ls[i].body)
  BY DEF View
<1> HIDE DEF R, All, last, new
<1>6. \A i \in 1..Len(ls) : R(View(ls)[i]) \in All
  BY <1>2, <1>3, <1>5
<1>7. red = [i \in 1..Len(ls) |-> R(View(ls)[i])]
  BY <1>5
<1>8. red \in Seq(All) /\ Len(red) = Len(ls) /\ \A i \in 1..Len(ls) : red[i] = R(View(ls)[i])
  BY <1>1, <1>6, <1>7
<1> HIDE DEF red
<1>9. /\ Append(red, last) \in Seq(All) /\ Len(Append(red, last)) = Len(ls) + 1
      /\ \A i \in 1..Len(ls) : Append(red, last)[i] = R(View(ls)[i])
      /\ Append(red, last)[Len(ls) + 1] = last
  BY <1>1, <1>4, <1>8
<1>10. \A i \in 1..(Len(ls) + 1) : Append(red, last)[i] = Seen(new[i].body)
  <2>1. \A i \in 1..(Len(ls) + 1) : i \in 1..Len(ls) \/ i = Len(ls) + 1
    BY <1>1
  <2>2. \A i \in 1..Len(ls) : Append(red, last)[i] = Seen(new[i].body)
    BY <1>1, <1>2, <1>3, <1>5, <1>9
  <2> QED  BY <1>1, <1>4, <1>9, <2>1, <2>2
<1>11. View(new) = [i \in 1..(Len(ls) + 1) |-> Seen(new[i].body)]
  BY <1>1 DEF View
<1>12. Append(red, last) = [i \in 1..(Len(ls) + 1) |-> Seen(new[i].body)]
  <2> DEFINE app == Append(red, last)
             n   == Len(ls) + 1
  <2>1. app \in Seq(All) /\ Len(app) = n /\ \A i \in 1..n : app[i] = Seen(new[i].body)
    BY <1>9, <1>10
  <2> HIDE DEF app, n
  <2>2. app = [i \in 1..n |-> app[i]]
    BY ONLY <2>1
  <2>3. app = [i \in 1..n |-> Seen(new[i].body)]
    BY <2>1, <2>2, Zenon
  <2> QED  BY <2>3 DEF app, n
<1> QED  BY <1>11, <1>12 DEF new, red, R, last

\* Every step of the recorder is a step of the audit log, or none.
LEMMA AuditNext ==
  TypeOK /\ MutexInv /\ EventInv /\ LatchInv /\ [Next]_vars => [Audit!ANext]_(Audit!avars)
<1> DEFINE Sealed == tail \notin {"ok", "stale"}
           Same   == View(lines)' = View(lines) /\ failure' = failure /\ Sealed' = Sealed
<1> SUFFICES ASSUME TypeOK, MutexInv, EventInv, LatchInv, [Next]_vars
             PROVE  Audit!ANext \/ Same
  BY DEF Audit!avars
<1> USE DEF file, handle, latch, eraser, reader, history
<1>0. /\ lines \in Seq(Line) /\ Len(lines) \in Nat /\ failure \subseteq Recorders
      /\ lock \in Recorders \cup {Eraser, Nobody}
  BY DEF TypeOK, TypeFile, TypeLatch, TypeOthers
<1>A. ASSUME NEW p \in Recorders, pc[p] = "write", tail = "ok",
             lines' = Append(lines, NextLine(p)),
             \/ Sealed' /\ failure' \in {failure, failure \cup {p}}
             \/ ~Sealed' /\ failure' = failure
      PROVE  Audit!ANext
  <2>1. NextLine(p) \in Line
    BY <1>A, NextLineType DEF TypeOK, TypeHandle, Busy
  <2>2. View(lines)' = Append(View(lines), Seen(pending[p]))
    BY <1>0, <1>A, <2>1, ViewAppend DEF NextLine
  <2>3. pending[p] \in IF p \in failure THEN {Epitaph(p, failedAt[p])}
                                         ELSE {DataBody(p), EndBody(p)}
    BY <1>A DEF EventInv, Busy
  <2>4. CASE p \notin failure
    <3>1. Seen(pending[p]) \in Audit!Recorded(p)
      BY <2>3, <2>4 DEF Audit!Recorded, Audit!Event, Seen, DataBody, EndBody
    <3>2. Audit!Record(p)
      BY <1>A, <2>2, <2>4, <3>1 DEF Audit!Record, Audit!Extends
    <3> QED  BY <3>2 DEF Audit!ANext
  <2>5. CASE p \in failure
    <3>1. Seen(pending[p]) = Audit!Event(p, "epitaph", "none")
      BY <2>3, <2>5 DEF Audit!Event, Seen, Epitaph
    <3>2. ~Audit!HasEpitaph(p)
      <4>1. SUFFICES ASSUME NEW i \in DOMAIN lines, lines[i].body.by = p,
                            lines[i].body.type = "epitaph"
                     PROVE  FALSE
        BY DEF Audit!HasEpitaph, View, Seen
      <4> QED  BY <1>A, <4>1 DEF LatchInv, EventInv
    <3>3. failure' = failure
      BY <1>A, <2>5
    <3>4. Audit!LastWord(p)
      BY <1>A, <2>2, <2>5, <3>1, <3>2, <3>3 DEF Audit!LastWord, Audit!Extends
    <3> QED  BY <3>4 DEF Audit!ANext
  <2> QED  BY <2>4, <2>5
<1>B. ASSUME NEW p \in Recorders, Failed(p), UNCHANGED lines, Sealed' = Sealed \/ Sealed'
      PROVE  Audit!ANext
  <2>1. failure' = failure \cup {p}
    BY <1>B DEF Failed
  <2>2. Audit!Stop(p)
    BY <1>B, <2>1 DEF Audit!Stop
  <2> QED  BY <2>2 DEF Audit!ANext
<1>C. ASSUME NEW p \in Recorders, Torn(p),
             failure' \in {failure, failure \cup {p}}, UNCHANGED lines => failure' = failure \/ Failed(p)
      PROVE  Audit!ANext
  <2>1. Sealed' /\ pc[p] = "write" /\ tail = "ok"
    BY <1>C DEF Torn
  <2>2. CASE UNCHANGED lines
    <3>1. CASE failure' = failure
      BY <2>1, <2>2, <3>1 DEF Audit!ANext, Audit!Seal
    <3>2. CASE Failed(p)
      BY <2>1, <2>2, <3>2, <1>B
    <3> QED  BY <1>C, <2>2, <3>1, <3>2
  <2>3. CASE lines' = Append(lines, NextLine(p))
    BY <1>C, <2>1, <2>3, <1>A
  <2> QED  BY <1>C, <2>2, <2>3 DEF Torn
<1>1. ASSUME NEW p \in Recorders, Open(p)  PROVE Audit!ANext \/ Same
  BY <1>1 DEF Open
<1>2. ASSUME NEW p \in Recorders, NEW b \in {DataBody(p), EndBody(p)}, BeginAppend(p, b)
      PROVE  Audit!ANext \/ Same
  BY <1>2 DEF BeginAppend
<1>3. ASSUME NEW p \in Recorders, EndBroken(p)  PROVE Audit!ANext \/ Same
  BY <1>3 DEF EndBroken
<1>4. ASSUME NEW p \in Recorders, Lock(p)  PROVE Audit!ANext \/ Same
  BY <1>4 DEF Lock
<1>5. ASSUME NEW p \in Recorders, CatchUp(p)  PROVE Audit!ANext \/ Same
  BY <1>5 DEF CatchUp
<1>6. ASSUME NEW p \in Recorders, CatchUpRefuses(p)  PROVE Audit!ANext \/ Same
  <2>1. Failed(p) /\ UNCHANGED lines /\ Sealed' = Sealed  BY <1>6 DEF CatchUpRefuses
  <2> QED  BY <2>1, <1>B
<1>7. ASSUME NEW p \in Recorders, Write(p)  PROVE Audit!ANext \/ Same
  <2>1. CASE tail = "ok"
    <3>1. /\ pc[p] = "write" /\ lines' = Append(lines, NextLine(p)) /\ ~Sealed'
          /\ failure' = failure
      BY <1>7, <2>1 DEF Write, Extend
    <3> QED  BY <2>1, <3>1, <1>A
  <2>2. CASE tail # "ok"
    <3>1. Sealed' /\ UNCHANGED <<lines, failure>>
      BY <1>7, <2>2 DEF Write, Extend
    <3> QED  BY <3>1 DEF Audit!ANext, Audit!Seal
  <2> QED  BY <2>1, <2>2
<1>8. ASSUME NEW p \in Recorders, LineRefused(p)  PROVE Audit!ANext \/ Same
  <2>1. Failed(p) /\ UNCHANGED lines /\ Sealed' = Sealed  BY <1>8 DEF LineRefused
  <2> QED  BY <2>1, <1>B
<1>9. ASSUME NEW p \in Recorders, ShortWrite(p)  PROVE Audit!ANext \/ Same
  <2>1. Torn(p) /\ Failed(p)  BY <1>9 DEF ShortWrite
  <2>2. failure' \in {failure, failure \cup {p}}  BY <2>1 DEF Failed, latch
  <2> QED  BY <2>1, <2>2, <1>C
<1>10. ASSUME NEW p \in Recorders, AnchorWritten(p)  PROVE Audit!ANext \/ Same
  BY <1>10 DEF AnchorWritten, Succeeded
<1>11. ASSUME NEW p \in Recorders, AnchorRemoved(p)  PROVE Audit!ANext \/ Same
  BY <1>11 DEF AnchorRemoved, Succeeded
<1>12. ASSUME NEW p \in Recorders, AnchorLeft(p)  PROVE Audit!ANext \/ Same
  BY <1>12 DEF AnchorLeft, Succeeded
<1>13. ASSUME NEW p \in Recorders, Crash(p)  PROVE Audit!ANext \/ Same
  BY <1>13 DEF Crash, Die
<1>14. ASSUME NEW p \in Recorders, KilledWriting(p)  PROVE Audit!ANext \/ Same
  <2>1. Torn(p) /\ failure' = failure  BY <1>14 DEF KilledWriting
  <2> QED  BY <2>1, <1>C
<1>15. CASE ReadChain
  BY <1>15 DEF ReadChain
<1>16. CASE ReadAnchor
  BY <1>16 DEF ReadAnchor
<1>17. CASE EraseLock
  BY <1>17 DEF EraseLock
<1>18. CASE EraseRefuses
  BY <1>18 DEF EraseRefuses, EraseDone
<1>19. CASE EraseRewrites
  <2>1. /\ lines' = Erased(lines) /\ failure' = failure /\ ~Sealed /\ ~Sealed'
        /\ Redactable(lines) # {}
    BY <1>19 DEF EraseRewrites, Erasable
  <2>2. \E i \in DOMAIN View(lines) : View(lines)[i].text = "content"
    BY <2>1 DEF View, Seen, Redactable
  <2>3. View(lines)' =
           Append([i \in DOMAIN View(lines) |->
                     [View(lines)[i] EXCEPT !.text = IF @ = "content" THEN "erased" ELSE @]],
                  Audit!Event(Eraser, "erasure", "none"))
    BY <1>0, <2>1, ViewErased
  <2>4. Audit!Erase
    BY <2>1, <2>2, <2>3 DEF Audit!Erase
  <2> QED  BY <2>4 DEF Audit!ANext
<1>20. CASE EraseTruncates
  <2>1. tail \in {"ok", "stale"}
    BY <1>20 DEF MutexInv, EraseTruncates
  <2> QED  BY <1>20, <2>1 DEF EraseTruncates
<1>21. CASE EraseAnchors
  BY <1>21 DEF EraseAnchors, EraseDone
<1>22. CASE EraseStops
  BY <1>22 DEF EraseStops, EraseDone
<1>23. CASE UNCHANGED vars
  BY <1>23 DEF vars
<1> QED
  BY <1>1, <1>2, <1>3, <1>4, <1>5, <1>6, <1>7, <1>8, <1>9, <1>10,
     <1>11, <1>12, <1>13, <1>14, <1>15, <1>16, <1>17, <1>18, <1>19, <1>20,
     <1>21, <1>22, <1>23
  DEF Next, Step, EraseStep

\* The recorder implements the audit log, whatever the sizes: a stale handle may
\* break the chain's hashes, but nothing of what was said is lost, reordered or
\* said after a writer's last word.
THEOREM RecorderImplementsAuditLog == Spec => Implements
<1> DEFINE Inv == TypeOK /\ MutexInv /\ EventInv /\ LatchInv /\ NothingAfterEpitaph
<1>1. Init => Inv
  BY TypeInit, MutexInit, EventInit, LatchInit
<1>2. Inv /\ [Next]_vars => Inv'
  BY TypeNext, MutexNext, EventNext, LatchNext
<1>3. Init => Audit!AInit
  BY DEF Init, Audit!AInit, View
<1>4. Inv /\ [Next]_vars => [Audit!ANext]_(Audit!avars)
  BY AuditNext
<1> QED  BY <1>1, <1>2, <1>3, <1>4, PTL DEF Spec, Implements, Audit!Spec
=============================================================================
