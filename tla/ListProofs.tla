------------------------------- MODULE ListProofs -------------------------------
(***************************************************************************)
(* Facts about numbers, finite sets and lists that the proofs of Egress,   *)
(* HostServer and Guest share.                                             *)
(***************************************************************************)
EXTENDS Lists, FiniteSetTheorems, TLAPS

\* A set of naturals has a least member: what a loop gets wrong, it gets wrong a first
\* time (roster.remove, room).
LEMMA LeastOf ==
  ASSUME NEW S, S \subseteq Nat, S # {}
  PROVE  \E n \in S : \A m \in S : n <= m
<1> DEFINE UpTo(n) == 1..n
           T == {UpTo(n) : n \in S}
<1>1. T \subseteq FiniteSubsetsOf(Nat)
  <2>1. \A n \in S : IsFiniteSet(UpTo(n))
    BY FS_Interval
  <2>2. \A n \in S : UpTo(n) \in SUBSET Nat
    OBVIOUS
  <2> QED  BY <2>1, <2>2 DEF FiniteSubsetsOf
<1>2. T # {}
  OBVIOUS
<1>3. IsWellFoundedOn(StrictSubsetOrdering(Nat), FiniteSubsetsOf(Nat))
  BY FS_StrictSubsetOrderingWellFounded
<1>4. PICK X \in T : \A Y \in T : ~(<<Y, X>> \in StrictSubsetOrdering(Nat))
  BY <1>1, <1>2, <1>3, WFMin
<1>5. PICK n \in S : X = UpTo(n)
  OBVIOUS
<1>6. ASSUME NEW m \in S, m < n
      PROVE  FALSE
  <2>1. /\ UpTo(m) \subseteq UpTo(n) /\ UpTo(m) # UpTo(n)
        /\ UpTo(m) \subseteq Nat /\ UpTo(n) \subseteq Nat
    <3>1. n \in UpTo(n) /\ n \notin UpTo(m)
      BY <1>6
    <3> QED  BY <1>6, <3>1
  <2>2. <<UpTo(m), UpTo(n)>> \in StrictSubsetOrdering(Nat)
    BY <2>1 DEF StrictSubsetOrdering
  <2> QED  BY <2>2, <1>4, <1>5
<1> QED  BY <1>6

\* One turn of the loop that Kept stands for.
Turn(s, T, kept, n) == IF s[n] \in T THEN Append(kept, s[n]) ELSE kept

\* What the loop has kept after each of its first n turns.
Turns(s, T, n, f) ==
    /\ DOMAIN f = 0..n
    /\ f[0] = <<>>
    /\ \A i \in 1..n : f[i] = Turn(s, T, f[i - 1], i)

\* The loop of roster.remove ends, however long the roster is.
LEMMA LoopEnds ==
  ASSUME NEW S, NEW s \in Seq(S), NEW T
  PROVE  \E f : Turns(s, T, Len(s), f)
<1> DEFINE bad == {n \in 0..Len(s) : ~ \E f : Turns(s, T, n, f)}
<1>1. SUFFICES ASSUME bad # {}
               PROVE  FALSE
  <2>1. Len(s) \in 0..Len(s)
    OBVIOUS
  <2> QED  BY <2>1
<1>2. bad \subseteq Nat
  OBVIOUS
<1>3. PICK n \in bad : \A m \in bad : n <= m
  <2> HIDE DEF bad
  <2> QED  BY <1>1, <1>2, LeastOf
<1>4. CASE n = 0
  <2>1. Turns(s, T, 0, [i \in 0..0 |-> <<>>])
    BY DEF Turns
  <2> QED  BY <1>4, <2>1
<1>5. CASE n # 0
  <2>1. n \in Nat /\ n - 1 \in 0..Len(s) /\ n - 1 \notin bad
    BY <1>2, <1>3, <1>5
  <2>2. PICK f : Turns(s, T, n - 1, f)
    BY <2>1
  <2> DEFINE g == [i \in 0..n |-> IF i = n THEN Turn(s, T, f[n - 1], n) ELSE f[i]]
  <2>3. \A i \in 1..n : g[i] = Turn(s, T, g[i - 1], i)
    <3> TAKE i \in 1..n
    <3>1. CASE i = n
      BY <2>1, <3>1
    <3>2. CASE i # n
      <4>1. i \in 1..(n - 1) /\ i - 1 \in 0..n /\ i - 1 # n /\ i \in 0..n
        BY <2>1, <3>2
      <4>2. g[i] = f[i] /\ g[i - 1] = f[i - 1]
        BY <3>2, <4>1
      <4> QED  BY <2>2, <4>1, <4>2 DEF Turns
    <3> QED  BY <3>1, <3>2
  <2>4. g[0] = <<>>
    BY <2>1, <2>2, <1>5 DEF Turns
  <2>5. Turns(s, T, n, g)
    <3> DOMAIN g = 0..n
      OBVIOUS
    <3> HIDE DEF g
    <3> QED  BY <2>3, <2>4 DEF Turns
  <2> QED  BY <2>5
<1> QED  BY <1>4, <1>5

\* Kept is what that loop has kept after its last turn.
LEMMA KeptTurns ==
  ASSUME NEW S, NEW s \in Seq(S), NEW T
  PROVE  \E f : Turns(s, T, Len(s), f) /\ Kept(s, T) = f[Len(s)]
<1> DEFINE Eq(f) == f = [n \in 0..Len(s) |->
                      IF n = 0 THEN <<>>
                      ELSE IF s[n] \in T THEN Append(f[n - 1], s[n]) ELSE f[n - 1]]
           kept == CHOOSE f : Eq(f)
<1>1. PICK f : Turns(s, T, Len(s), f)
  BY LoopEnds
<1>2. Len(s) \in Nat
  OBVIOUS
<1>2a. PICK g : g = [n \in 0..Len(s) |-> f[n]]
  OBVIOUS
<1>3. Eq(g)
  <2> DEFINE h == [n \in 0..Len(s) |->
                      IF n = 0 THEN <<>>
                      ELSE IF s[n] \in T THEN Append(g[n - 1], s[n]) ELSE g[n - 1]]
  <2>1. ASSUME NEW n \in 0..Len(s)
        PROVE  g[n] = h[n]
    <3>1. CASE n = 0
      BY <1>1, <1>2a, <3>1 DEF Turns
    <3>2. CASE n # 0
      <4>1. n \in 1..Len(s) /\ n - 1 \in 0..Len(s)
        BY <1>2, <3>2
      <4>2. g[n] = f[n] /\ g[n - 1] = f[n - 1]
        BY <1>2a, <4>1
      <4>3. f[n] = Turn(s, T, f[n - 1], n)
        BY <1>1, <4>1 DEF Turns
      <4> QED  BY <3>2, <4>2, <4>3 DEF Turn
    <3> QED  BY <3>1, <3>2
  <2> QED  BY <1>2a, <2>1
<1>4. Eq(kept)
  BY ZenonT(60), <1>3
<1>5. Kept(s, T) = kept[Len(s)]
  BY DEF Kept
<1> HIDE DEF kept
<1>6. Turns(s, T, Len(s), kept)
  <2>1. DOMAIN kept = 0..Len(s)
    BY <1>4
  <2>2. kept[0] = <<>>
    BY <1>2, <1>4
  <2>3. ASSUME NEW n \in 1..Len(s)
        PROVE  kept[n] = Turn(s, T, kept[n - 1], n)
    <3>1. n \in 0..Len(s) /\ n # 0
      BY <1>2
    <3>2. kept[n] = IF s[n] \in T THEN Append(kept[n - 1], s[n]) ELSE kept[n - 1]
      BY <1>4, <3>1
    <3> QED  BY <3>2 DEF Turn
  <2> QED  BY <2>1, <2>2, <2>3 DEF Turns
<1> QED  BY <1>5, <1>6

\* One more name: a roster without repetitions stays so when a new name joins it (add).
LEMMA AppendSound ==
  ASSUME NEW S, NEW s \in Seq(S), NEW e \in S
  PROVE  /\ Append(s, e) \in Seq(S)
         /\ Range(Append(s, e)) = Range(s) \cup {e}
         /\ IsInjective(s) /\ e \notin Range(s) => IsInjective(Append(s, e))
<1>1. /\ Append(s, e) \in Seq(S) /\ DOMAIN Append(s, e) = 1..(Len(s) + 1)
      /\ Append(s, e)[Len(s) + 1] = e
      /\ \A i \in 1..Len(s) : Append(s, e)[i] = s[i]
      /\ DOMAIN s = 1..Len(s) /\ Len(s) \in Nat
  OBVIOUS
<1>2. Range(Append(s, e)) = Range(s) \cup {e}
  <2>1. Range(Append(s, e)) \subseteq Range(s) \cup {e}
    BY <1>1 DEF Range
  <2>2. Range(s) \cup {e} \subseteq Range(Append(s, e))
    BY <1>1 DEF Range
  <2> QED  BY <2>1, <2>2
<1>3. IsInjective(s) /\ e \notin Range(s) => IsInjective(Append(s, e))
  <2> PICK t : t = Append(s, e)
    OBVIOUS
  <2> SUFFICES ASSUME IsInjective(s), e \notin Range(s),
                      NEW a \in DOMAIN t, NEW b \in DOMAIN t,
                      t[a] = t[b]
               PROVE  a = b
    BY DEF IsInjective
  <2>1. \A i \in 1..Len(s) : t[i] = s[i] /\ t[i] # e
    BY <1>1 DEF Range
  <2>2. \A i, j \in 1..Len(s) : s[i] = s[j] => i = j
    BY <1>1 DEF IsInjective
  <2>3. a \in 1..(Len(s) + 1) /\ b \in 1..(Len(s) + 1) /\ t[Len(s) + 1] = e
    BY <1>1
  <2> QED  BY <1>1, <2>1, <2>2, <2>3
<1> QED  BY <1>1, <1>2, <1>3

\* roster.remove and the collection of the boots keep those they should, each once and
\* no other.
LEMMA KeptSound ==
  ASSUME NEW S, NEW s \in Seq(S), NEW T
  PROVE  /\ Kept(s, T) \in Seq(S)
         /\ Range(Kept(s, T)) = Range(s) \cap T
         /\ IsInjective(s) => IsInjective(Kept(s, T))
<1> DEFINE Good(f, n) == /\ f[n] \in Seq(S)
                         /\ Range(f[n]) = {s[i] : i \in 1..n} \cap T
                         /\ IsInjective(s) => IsInjective(f[n])
<1>1. PICK f : Turns(s, T, Len(s), f) /\ Kept(s, T) = f[Len(s)]
  BY KeptTurns
<1>2. Len(s) \in Nat
  OBVIOUS
<1>3. Good(f, 0)
  <2>1. f[0] = <<>>
    BY <1>1 DEF Turns
  <2> QED  BY <2>1 DEF Range, IsInjective
<1>4. ASSUME NEW n \in 1..Len(s), Good(f, n - 1)
      PROVE  Good(f, n)
  <2>1. f[n] = Turn(s, T, f[n - 1], n)
    BY <1>1 DEF Turns
  <2>2. s[n] \in S /\ {s[i] : i \in 1..n} = {s[i] : i \in 1..(n - 1)} \cup {s[n]}
    <3>1. 1..n = (1..(n - 1)) \cup {n}
      BY <1>2
    <3> QED  BY <3>1
  <2>3. CASE s[n] \in T
    <3> PICK g \in Seq(S) : g = f[n - 1]
      BY <1>4
    <3>1. /\ f[n] \in Seq(S) /\ Range(f[n]) = Range(g) \cup {s[n]}
          /\ IsInjective(g) /\ s[n] \notin Range(g) => IsInjective(f[n])
      BY <2>1, <2>2, <2>3, AppendSound DEF Turn
    <3>2. IsInjective(s) => s[n] \notin {s[i] : i \in 1..(n - 1)}
      BY <1>2 DEF IsInjective
    <3> QED  BY <1>4, <2>2, <2>3, <3>1, <3>2
  <2>4. CASE s[n] \notin T
    <3>1. f[n] = f[n - 1]
      BY <2>1, <2>4 DEF Turn
    <3> QED  BY <1>4, <2>2, <2>4, <3>1
  <2> QED  BY <2>3, <2>4
<1>5. \A n \in 0..Len(s) : Good(f, n)
  <2> DEFINE bad == {n \in 0..Len(s) : ~Good(f, n)}
  <2> HIDE DEF Good
  <2>1. SUFFICES ASSUME bad # {}
                 PROVE  FALSE
    OBVIOUS
  <2>2. PICK n \in bad : \A m \in bad : n <= m
    <3> bad \subseteq Nat
      OBVIOUS
    <3> HIDE DEF bad
    <3> QED  BY <2>1, LeastOf
  <2>3. n # 0 /\ n \in 1..Len(s) /\ n - 1 \in 0..Len(s) /\ n - 1 \notin bad
    BY <1>2, <1>3, <2>2
  <2> QED  BY <1>4, <2>2, <2>3
<1>6. {s[i] : i \in 1..Len(s)} = Range(s)
  BY DEF Range
<1>7. Good(f, Len(s))
  <2> HIDE DEF Good
  <2> QED  BY <1>2, <1>5
<1> QED  BY <1>1, <1>6, <1>7

\* The roster of a team: the workers that came first, then its agents (raiseTeam).
LEMMA ConcatSound ==
  ASSUME NEW S, NEW s \in Seq(S), NEW t \in Seq(S)
  PROVE  /\ s \o t \in Seq(S)
         /\ Range(s \o t) = Range(s) \cup Range(t)
         /\ IsInjective(s) /\ IsInjective(t) /\ Range(s) \cap Range(t) = {}
              => IsInjective(s \o t)
<1> PICK u : u = s \o t
  OBVIOUS
<1>1. /\ u \in Seq(S) /\ Len(u) = Len(s) + Len(t)
      /\ DOMAIN u = 1..(Len(s) + Len(t))
      /\ \A i \in 1..Len(s) : u[i] = s[i]
      /\ \A i \in (Len(s) + 1)..(Len(s) + Len(t)) : u[i] = t[i - Len(s)]
      /\ DOMAIN s = 1..Len(s) /\ DOMAIN t = 1..Len(t)
      /\ Len(s) \in Nat /\ Len(t) \in Nat
  OBVIOUS
<1>2. \A j \in 1..Len(t) : t[j] = u[j + Len(s)] /\ j + Len(s) \in DOMAIN u
  BY <1>1
<1>3. Range(u) \subseteq Range(s) \cup Range(t)
  <2>1. ASSUME NEW i \in DOMAIN u
        PROVE  u[i] \in Range(s) \cup Range(t)
    <3>1. CASE i \in 1..Len(s)
      BY <1>1, <3>1 DEF Range
    <3>2. CASE i \notin 1..Len(s)
      <4>1. i \in (Len(s) + 1)..(Len(s) + Len(t)) /\ i - Len(s) \in 1..Len(t)
        BY <1>1, <3>2
      <4> QED  BY <1>1, <4>1 DEF Range
    <3> QED  BY <3>1, <3>2
  <2> QED  BY <2>1 DEF Range
<1>4. Range(s) \cup Range(t) \subseteq Range(u)
  <2>1. \A i \in 1..Len(s) : i \in DOMAIN u /\ s[i] = u[i]
    BY <1>1
  <2>2. Range(s) \subseteq Range(u)
    BY <1>1, <2>1 DEF Range
  <2>3. \A e \in Range(t) : \E j \in 1..Len(t) : e = t[j]
    BY <1>1 DEF Range
  <2>4. Range(t) \subseteq Range(u)
    <3> SUFFICES ASSUME NEW e \in Range(t)
                 PROVE  e \in Range(u)
      OBVIOUS
    <3> PICK j \in 1..Len(t) : e = t[j]
      BY <2>3
    <3>1. PICK k \in DOMAIN u : e = u[k]
      BY <1>2
    <3> QED  BY <3>1 DEF Range
  <2> QED  BY <2>2, <2>4
<1>5. ASSUME IsInjective(s), IsInjective(t), Range(s) \cap Range(t) = {},
             NEW a \in DOMAIN u, NEW b \in DOMAIN u, u[a] = u[b]
      PROVE  a = b
  <2>1. \A i \in 1..Len(s), j \in 1..Len(t) : s[i] # t[j]
    BY <1>1, <1>5 DEF Range
  <2>2. \A i, j \in 1..Len(s) : s[i] = s[j] => i = j
    BY <1>1, <1>5 DEF IsInjective
  <2>3. \A i, j \in 1..Len(t) : t[i] = t[j] => i = j
    BY <1>1, <1>5 DEF IsInjective
  <2>4. \A i \in DOMAIN u : \/ i \in 1..Len(s) /\ u[i] = s[i]
                            \/ /\ i \in Nat /\ i - Len(s) \in 1..Len(t)
                               /\ u[i] = t[i - Len(s)]
    BY <1>1
  <2> DEFINE inS(i) == i \in 1..Len(s) /\ u[i] = s[i]
             inT(i) == i \in Nat /\ i - Len(s) \in 1..Len(t) /\ u[i] = t[i - Len(s)]
  <2>5. CASE inS(a) /\ inS(b)
    BY <1>5, <2>2, <2>5
  <2>6. CASE inT(a) /\ inT(b)
    <3> PICK i, j \in 1..Len(t) : i = a - Len(s) /\ j = b - Len(s)
      BY <2>6
    <3>1. t[i] = t[j]
      BY <1>5, <2>6
    <3>2. i = j
      BY <2>3, <3>1
    <3> QED  BY <1>1, <2>6, <3>2
  <2>7. CASE inS(a) /\ inT(b)
    <3> PICK j \in 1..Len(t) : j = b - Len(s)
      BY <2>7
    <3> QED  BY <1>5, <2>1, <2>7
  <2>8. CASE inT(a) /\ inS(b)
    <3> PICK j \in 1..Len(t) : j = a - Len(s)
      BY <2>8
    <3> QED  BY <1>5, <2>1, <2>8
  <2>9. (inS(a) \/ inT(a)) /\ (inS(b) \/ inT(b))
    BY <2>4
  <2> QED  BY <2>5, <2>6, <2>7, <2>8, <2>9
<1> QED  BY <1>1, <1>3, <1>4, <1>5 DEF IsInjective

\* teardown's loop: all but the last are still to be stopped.
LEMMA FrontSound ==
  ASSUME NEW S, NEW s \in Seq(S), s # <<>>
  PROVE  /\ Front(s) \in Seq(S) /\ Last(s) \in Range(s)
         /\ Range(Front(s)) \subseteq Range(s)
         /\ Range(s) = Range(Front(s)) \cup {Last(s)}
<1>1. Len(s) \in Nat \ {0} /\ DOMAIN s = 1..Len(s)
  OBVIOUS
<1>2. PICK t : t = Front(s)
  OBVIOUS
<1>3. /\ t \in Seq(S) /\ DOMAIN t = 1..(Len(s) - 1)
      /\ \A i \in 1..(Len(s) - 1) : t[i] = s[i]
  BY <1>1, <1>2 DEF Front
<1>4. Last(s) = s[Len(s)]
  BY DEF Last
<1>5. 1..Len(s) = (1..(Len(s) - 1)) \cup {Len(s)}
  BY <1>1
<1> QED  BY <1>1, <1>2, <1>3, <1>4, <1>5 DEF Range

--------------------------------------------------------------------------------
(* Lists, one element at a time                                                 *)

\* What holds of the empty list and of a list with one element more holds of every list:
\* the events of a queue, the lines of an output (reportGuestEvent, pumpEvents).
LEMMA ListRule ==
  ASSUME NEW S, NEW P, <<>> \in P,
         \A s \in P \cap Seq(S), e \in S : Append(s, e) \in P
  PROVE  Seq(S) \subseteq P
<1> DEFINE bad == {n \in Nat : \E s \in Seq(S) : Len(s) = n /\ s \notin P}
<1>1. SUFFICES ASSUME bad # {}
               PROVE  FALSE
  <2>1. \A s \in Seq(S) : Len(s) \in Nat
    OBVIOUS
  <2> QED  BY <2>1
<1>2. PICK n \in bad : \A m \in bad : n <= m
  <2> bad \subseteq Nat
    OBVIOUS
  <2> HIDE DEF bad
  <2> QED  BY <1>1, LeastOf
<1>3. PICK s \in Seq(S) : Len(s) = n /\ s \notin P
  BY <1>2
<1>4. n \in Nat /\ n # 0
  BY <1>2, <1>3
<1>5. PICK t : t = SubSeq(s, 1, n - 1)
  OBVIOUS
<1>6. t \in Seq(S) /\ Len(t) = n - 1 /\ s[n] \in S /\ s = Append(t, s[n])
  BY <1>3, <1>4, <1>5
<1>7. n - 1 \in Nat /\ n - 1 \notin bad
  BY <1>2, <1>4
<1>8. t \in P
  BY <1>6, <1>7
<1> QED  BY <1>3, <1>6, <1>8

\* The loop of two lists that begin alike keeps the same of what they share.
LEMMA SameTurns ==
  ASSUME NEW S, NEW s \in Seq(S), NEW e \in S, NEW T, NEW f, NEW g,
         Turns(s, T, Len(s), f), Turns(Append(s, e), T, Len(s) + 1, g)
  PROVE  f[Len(s)] = g[Len(s)]
<1> DEFINE bad == {n \in 0..Len(s) : f[n] # g[n]}
<1>1. SUFFICES ASSUME bad # {}
               PROVE  FALSE
  BY Len(s) \in 0..Len(s)
<1>2. PICK n \in bad : \A m \in bad : n <= m
  <2> bad \subseteq Nat
    OBVIOUS
  <2> HIDE DEF bad
  <2> QED  BY <1>1, LeastOf
<1>3. f[0] = g[0]
  BY DEF Turns
<1>4. n # 0 /\ n \in 1..Len(s) /\ n - 1 \in 0..Len(s) /\ n - 1 \notin bad
  BY <1>2, <1>3
<1>5. f[n - 1] = g[n - 1]
  BY <1>4
<1>6. Append(s, e)[n] = s[n] /\ n \in 1..(Len(s) + 1)
  BY <1>4
<1>7. f[n] = Turn(s, T, f[n - 1], n)
  BY <1>4 DEF Turns
<1>8. g[n] = Turn(Append(s, e), T, g[n - 1], n)
  BY <1>6 DEF Turns
<1>9. f[n] = g[n]
  BY <1>5, <1>6, <1>7, <1>8 DEF Turn
<1> QED  BY <1>2, <1>9

\* An element more is one turn more (reportGuestEvent).
LEMMA KeptAppend ==
  ASSUME NEW S, NEW s \in Seq(S), NEW e \in S, NEW T
  PROVE  Kept(Append(s, e), T) = IF e \in T THEN Append(Kept(s, T), e) ELSE Kept(s, T)
<1>0. Append(s, e) \in Seq(S)
  OBVIOUS
<1> PICK t \in Seq(S) : t = Append(s, e)
  BY <1>0
<1>1. PICK f : Turns(s, T, Len(s), f) /\ Kept(s, T) = f[Len(s)]
  BY KeptTurns
<1>2. PICK g : Turns(t, T, Len(t), g) /\ Kept(t, T) = g[Len(t)]
  BY KeptTurns
<1>3. Len(s) \in Nat /\ Len(t) = Len(s) + 1 /\ t[Len(s) + 1] = e
  OBVIOUS
<1>4. f[Len(s)] = g[Len(s)]
  BY <1>1, <1>2, <1>3, SameTurns
<1>5. Len(t) \in 1..Len(t) /\ Len(t) - 1 = Len(s)
  BY <1>3
<1>6. g[Len(t)] = Turn(t, T, g[Len(s)], Len(t))
  BY <1>2, <1>5 DEF Turns
<1> QED  BY <1>1, <1>2, <1>3, <1>4, <1>6 DEF Turn

\* Of an empty list nothing is kept.
LEMMA KeptEmpty ==
  ASSUME NEW T
  PROVE  Kept(<<>>, T) = <<>>
<1>1. <<>> \in Seq({}) /\ Len(<<>>) = 0
  OBVIOUS
<1>2. PICK f : Turns(<<>>, T, Len(<<>>), f) /\ Kept(<<>>, T) = f[Len(<<>>)]
  BY <1>1, KeptTurns
<1> QED  BY <1>1, <1>2 DEF Turns

\* A list whose elements are all to be kept is kept whole.
LEMMA KeptAll ==
  ASSUME NEW S, NEW s \in Seq(S), NEW T, S \subseteq T
  PROVE  Kept(s, T) = s
<1> DEFINE P == {t \in Seq(S) : Kept(t, T) = t}
<1>1. <<>> \in P
  BY KeptEmpty
<1>2. ASSUME NEW t \in P \cap Seq(S), NEW e \in S
      PROVE  Append(t, e) \in P
  <2>1. Kept(Append(t, e), T) = Append(Kept(t, T), e)
    BY KeptAppend
  <2> QED  BY <2>1
<1>3. Seq(S) \subseteq P
  <2> HIDE DEF P
  <2> QED  BY <1>1, <1>2, ListRule
<1> QED  BY <1>3

\* Nothing is kept of a list none of whose elements is to be.
LEMMA KeptNone ==
  ASSUME NEW S, NEW s \in Seq(S), NEW T, S \cap T = {}
  PROVE  Kept(s, T) = <<>>
<1> DEFINE P == {t \in Seq(S) : Kept(t, T) = <<>>}
<1>1. <<>> \in P
  BY KeptEmpty
<1>2. ASSUME NEW t \in P \cap Seq(S), NEW e \in S
      PROVE  Append(t, e) \in P
  <2>1. Kept(Append(t, e), T) = Kept(t, T)
    BY KeptAppend
  <2> QED  BY <2>1
<1>3. Seq(S) \subseteq P
  <2> HIDE DEF P
  <2> QED  BY <1>1, <1>2, ListRule
<1> QED  BY <1>3

\* PlainNames for what the provers otherwise take apart.
Joined(s, t) == s \o t
With(s, e) == Append(s, e)

\* To add to the second of two lists is to add to both (reportGuestEvent).
LEMMA JoinedWith ==
  ASSUME NEW S, NEW s \in Seq(S), NEW t \in Seq(S), NEW e \in S
  PROVE  With(Joined(s, t), e) = Joined(s, With(t, e))
BY DEF Joined, With

\* Lists put one after the other: nothing is lost and nothing moves (pumpEvents).
LEMMA JoinedSeq ==
  ASSUME NEW S, NEW s \in Seq(S), NEW t \in Seq(S)
  PROVE  Joined(s, t) \in Seq(S)
BY DEF Joined

\* Three lists, whichever two are joined first (pumpEvents).
LEMMA JoinedAssoc ==
  ASSUME NEW S, NEW s \in Seq(S), NEW t \in Seq(S), NEW u \in Seq(S)
  PROVE  Joined(Joined(s, t), u) = Joined(s, Joined(t, u))
<1>1. Len(s) \in Nat /\ Len(t) \in Nat /\ Len(u) \in Nat
  OBVIOUS
<1>2. PICK st \in Seq(S) : st = Joined(s, t)
  BY JoinedSeq
<1>3. PICK tu \in Seq(S) : tu = Joined(t, u)
  BY JoinedSeq
<1>4. PICK a \in Seq(S) : a = Joined(st, u)
  BY JoinedSeq
<1>5. PICK b \in Seq(S) : b = Joined(s, tu)
  BY JoinedSeq
<1> DEFINE at(i) == IF i <= Len(s) THEN s[i]
                    ELSE IF i <= Len(s) + Len(t) THEN t[i - Len(s)]
                    ELSE u[i - (Len(s) + Len(t))]
<1>6. /\ Len(st) = Len(s) + Len(t)
      /\ \A i \in 1..Len(st) : st[i] = IF i <= Len(s) THEN s[i] ELSE t[i - Len(s)]
  BY <1>2 DEF Joined
<1>7. /\ Len(tu) = Len(t) + Len(u)
      /\ \A i \in 1..Len(tu) : tu[i] = IF i <= Len(t) THEN t[i] ELSE u[i - Len(t)]
  BY <1>3 DEF Joined
<1>8. /\ Len(a) = Len(st) + Len(u)
      /\ \A i \in 1..Len(a) : a[i] = IF i <= Len(st) THEN st[i] ELSE u[i - Len(st)]
  BY <1>4 DEF Joined
<1>9. /\ Len(b) = Len(s) + Len(tu)
      /\ \A i \in 1..Len(b) : b[i] = IF i <= Len(s) THEN s[i] ELSE tu[i - Len(s)]
  BY <1>5 DEF Joined
<1>10. Len(a) = Len(b) /\ Len(a) \in Nat
  BY <1>1, <1>6, <1>7, <1>8, <1>9
<1>11. ASSUME NEW i \in 1..Len(a)
       PROVE  a[i] = at(i) /\ b[i] = at(i)
  <2>1. a[i] = at(i)
    BY <1>1, <1>6, <1>8
  <2>2. b[i] = at(i)
    <3>1. CASE i <= Len(s)
      BY <1>9, <1>10, <3>1
    <3>2. CASE i > Len(s)
      <4>0. Len(tu) \in Nat /\ Len(a) = Len(s) + Len(tu) /\ i \in Nat /\ i <= Len(a)
        BY <1>1, <1>7, <1>9, <1>10
      <4>0a. i - Len(s) \in 1..Len(tu)
        BY <1>1, <3>2, <4>0
      <4>1. PICK j \in 1..Len(tu) : j = i - Len(s)
        BY <4>0a
      <4>2. b[i] = tu[j]
        BY <1>1, <1>9, <1>10, <3>2, <4>1
      <4>3. CASE j <= Len(t)
        <5>1. tu[j] = t[j]
          BY <1>7, <4>1, <4>3
        <5>2. i <= Len(s) + Len(t) /\ ~(i <= Len(s))
          BY <1>1, <3>2, <4>0, <4>1, <4>3
        <5> QED  BY <4>1, <4>2, <5>1, <5>2
      <4>4. CASE j > Len(t)
        <5>0. j \in Int /\ i \in Int /\ i = j + Len(s)
          BY SMTT(30), <1>1, <1>7, <4>1
        <5>0a. tu[j] = u[j - Len(t)]
          BY <1>1, <1>7, <4>4, <5>0
        <5>1. ~(i <= Len(s) + Len(t)) /\ ~(i <= Len(s))
          BY <1>1, <3>2, <4>4, <5>0
        <5>2. j - Len(t) = i - (Len(s) + Len(t))
          BY <1>1, <4>1
        <5> QED  BY <4>2, <5>0a, <5>1, <5>2
      <4>5. j \in Int
        BY <1>1, <1>7, <4>1
      <4> QED  BY <1>1, <4>3, <4>4, <4>5
    <3> QED  BY <1>1, <3>1, <3>2
  <2> QED  BY <2>1, <2>2
<1>12. a = b
  <2> HIDE DEF at
  <2>1. \A i \in 1..Len(a) : a[i] = b[i]
    BY <1>11
  <2>2. DOMAIN a = DOMAIN b /\ DOMAIN a = 1..Len(a)
    BY <1>10
  <2>3. a = [i \in 1..Len(a) |-> a[i]] /\ b = [i \in 1..Len(b) |-> b[i]]
    OBVIOUS
  <2> QED  BY <2>1, <2>3, <1>10
<1> QED  BY <1>2, <1>3, <1>4, <1>5, <1>12

\* An empty list adds nothing (pumpEvents with nothing in hand).
LEMMA JoinedEmpty ==
  ASSUME NEW S, NEW s \in Seq(S)
  PROVE  Joined(s, <<>>) = s /\ Joined(<<>>, s) = s
BY DEF Joined

\* An element more is a list of one more (pumpEvents).
LEMMA JoinedOne ==
  ASSUME NEW S, NEW s \in Seq(S), NEW e \in S
  PROVE  With(s, e) = Joined(s, <<e>>) /\ <<e>> \in Seq(S)
BY DEF Joined, With

\* The first of a list, and the rest of it (pumpEvents takes, serveEvents reads).
LEMMA JoinedHead ==
  ASSUME NEW S, NEW s \in Seq(S), s # <<>>
  PROVE  /\ Head(s) \in S /\ Tail(s) \in Seq(S)
         /\ s = Joined(<<Head(s)>>, Tail(s))
BY DEF Joined

\* Two lists, one after the other.
LEMMA KeptConcat ==
  ASSUME NEW S, NEW s \in Seq(S), NEW t \in Seq(S), NEW T
  PROVE  Kept(s \o t, T) = Kept(s, T) \o Kept(t, T)
<1> DEFINE P == {u \in Seq(S) : Kept(s \o u, T) = Kept(s, T) \o Kept(u, T)}
<1>k. Kept(s, T) \in Seq(S) /\ \A u \in Seq(S) : Kept(u, T) \in Seq(S)
  BY KeptSound
<1>1. <<>> \in P
  <2>1. PICK ks \in Seq(S) : ks = Kept(s, T)
    BY <1>k
  <2>2. s \o <<>> = s /\ ks \o <<>> = ks
    OBVIOUS
  <2>3. Kept(<<>>, T) = <<>>
    BY KeptEmpty
  <2>4. <<>> \in Seq(S)
    OBVIOUS
  <2>5. Kept(s \o <<>>, T) = Kept(s, T) \o Kept(<<>>, T)
    BY <2>1, <2>2, <2>3
  <2> QED  BY <2>4, <2>5
<1>2. ASSUME NEW u \in P \cap Seq(S), NEW e \in S
      PROVE  Append(u, e) \in P
  <2>0. u \in Seq(S) /\ Kept(s \o u, T) = Kept(s, T) \o Kept(u, T)
    OBVIOUS
  <2> HIDE DEF P
  <2>1. s \o Append(u, e) = Append(s \o u, e) /\ s \o u \in Seq(S)
    OBVIOUS
  <2>1a. PICK su \in Seq(S) : su = s \o u
    BY <2>1
  <2>2. Kept(Append(su, e), T) = IF e \in T THEN Append(Kept(su, T), e) ELSE Kept(su, T)
    BY KeptAppend
  <2>3. Kept(Append(u, e), T) = IF e \in T THEN Append(Kept(u, T), e) ELSE Kept(u, T)
    BY KeptAppend
  <2>4. PICK ks \in Seq(S), ku \in Seq(S) : ks = Kept(s, T) /\ ku = Kept(u, T)
    BY <1>k, <2>0
  <2>5. Append(ks \o ku, e) = ks \o Append(ku, e)
    <3>1. With(Joined(ks, ku), e) = Joined(ks, With(ku, e))
      BY JoinedWith
    <3> QED  BY <3>1 DEF Joined, With
  <2>6. Kept(su, T) = ks \o ku
    BY <2>0, <2>1a, <2>4
  <2>7. Append(u, e) \in Seq(S) /\ s \o Append(u, e) = Append(su, e)
    BY <2>1, <2>1a
  <2>8. Kept(Append(su, e), T) = ks \o Kept(Append(u, e), T)
    BY <2>2, <2>3, <2>4, <2>5, <2>6
  <2> QED  BY <2>4, <2>7, <2>8 DEF P
<1>3. Seq(S) \subseteq P
  <2> HIDE DEF P
  <2> QED  BY <1>1, <1>2, ListRule
<1> QED  BY <1>3

\* Kept of what was kept: an event burned later (Restore, authenticate).
LEMMA KeptTwice ==
  ASSUME NEW S, NEW s \in Seq(S), NEW T, NEW U
  PROVE  Kept(Kept(s, T), U) = Kept(s, T \cap U)
<1> DEFINE P == {t \in Seq(S) : Kept(Kept(t, T), U) = Kept(t, T \cap U)}
<1>1. <<>> \in P
  BY KeptEmpty
<1>2. ASSUME NEW t \in P \cap Seq(S), NEW e \in S
      PROVE  Append(t, e) \in P
  <2>1. Kept(Append(t, e), T) = IF e \in T THEN Append(Kept(t, T), e) ELSE Kept(t, T)
    BY KeptAppend
  <2>2. Kept(Append(t, e), T \cap U)
          = IF e \in T \cap U THEN Append(Kept(t, T \cap U), e) ELSE Kept(t, T \cap U)
    BY KeptAppend
  <2>3. Kept(t, T) \in Seq(S)
    BY KeptSound
  <2>4. Kept(Append(Kept(t, T), e), U)
          = IF e \in U THEN Append(Kept(Kept(t, T), U), e) ELSE Kept(Kept(t, T), U)
    BY ZenonT(60), <2>3, KeptAppend
  <2>5. Append(t, e) \in Seq(S) /\ Kept(Kept(t, T), U) = Kept(t, T \cap U)
    OBVIOUS
  <2>6. CASE e \in T
    <3>1. Kept(Append(t, e), T) = Append(Kept(t, T), e)
      BY <2>1, <2>6
    <3>2. e \in T \cap U <=> e \in U
      BY <2>6
    <3>3. Kept(Kept(Append(t, e), T), U) = Kept(Append(t, e), T \cap U)
      BY <2>2, <2>4, <2>5, <3>1, <3>2
    <3> QED  BY <2>5, <3>3
  <2>7. CASE e \notin T
    BY <2>1, <2>2, <2>5, <2>7
  <2> QED  BY <2>6, <2>7
<1>3. Seq(S) \subseteq P
  <2> HIDE DEF P
  <2> QED  BY <1>1, <1>2, ListRule
<1> QED  BY <1>3

\* Two parts of a list without repetitions share nothing.
LEMMA PartsApart ==
  ASSUME NEW S, NEW s \in Seq(S), NEW t \in Seq(S), IsInjective(s \o t)
  PROVE  Range(s) \cap Range(t) = {}
<1> PICK u : u = s \o t
  OBVIOUS
<1>1. /\ DOMAIN u = 1..(Len(s) + Len(t))
      /\ \A i \in 1..Len(s) : u[i] = s[i]
      /\ \A j \in 1..Len(t) : u[j + Len(s)] = t[j]
      /\ DOMAIN s = 1..Len(s) /\ DOMAIN t = 1..Len(t)
      /\ Len(s) \in Nat /\ Len(t) \in Nat
  OBVIOUS
<1>2. ASSUME NEW i \in 1..Len(s), NEW j \in 1..Len(t), s[i] = t[j]
      PROVE  FALSE
  <2>1. PICK k \in DOMAIN u : k = j + Len(s)
    BY <1>1
  <2>2. u[i] = u[k] /\ i \in DOMAIN u
    BY <1>1, <1>2, <2>1
  <2>3. i = k
    BY <2>2 DEF IsInjective
  <2> QED  BY <1>1, <2>1, <2>3
<1> QED  BY <1>1, <1>2 DEF Range

\* What is cut out of the middle of a list without repetitions: the events in a
\* connection that is lost (Restore, authenticate).
LEMMA KeptCut ==
  ASSUME NEW S, NEW s \in Seq(S), NEW t \in Seq(S), NEW u \in Seq(S),
         IsInjective(s \o t \o u)
  PROVE  Kept(s \o t \o u, S \ Range(t)) = s \o u
<1> DEFINE T == S \ Range(t)
<1>0. s \o t \in Seq(S)
  OBVIOUS
<1>1. PICK st \in Seq(S) : st = s \o t
  BY <1>0
<1>2. Range(st) \cap Range(u) = {}
  BY <1>1, PartsApart
<1>3. Range(st) = Range(s) \cup Range(t)
  BY <1>1, ConcatSound
<1>4. IsInjective(st)
  <2> PICK w : w = st \o u
    OBVIOUS
  <2>1. /\ DOMAIN st \subseteq DOMAIN w /\ \A i \in DOMAIN st : w[i] = st[i]
        /\ IsInjective(w)
    BY <1>1
  <2> QED  BY <2>1 DEF IsInjective
<1>5. Range(s) \cap Range(t) = {}
  BY <1>1, <1>4, PartsApart
<1>6. \A v \in Seq(S) : v \in Seq(Range(v)) /\ Range(v) \subseteq S
  BY DEF Range
<1>7. Kept(s, T) = s
  <2>1. s \in Seq(Range(s)) /\ Range(s) \subseteq T
    BY <1>5, <1>6
  <2> HIDE DEF T
  <2> QED  BY <2>1, KeptAll
<1>8. Kept(u, T) = u
  <2>1. u \in Seq(Range(u)) /\ Range(u) \subseteq T
    BY <1>2, <1>3, <1>6
  <2> HIDE DEF T
  <2> QED  BY <2>1, KeptAll
<1>9. Kept(t, T) = <<>>
  <2>1. t \in Seq(Range(t)) /\ Range(t) \cap T = {}
    BY <1>6
  <2> HIDE DEF T
  <2> QED  BY <2>1, KeptNone
<1>10. Kept(st \o u, T) = (Kept(s, T) \o Kept(t, T)) \o Kept(u, T)
  <2> HIDE DEF T
  <2>1. Kept(st \o u, T) = Kept(st, T) \o Kept(u, T)
    BY KeptConcat
  <2>2. Kept(s \o t, T) = Kept(s, T) \o Kept(t, T)
    BY KeptConcat
  <2> QED  BY <1>1, <2>1, <2>2
<1>11. s \o <<>> = s
  OBVIOUS
<1> QED  BY <1>1, <1>7, <1>8, <1>9, <1>10, <1>11

\* What KeptCut says, of lists joined.
LEMMA JoinedCut ==
  ASSUME NEW S, NEW s \in Seq(S), NEW t \in Seq(S), NEW u \in Seq(S),
         IsInjective(Joined(Joined(s, t), u))
  PROVE  Kept(Joined(Joined(s, t), u), S \ Range(t)) = Joined(s, u)
BY KeptCut DEF Joined

\* What a loop finds before each of its turns, and after the last.
Runs(turn, x, n, f) ==
    /\ DOMAIN f = 0..n
    /\ f[0] = x
    /\ \A k \in 1..n : f[k] = turn[k][f[k - 1]]

\* A loop of n turns ends (path.Clean, the filter's run).
LEMMA RunsEnd ==
  ASSUME NEW turn, NEW x, NEW N \in Nat
  PROVE  \E f : Runs(turn, x, N, f)
<1> DEFINE bad == {n \in 0..N : ~ \E f : Runs(turn, x, n, f)}
<1>1. SUFFICES ASSUME bad # {}
               PROVE  FALSE
  <2>1. N \in 0..N
    OBVIOUS
  <2> QED  BY <2>1
<1>2. bad \subseteq Nat
  OBVIOUS
<1>3. PICK n \in bad : \A m \in bad : n <= m
  <2> HIDE DEF bad
  <2> QED  BY <1>1, <1>2, LeastOf
<1>4. CASE n = 0
  <2>1. Runs(turn, x, 0, [i \in 0..0 |-> x])
    BY DEF Runs
  <2> QED  BY <1>4, <2>1
<1>5. CASE n # 0
  <2>1. n \in Nat /\ n - 1 \in 0..N /\ n - 1 \notin bad
    BY <1>2, <1>3, <1>5
  <2>2. PICK f : Runs(turn, x, n - 1, f)
    BY <2>1
  <2> DEFINE g == [i \in 0..n |-> IF i = n THEN turn[n][f[n - 1]] ELSE f[i]]
  <2>3. \A i \in 1..n : g[i] = turn[i][g[i - 1]]
    <3> TAKE i \in 1..n
    <3>1. CASE i = n
      BY <2>1, <3>1
    <3>2. CASE i # n
      <4>1. i \in 1..(n - 1) /\ i - 1 \in 0..n /\ i - 1 # n /\ i \in 0..n
        BY <2>1, <3>2
      <4>2. g[i] = f[i] /\ g[i - 1] = f[i - 1]
        BY <3>2, <4>1
      <4> QED  BY <2>2, <4>1, <4>2 DEF Runs
    <3> QED  BY <3>1, <3>2
  <2>4. g[0] = x
    BY <2>1, <2>2, <1>5 DEF Runs
  <2>5. Runs(turn, x, n, g)
    <3> DOMAIN g = 0..n
      OBVIOUS
    <3> HIDE DEF g
    <3> QED  BY <2>3, <2>4 DEF Runs
  <2> QED  BY <2>5
<1> QED  BY <1>4, <1>5

\* Looped is what the loop leaves after its last turn.
LEMMA LoopedRuns ==
  ASSUME NEW turn, NEW x, NEW N \in Nat
  PROVE  \E f : Runs(turn, x, N, f) /\ Looped(turn, x, N) = f[N]
<1> DEFINE Eq(f) == f = [k \in 0..N |-> IF k = 0 THEN x ELSE turn[k][f[k - 1]]]
           at == CHOOSE f : Eq(f)
<1>1. PICK f : Runs(turn, x, N, f)
  BY RunsEnd
<1>2. PICK g : g = [k \in 0..N |-> f[k]]
  OBVIOUS
<1>3. Eq(g)
  <2> DEFINE h == [k \in 0..N |-> IF k = 0 THEN x ELSE turn[k][g[k - 1]]]
  <2>1. ASSUME NEW k \in 0..N
        PROVE  g[k] = h[k]
    <3>1. CASE k = 0
      BY <1>1, <1>2, <3>1 DEF Runs
    <3>2. CASE k # 0
      <4>1. k \in 1..N /\ k - 1 \in 0..N
        BY <3>2
      <4>2. g[k] = f[k] /\ g[k - 1] = f[k - 1]
        BY <1>2, <4>1
      <4> QED  BY <1>1, <3>2, <4>1, <4>2 DEF Runs
    <3> QED  BY <3>1, <3>2
  <2> QED  BY <1>2, <2>1
<1>4. Eq(at)
  BY ZenonT(60), <1>3
<1>5. Looped(turn, x, N) = at[N]
  BY DEF Looped
<1> HIDE DEF at
<1>6. Runs(turn, x, N, at)
  <2>1. DOMAIN at = 0..N /\ at[0] = x
    BY <1>4
  <2>2. ASSUME NEW k \in 1..N
        PROVE  at[k] = turn[k][at[k - 1]]
    <3>1. k \in 0..N /\ k # 0
      OBVIOUS
    <3> QED  BY <1>4, <3>1
  <2> QED  BY <2>1, <2>2 DEF Runs
<1> QED  BY <1>5, <1>6

\* What holds before the first turn and is kept by every turn holds after the last; I
\* says of each turn what may be found after it.
LEMMA LoopKeeps ==
  ASSUME NEW turn, NEW x, NEW N \in Nat, NEW I,
         <<0, x>> \in I,
         \A k \in 1..N : \A s : <<k - 1, s>> \in I => <<k, turn[k][s]>> \in I
  PROVE  <<N, Looped(turn, x, N)>> \in I
<1>1. PICK f : Runs(turn, x, N, f) /\ Looped(turn, x, N) = f[N]
  BY LoopedRuns
<1> DEFINE bad == {n \in 0..N : <<n, f[n]>> \notin I}
<1>2. SUFFICES ASSUME bad # {}
               PROVE  FALSE
  <2>1. N \in 0..N
    OBVIOUS
  <2> QED  BY <1>1, <2>1
<1>3. PICK n \in bad : \A m \in bad : n <= m
  <2>1. bad \subseteq Nat
    OBVIOUS
  <2> HIDE DEF bad
  <2> QED  BY <1>2, <2>1, LeastOf
<1>4. n # 0
  BY <1>1 DEF Runs
<1>5. n \in 1..N /\ n - 1 \in 0..N /\ n - 1 \notin bad
  BY <1>3, <1>4
<1>6. <<n - 1, f[n - 1]>> \in I
  BY <1>5
<1>7. <<n, turn[n][f[n - 1]]>> \in I
  BY <1>5, <1>6
<1>8. f[n] = turn[n][f[n - 1]]
  BY <1>1, <1>5 DEF Runs
<1> QED  BY <1>7, <1>8

\* What a list with another behind it holds (seccompProgram, scrubReader).
LEMMA CatIs ==
  ASSUME NEW S, NEW s \in Seq(S), NEW t \in Seq(S)
  PROVE  /\ s \o t \in Seq(S) /\ Len(s \o t) = Len(s) + Len(t)
         /\ \A i \in 1..Len(s) : (s \o t)[i] = s[i]
         /\ \A i \in 1..Len(t) : (s \o t)[Len(s) + i] = t[i]
OBVIOUS

\* The names filepath.Clean leaves in a path.
PlainNames == STRING \ {NoName, ".", ".."}

\* A clean path has names only (filepath.Clean).
LEMMA CleanIs ==
  ASSUME NEW path \in Seq(STRING)
  PROVE  Clean(path) \in Seq(PlainNames)
<1>t. PICK turn : turn = [i \in 1..Len(path) |-> [out \in Seq(STRING) |-> Cleaned(out, path[i])]]
  OBVIOUS
<1>i. PICK I : I = (0..Len(path)) \X Seq(PlainNames)
  OBVIOUS
<1>1. Len(path) \in Nat /\ \A i \in 1..Len(path) : path[i] \in STRING
  OBVIOUS
<1>2. <<0, <<>> >> \in I
  <2>1. <<>> \in Seq(PlainNames) /\ 0 \in 0..Len(path)
    BY <1>1
  <2> QED  BY <2>1, <1>i
<1>3. ASSUME NEW i \in 1..Len(path), NEW out, <<i - 1, out>> \in I
      PROVE  <<i, turn[i][out]>> \in I
  <2>1. out \in Seq(PlainNames)
    BY <1>3, <1>i
  <2>2. out \in Seq(STRING)
    BY <2>1 DEF PlainNames
  <2>3. turn[i][out] = Cleaned(out, path[i])
    BY <1>t, <2>2
  <2>4. Cleaned(out, path[i]) \in Seq(PlainNames)
    <3>1. CASE path[i] \in {NoName, "."}
      BY <2>1, <3>1 DEF Cleaned
    <3>2. CASE path[i] \notin {NoName, "."} /\ path[i] # ".."
      <4>1. path[i] \in PlainNames
        BY <1>1, <3>2 DEF PlainNames
      <4>2. Cleaned(out, path[i]) = Append(out, path[i])
        BY <3>2 DEF Cleaned
      <4> QED  BY <2>1, <4>1, <4>2
    <3>3. CASE path[i] \notin {NoName, "."} /\ path[i] = ".."
      <4>1. Cleaned(out, path[i]) = IF out = <<>> THEN out ELSE Front(out)
        BY <3>3 DEF Cleaned
      <4>2. out # <<>> => Front(out) \in Seq(PlainNames)
        BY <2>1, FrontSound
      <4> QED  BY <2>1, <4>1, <4>2
    <3> QED  BY <3>1, <3>2, <3>3
  <2>5. i \in 0..Len(path)
    BY <1>1
  <2> QED  BY <1>i, <2>3, <2>4, <2>5
<1>4. \A i \in 1..Len(path) : \A out : <<i - 1, out>> \in I => <<i, turn[i][out]>> \in I
  BY <1>3
<1>5. <<Len(path), Looped(turn, <<>>, Len(path))>> \in I
  BY <1>1, <1>2, <1>4, LoopKeeps
<1>6. Clean(path) = Looped(turn, <<>>, Len(path))
  BY <1>t DEF Clean
<1> QED  BY <1>5, <1>6, <1>i

\* A path begins with another's names.
LEMMA PrefixIs ==
  ASSUME NEW S, NEW s \in Seq(S), NEW t \in Seq(S)
  PROVE  IsPrefix(s, t) <=> (Len(s) <= Len(t) /\ \A i \in 1..Len(s) : s[i] = t[i])
BY DEF IsPrefix

\* A loop of one turn more (every loop of the code, cut before its last turn).
LEMMA LoopedNext ==
  ASSUME NEW turn, NEW x, NEW n \in Nat
  PROVE  Looped(turn, x, n + 1) = turn[n + 1][Looped(turn, x, n)]
<1>1. PICK g : Runs(turn, x, n + 1, g) /\ Looped(turn, x, n + 1) = g[n + 1]
  BY LoopedRuns
<1>i. PICK I : I = {<<k, g[k]>> : k \in 0..n}
  OBVIOUS
<1>k. \A k, s : <<k, s>> \in I => k \in 0..n /\ s = g[k]
  BY <1>i
<1>j. \A k \in 0..n : <<k, g[k]>> \in I
  BY <1>i
<1>2. <<0, x>> \in I
  <2>1. g[0] = x /\ 0 \in 0..n
    BY <1>1 DEF Runs
  <2> QED  BY <1>j, <2>1
<1>3. ASSUME NEW k \in 1..n, NEW s, <<k - 1, s>> \in I
      PROVE  <<k, turn[k][s]>> \in I
  <2>1. s = g[k - 1] /\ k \in 0..n /\ k \in 1..(n + 1)
    BY <1>3, <1>k
  <2>2. g[k] = turn[k][g[k - 1]]
    BY <1>1, <2>1 DEF Runs
  <2> QED  BY <1>j, <2>1, <2>2
<1>4. <<n, Looped(turn, x, n)>> \in I
  <2>1. \A k \in 1..n : \A s : <<k - 1, s>> \in I => <<k, turn[k][s]>> \in I
    BY <1>3
  <2> QED  BY <1>2, <2>1, LoopKeeps
<1>5. Looped(turn, x, n) = g[n]
  BY <1>4, <1>k
<1>6. g[n + 1] = turn[n + 1][g[n]]
  <2>1. n + 1 \in 1..(n + 1) /\ (n + 1) - 1 = n
    OBVIOUS
  <2> QED  BY <1>1, <2>1 DEF Runs
<1> QED  BY <1>1, <1>5, <1>6

\* Loops whose turns are the same end the same.
LEMMA LoopedSame ==
  ASSUME NEW turn, NEW other, NEW x, NEW n \in Nat, \A k \in 1..n : turn[k] = other[k]
  PROVE  Looped(turn, x, n) = Looped(other, x, n)
<1>1. PICK g : Runs(other, x, n, g) /\ Looped(other, x, n) = g[n]
  BY LoopedRuns
<1>i. PICK I : I = {<<k, g[k]>> : k \in 0..n}
  OBVIOUS
<1>k. \A k, s : <<k, s>> \in I => k \in 0..n /\ s = g[k]
  BY <1>i
<1>j. \A k \in 0..n : <<k, g[k]>> \in I
  BY <1>i
<1>2. <<0, x>> \in I
  <2>1. g[0] = x /\ 0 \in 0..n
    BY <1>1 DEF Runs
  <2> QED  BY <1>j, <2>1
<1>3. ASSUME NEW k \in 1..n, NEW s, <<k - 1, s>> \in I
      PROVE  <<k, turn[k][s]>> \in I
  <2>1. s = g[k - 1] /\ k \in 0..n
    BY <1>3, <1>k
  <2>2. g[k] = other[k][g[k - 1]]
    BY <1>1 DEF Runs
  <2> QED  BY <1>j, <2>1, <2>2
<1>4. <<n, Looped(turn, x, n)>> \in I
  <2>1. \A k \in 1..n : \A s : <<k - 1, s>> \in I => <<k, turn[k][s]>> \in I
    BY <1>3
  <2> QED  BY <1>2, <2>1, LoopKeeps
<1> QED  BY <1>1, <1>4, <1>k

\* A loop over an empty list, and over a list with an element more.
LEMMA OverEmpty ==
  ASSUME NEW step, NEW x
  PROVE  OverList(step, x, <<>>) = x
<1>1. PICK t : t = [k \in 1..Len(<<>>) |-> step[<<>>[k]]]
  OBVIOUS
<1>2. PICK f : Runs(t, x, 0, f) /\ Looped(t, x, 0) = f[0]
  BY LoopedRuns
<1>3. OverList(step, x, <<>>) = Looped(t, x, 0)
  BY <1>1 DEF OverList
<1> QED  BY <1>2, <1>3 DEF Runs

LEMMA OverAppend ==
  ASSUME NEW step, NEW x, NEW S, NEW s \in Seq(S), NEW e \in S
  PROVE  OverList(step, x, Append(s, e)) = step[e][OverList(step, x, s)]
<1>n. PICK n \in Nat : n = Len(s)
  OBVIOUS
<1>a. PICK a : a = Append(s, e)
  OBVIOUS
<1>1. Len(a) = n + 1 /\ a[n + 1] = e /\ \A k \in 1..n : a[k] = s[k]
  BY <1>a, <1>n
<1>2. PICK t : t = [k \in 1..Len(a) |-> step[a[k]]]
  OBVIOUS
<1>3. PICK u : u = [k \in 1..Len(s) |-> step[s[k]]]
  OBVIOUS
<1>4. OverList(step, x, a) = Looped(t, x, n + 1) /\ OverList(step, x, s) = Looped(u, x, n)
  BY <1>1, <1>2, <1>3, <1>n DEF OverList
<1>5. \A k \in 1..n : t[k] = u[k]
  BY <1>1, <1>2, <1>3, <1>n
<1>6. t[n + 1] = step[e]
  BY <1>1, <1>2
<1>7. Looped(t, x, n) = Looped(u, x, n)
  BY <1>5, LoopedSame
<1>8. Looped(t, x, n + 1) = t[n + 1][Looped(t, x, n)]
  BY LoopedNext
<1> QED  BY <1>a, <1>4, <1>6, <1>7, <1>8

\* A loop over two lists one after the other.
LEMMA OverJoined ==
  ASSUME NEW step, NEW x, NEW S, NEW s \in Seq(S), NEW t \in Seq(S)
  PROVE  OverList(step, x, Joined(s, t)) = OverList(step, OverList(step, x, s), t)
<1>y. PICK y : y = OverList(step, x, s)
  OBVIOUS
<1>P. PICK P : P = {u \in Seq(S) : OverList(step, x, Joined(s, u)) = OverList(step, y, u)}
  OBVIOUS
<1>1. <<>> \in P
  <2>1. Joined(s, <<>>) = s
    BY JoinedEmpty
  <2>2. OverList(step, y, <<>>) = y
    BY OverEmpty
  <2> QED  BY <1>y, <1>P, <2>1, <2>2
<1>2. ASSUME NEW u \in P \cap Seq(S), NEW e \in S
      PROVE  Append(u, e) \in P
  <2>1. Joined(s, Append(u, e)) = Append(Joined(s, u), e)
    BY JoinedWith DEF With
  <2>2. Joined(s, u) \in Seq(S) /\ Append(u, e) \in Seq(S)
    BY JoinedSeq
  <2>3. OverList(step, x, Append(Joined(s, u), e)) = step[e][OverList(step, x, Joined(s, u))]
    BY <2>2, OverAppend
  <2>4. OverList(step, y, Append(u, e)) = step[e][OverList(step, y, u)]
    BY OverAppend
  <2>5. OverList(step, x, Joined(s, u)) = OverList(step, y, u)
    BY <1>P
  <2> QED  BY <1>P, <2>1, <2>2, <2>3, <2>4, <2>5
<1>3. Seq(S) \subseteq P
  <2>1. \A u \in P \cap Seq(S), e \in S : Append(u, e) \in P
    BY <1>2
  <2> QED  BY <1>1, <2>1, ListRule
<1> QED  BY <1>y, <1>P, <1>3

\* A loop over one element.
LEMMA OverOne ==
  ASSUME NEW step, NEW x, NEW S, NEW e \in S
  PROVE  OverList(step, x, <<e>>) = step[e][x]
<1>1. PICK none \in Seq(S) : none = <<>>
  <2>1. <<>> \in Seq(S)
    OBVIOUS
  <2> QED  BY <2>1
<1>2. Append(none, e) = <<e>>
  BY <1>1
<1>3. OverList(step, x, Append(none, e)) = step[e][OverList(step, x, none)]
  BY OverAppend
<1>4. OverList(step, x, none) = x
  BY <1>1, OverEmpty
<1> QED  BY <1>2, <1>3, <1>4

\* A list with an element more.
LEMMA AppendIs ==
  ASSUME NEW S, NEW s \in Seq(S), NEW e \in S, NEW n \in Nat, n = Len(s)
  PROVE  /\ Len(Append(s, e)) = n + 1
         /\ Append(s, e)[n + 1] = e
         /\ \A i \in 1..n : Append(s, e)[i] = s[i]
OBVIOUS

================================================================================
