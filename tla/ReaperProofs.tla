---------------------------- MODULE ReaperProofs ----------------------------
(***************************************************************************)
(* Theorems about Reaper, for every set of requests, of numbers and of     *)
(* commands that leave processes behind.                                   *)
(***************************************************************************)
EXTENDS Reaper, TLAPS

\* Every process is a command or what one left behind, and no process is both
\* (startAndRegister starts the one, the command the other).
LEMMA ProcsAre ==
  /\ \A c \in Cmds : Child(c) \in Procs /\ Child(c) \in Family(c)
  /\ \A c \in Forkers : Descendant(c) \in Procs /\ Descendant(c) \in Family(c) /\ c \in Cmds
  /\ \A p \in Procs : p[1] \in Cmds
       /\ (p = Child(p[1]) \/ (p[1] \in Forkers /\ p = Descendant(p[1])))
  /\ \A c, d : Child(c) = Child(d) => c = d
  /\ \A c, d : Descendant(c) = Descendant(d) => c = d
  /\ \A c, d : Child(c) # Descendant(d)
  /\ \A p \in Procs : p[2] = "child" <=> p = Child(p[1])
  /\ \A c \in Cmds, p \in Procs : p \in Family(c) <=> p[1] = c
  /\ \A c \in Cmds : Child(c)[1] = c
<1> USE ReaperAssumption DEF Procs, Child, Descendant, Family
<1>1. \A p \in Procs : p[1] \in Cmds
       /\ (p = Child(p[1]) \/ (p[1] \in Forkers /\ p = Descendant(p[1])))
  <2> TAKE p \in Procs
  <2>1. CASE p \in Cmds \X {"child"}
    <3>1. PICK c \in Cmds : p = <<c, "child">>
      BY <2>1
    <3>2. p[1] = c
      BY <3>1
    <3>3. p = Child(p[1])
      BY <3>1, <3>2

    <3> QED  BY <3>2, <3>3
  <2>2. CASE p \in Forkers \X {"descendant"}
    <3>1. PICK c \in Forkers : p = <<c, "descendant">>
      BY <2>2
    <3> QED  BY <3>1
  <2> QED  BY <2>1, <2>2
<1>2. /\ \A c, d : Child(c) = Child(d) => c = d
      /\ \A c, d : Descendant(c) = Descendant(d) => c = d
      /\ \A c, d : Child(c) # Descendant(d)
  OBVIOUS
<1>3. \A p \in Procs : p[2] = "child" <=> p = Child(p[1])
  BY <1>1
<1>4. \A c \in Cmds : Child(c) \in Procs /\ Child(c) \in Family(c) /\ Child(c)[1] = c
  OBVIOUS
<1>5. \A c \in Forkers : Descendant(c) \in Procs /\ Descendant(c) \in Family(c) /\ c \in Cmds
  OBVIOUS
<1>6. \A c \in Cmds, p \in Procs : p \in Family(c) <=> p[1] = c
  OBVIOUS
<1> QED  BY <1>1, <1>2, <1>3, <1>4, <1>5, <1>6

\* The state PID 1 starts in.
LEMMA ReaperInit == Init => TypeOK /\ Numbered /\ Started /\ Expected /\ OnlyOwnKilled
<1> SUFFICES ASSUME Init
             PROVE  TypeOK /\ Numbered /\ Started /\ Expected /\ OnlyOwnKilled
  OBVIOUS
<1> USE ProcsAre, ReaperAssumption
<1>1. TypeOK
  BY DEF Init, TypeOK
<1>2. Numbered
  BY DEF Init, Numbered, Exists
<1>3. Started
  BY DEF Init, Started
<1>4. Expected
  BY DEF Init, Expected, Exists
<1>5. OnlyOwnKilled
  BY DEF Init, OnlyOwnKilled
<1> QED  BY <1>1, <1>2, <1>3, <1>4, <1>5

\* No step breaks a type, and the mutex is held across the fork and the registration
\* (startAndRegister) and nowhere else in a request.
LEMMA TypeNext ==
  TypeOK /\ [Next]_vars => TypeOK'
<1> SUFFICES ASSUME TypeOK, [Next]_vars
             PROVE  TypeOK'
  OBVIOUS
<1> USE DEF kernel
<1> USE ReaperAssumption
<1>a. (\A c \in Cmds : Child(c) \in Procs) /\ (\A c \in Forkers : Descendant(c) \in Procs)
  BY ProcsAre
<1>1. ASSUME NEW c \in Cmds, Lock(c)
      PROVE  TypeOK'
  BY <1>1, <1>a DEF TypeOK, Lock, At
<1>2. ASSUME NEW c \in Cmds, StartChild(c)
      PROVE  TypeOK'
  BY <1>2, <1>a DEF TypeOK, Start, StartChild, At
<1>3. ASSUME NEW c \in Cmds, StartFails(c)
      PROVE  TypeOK'
  BY <1>3, <1>a DEF TypeOK, StartFails, At
<1>4. ASSUME NEW c \in Cmds, Register(c)
      PROVE  TypeOK'
  <2>1. \A d \in Cmds : mu' = d <=> pc'[d] \in {"forking", "registering"}
    BY <1>4 DEF TypeOK, Register, At
  <2>2. timer' \in [Cmds -> {"none", "armed", "firing", "fired", "stopped"}]
    BY <1>4 DEF TypeOK, Register
  <2>3. waiters' \in [Pids -> Cmds \cup {None}]
    BY <1>4 DEF TypeOK, Register
  <2> QED  BY <1>4, <2>1, <2>2, <2>3 DEF TypeOK, Register, At
<1>5. ASSUME NEW c \in Cmds, OutputEnds(c)
      PROVE  TypeOK'
  BY <1>5, <1>a DEF TypeOK, OutputEnds, At
<1>6. ASSUME NEW c \in Cmds, Take(c)
      PROVE  TypeOK'
  BY <1>6, <1>a DEF TypeOK, Take, At
<1>7. ASSUME NEW c \in Cmds, Forget(c)
      PROVE  TypeOK'
  BY <1>7, <1>a DEF TypeOK, Forget, At
<1>8. ASSUME NEW c \in Cmds, Timeout(c)
      PROVE  TypeOK'
  BY <1>8, <1>a DEF TypeOK, Timeout
<1>9. ASSUME NEW c \in Cmds, Kill(c)
      PROVE  TypeOK'
  <2>1. state' \in [Procs -> {"unborn", "running", "zombie", "gone"}] /\ chld' \in BOOLEAN
    BY <1>9 DEF TypeOK, Kill, Ends
  <2>2. victims' \in [Cmds -> SUBSET Procs]
    BY <1>9 DEF TypeOK, Kill, Killed
  <2> QED  BY <1>9, <2>1, <2>2 DEF TypeOK, Kill
<1>10. ASSUME NEW c \in Cmds, NEW own \in BOOLEAN, Fork(c, own)
      PROVE  TypeOK'
  BY <1>10, <1>a DEF TypeOK, Start, Fork
<1>11. ASSUME NEW p \in Procs, Exit(p)
      PROVE  TypeOK'
  BY <1>11, <1>a DEF TypeOK, Ends, Exit
<1>12. ASSUME NEW p \in Procs, AnyChildren(p)
      PROVE  TypeOK'
  BY <1>12, <1>a DEF TypeOK, AnyChildren
<1>13. CASE Wake
  <2>1. \A c \in Cmds : pc'[c] = pc[c] /\ pc[c] \notin {"forking", "registering"} /\ mu' # c
    BY <1>13, ReaperAssumption DEF TypeOK, Wake
  <2> QED  BY <1>13, <2>1 DEF TypeOK, Wake
<1>14. ASSUME NEW p \in Procs, Reap(p)
      PROVE  TypeOK'
  BY <1>14, <1>a DEF TypeOK, Reap
<1>15. CASE Drained
  BY <1>15, <1>a DEF TypeOK, Drained
<1>16. CASE Halt
  BY <1>16, <1>a DEF TypeOK, Halt
<1>17. CASE Off
  BY <1>17, <1>a DEF TypeOK, Ends, Off
<1>18. CASE UNCHANGED vars
  BY <1>18, <1>a DEF TypeOK, vars
<1> QED
  BY <1>1, <1>2, <1>3, <1>4, <1>5, <1>6, <1>7, <1>8, <1>9,
     <1>10, <1>11, <1>12, <1>13, <1>14, <1>15, <1>16, <1>17, <1>18
  DEF Next, Request, Drain

\* The kernel gives a number out when no process and no group has it, so two processes
\* that are there never share one (the fork of startAndRegister, and those of commands).
LEMMA NumberedNext ==
  TypeOK /\ Numbered /\ [Next]_vars => Numbered'
<1> SUFFICES ASSUME TypeOK, Numbered, [Next]_vars
             PROVE  Numbered'
  OBVIOUS
<1> USE DEF kernel
<1>a. ASSUME pid' = pid, group' = group,
             \A p \in Procs : (state'[p] = "unborn" <=> state[p] = "unborn")
                              /\ (Exists(p)' => Exists(p))
      PROVE  Numbered'
  <2>1. \A p \in Procs : state'[p] = "unborn" <=> pid'[p] = None
    BY <1>a DEF Numbered
  <2>2. \A p, q \in Procs : Exists(p)' /\ Exists(q)' /\ pid'[p] = pid'[q] => p = q
    BY <1>a DEF Numbered
  <2>3. \A c \in Cmds : group'[Child(c)] = pid'[Child(c)]
    BY <1>a DEF Numbered
  <2>4. \A c \in Forkers :
          /\ group'[Descendant(c)] \in {pid'[Descendant(c)], pid'[Child(c)]}
          /\ state'[Child(c)] = "unborn" => state'[Descendant(c)] = "unborn"
                                            /\ group'[Descendant(c)] = None
    BY <1>a, ProcsAre DEF Numbered
  <2> QED  BY <2>1, <2>2, <2>3, <2>4 DEF Numbered
<1>b. ASSUME NEW p \in Procs, NEW n \in Pids, NEW g \in Pids, Start(p, n, g)
      PROVE  /\ \A q \in Procs : state'[q] = "unborn" <=> pid'[q] = None
             /\ \A q, r \in Procs : Exists(q)' /\ Exists(r)' /\ pid'[q] = pid'[r] => q = r
             /\ \A q \in Procs : q # p => pid'[q] = pid[q] /\ group'[q] = group[q]
                                          /\ state'[q] = state[q]
             /\ pid'[p] = n /\ group'[p] = g /\ state[p] = "unborn" /\ state'[p] = "running"
  <2>1. /\ pid'[p] = n /\ group'[p] = g /\ state[p] = "unborn" /\ state'[p] = "running"
        /\ \A q \in Procs : q # p => pid'[q] = pid[q] /\ group'[q] = group[q]
                                     /\ state'[q] = state[q]
    BY <1>b DEF TypeOK, Start
  <2>2. \A q \in Procs : Exists(q) => pid[q] # n
    BY <1>b DEF Start, Free
  <2>3. \A q \in Procs : q # p => (Exists(q)' <=> Exists(q))
    BY <2>1 DEF Exists
  <2>4. \A q \in Procs : state'[q] = "unborn" <=> pid'[q] = None
    BY <2>1, ReaperAssumption DEF Numbered
  <2>5. ASSUME NEW q \in Procs, NEW r \in Procs, Exists(q)', Exists(r)', pid'[q] = pid'[r]
        PROVE  q = r
    BY <2>1, <2>2, <2>3, <2>5 DEF Numbered
  <2> QED  BY <2>1, <2>4, <2>5
<1>1. ASSUME NEW c \in Cmds, Lock(c)
      PROVE  Numbered'
  BY <1>1, <1>a DEF Exists, Lock, At
<1>2. ASSUME NEW c \in Cmds, StartChild(c)
      PROVE  Numbered'
  <2>1. PICK n \in Pids : Start(Child(c), n, n)
    BY <1>2 DEF StartChild
  <2>2. Child(c) \in Procs
    BY ProcsAre
  <2>3. /\ \A q \in Procs : state'[q] = "unborn" <=> pid'[q] = None
        /\ \A q, r \in Procs : Exists(q)' /\ Exists(r)' /\ pid'[q] = pid'[r] => q = r
        /\ \A q \in Procs : q # Child(c) => pid'[q] = pid[q] /\ group'[q] = group[q]
                                            /\ state'[q] = state[q]
        /\ pid'[Child(c)] = n /\ group'[Child(c)] = n /\ state[Child(c)] = "unborn"
        /\ state'[Child(c)] = "running"
    BY <1>b, <2>1, <2>2
  <2>4. \A d \in Cmds : group'[Child(d)] = pid'[Child(d)]
    BY <2>3, ProcsAre DEF Numbered
  <2>5. ASSUME NEW d \in Forkers
        PROVE  /\ group'[Descendant(d)] \in {pid'[Descendant(d)], pid'[Child(d)]}
               /\ state'[Child(d)] = "unborn" => state'[Descendant(d)] = "unborn"
                                                 /\ group'[Descendant(d)] = None
    <3>1. Descendant(d) \in Procs /\ Descendant(d) # Child(c) /\ Child(d) \in Procs
      BY ProcsAre
    <3>2. CASE d = c
      <4>1. group[Descendant(d)] = None /\ pid[Descendant(d)] = None
        BY <2>3, <3>1, <3>2 DEF Numbered
      <4> QED  BY <2>3, <3>1, <3>2, <4>1
    <3>3. CASE d # c
      <4>1. Child(d) # Child(c)
        BY <3>3, ProcsAre
      <4> QED  BY <2>3, <3>1, <4>1 DEF Numbered

    <3> QED  BY <3>2, <3>3
  <2> QED  BY <2>3, <2>4, <2>5 DEF Numbered
<1>3. ASSUME NEW c \in Cmds, StartFails(c)
      PROVE  Numbered'
  BY <1>3, <1>a DEF Exists, StartFails, At
<1>4. ASSUME NEW c \in Cmds, Register(c)
      PROVE  Numbered'
  BY <1>4, <1>a DEF Exists, Register, At
<1>5. ASSUME NEW c \in Cmds, OutputEnds(c)
      PROVE  Numbered'
  BY <1>5, <1>a DEF Exists, OutputEnds, At
<1>6. ASSUME NEW c \in Cmds, Take(c)
      PROVE  Numbered'
  BY <1>6, <1>a DEF Exists, Take, At
<1>7. ASSUME NEW c \in Cmds, Forget(c)
      PROVE  Numbered'
  BY <1>7, <1>a DEF Exists, Forget, At
<1>8. ASSUME NEW c \in Cmds, Timeout(c)
      PROVE  Numbered'
  BY <1>8, <1>a DEF Exists, Timeout
<1>9. ASSUME NEW c \in Cmds, Kill(c)
      PROVE  Numbered'
  BY <1>9, <1>a DEF TypeOK, Exists, Ends, Killed, Kill
<1>10. ASSUME NEW c \in Cmds, NEW own \in BOOLEAN, Fork(c, own)
      PROVE  Numbered'
  <2>1. PICK n \in Pids : Start(Descendant(c), n, IF own THEN n ELSE group[Child(c)])
    BY <1>10 DEF Fork
  <2>2. c \in Forkers /\ Descendant(c) \in Procs /\ Child(c) \in Procs
        /\ state[Child(c)] = "running"
    BY <1>10, ProcsAre DEF Fork
  <2>3. group[Child(c)] \in Pids /\ group[Child(c)] = pid[Child(c)]
    BY <2>2 DEF TypeOK, Numbered
  <2> DEFINE g == IF own THEN n ELSE group[Child(c)]
  <2>4. /\ \A q \in Procs : state'[q] = "unborn" <=> pid'[q] = None
        /\ \A q, r \in Procs : Exists(q)' /\ Exists(r)' /\ pid'[q] = pid'[r] => q = r
        /\ \A q \in Procs : q # Descendant(c) => pid'[q] = pid[q] /\ group'[q] = group[q]
                                                 /\ state'[q] = state[q]
        /\ pid'[Descendant(c)] = n /\ group'[Descendant(c)] = g
    <3>1. PICK h \in Pids : h = g
      BY <2>3
    <3>2. Start(Descendant(c), n, h)
      BY <2>1, <3>1
    <3> QED  BY <1>b, <2>2, <3>1, <3>2
  <2>5. \A d \in Cmds : group'[Child(d)] = pid'[Child(d)]
    BY <2>4, ProcsAre DEF Numbered
  <2>6. ASSUME NEW d \in Forkers
        PROVE  /\ group'[Descendant(d)] \in {pid'[Descendant(d)], pid'[Child(d)]}
               /\ state'[Child(d)] = "unborn" => state'[Descendant(d)] = "unborn"
                                                 /\ group'[Descendant(d)] = None
    <3>1. Descendant(d) \in Procs /\ Child(d) # Descendant(c) /\ Child(d) \in Procs
      BY ProcsAre
    <3>2. CASE d = c
      BY <2>2, <2>3, <2>4, <3>1, <3>2
    <3>3. CASE d # c
      <4>1. Descendant(d) # Descendant(c)
        BY <3>3, ProcsAre
      <4> QED  BY <2>4, <3>1, <4>1 DEF Numbered

    <3> QED  BY <3>2, <3>3
  <2> QED  BY <2>4, <2>5, <2>6 DEF Numbered
<1>11. ASSUME NEW p \in Procs, Exit(p)
      PROVE  Numbered'
  BY <1>11, <1>a DEF TypeOK, Exists, Ends, Exit
<1>12. ASSUME NEW p \in Procs, AnyChildren(p)
      PROVE  Numbered'
  BY <1>12, <1>a DEF TypeOK, Exists, Zombies, AnyChildren
<1>13. CASE Wake
  BY <1>13, <1>a DEF Exists, Wake
<1>14. ASSUME NEW p \in Procs, Reap(p)
      PROVE  Numbered'
  BY <1>14, <1>a DEF TypeOK, Exists, Zombies, Reap
<1>15. CASE Drained
  BY <1>15, <1>a DEF Exists, Drained
<1>16. CASE Halt
  BY <1>16, <1>a DEF Exists, Halt
<1>17. CASE Off
  BY <1>17, <1>a DEF TypeOK, Exists, Ends, Off
<1>18. CASE UNCHANGED vars
  BY <1>18, <1>a DEF Exists, vars
<1> QED
  BY <1>1, <1>2, <1>3, <1>4, <1>5, <1>6, <1>7, <1>8, <1>9,
     <1>10, <1>11, <1>12, <1>13, <1>14, <1>15, <1>16, <1>17, <1>18
  DEF Next, Request, Drain

\* A process that was started keeps its number and stays started, so a number that was
\* a command's own was so before.
LEMMA NumbersStay ==
  ASSUME TypeOK, Numbered, [Next]_vars
  PROVE  /\ \A p \in Procs : state[p] # "unborn" => pid'[p] = pid[p] /\ state'[p] # "unborn"
         /\ \A c \in Cmds : state[Child(c)] # "unborn" /\ Unique(c)' => Unique(c)
<1> USE DEF kernel
<1>1. ASSUME NEW p \in Procs, state[p] # "unborn"
      PROVE  pid'[p] = pid[p] /\ state'[p] # "unborn"
  <2>1. ASSUME NEW q \in Procs, NEW n, NEW g, Start(q, n, g)
        PROVE  pid'[p] = pid[p] /\ state'[p] # "unborn"
    BY <1>1, <2>1 DEF TypeOK, Start
  <2>2. ASSUME NEW c \in Cmds, StartChild(c) PROVE pid'[p] = pid[p] /\ state'[p] # "unborn"
    BY <2>1, <2>2, ProcsAre DEF StartChild
  <2>3. ASSUME NEW c \in Cmds, NEW own \in BOOLEAN, Fork(c, own)
        PROVE  pid'[p] = pid[p] /\ state'[p] # "unborn"
    <3>1. PICK n \in Pids : Start(Descendant(c), n, IF own THEN n ELSE group[Child(c)])
      BY <2>3 DEF Fork
    <3>2. PICK g : g = IF own THEN n ELSE group[Child(c)]
      OBVIOUS
    <3>3. Descendant(c) \in Procs
      BY <2>3, ProcsAre DEF Fork
    <3> QED  BY <2>1, <3>1, <3>2, <3>3
  <2>4. ASSUME NEW c \in Cmds, Lock(c) \/ StartFails(c) \/ Register(c) \/ OutputEnds(c)
                               \/ Take(c) \/ Forget(c) \/ Timeout(c)
        PROVE  pid'[p] = pid[p] /\ state'[p] # "unborn"
    BY <1>1, <2>4 DEF Lock, StartFails, Register, OutputEnds, Take, Forget, Timeout
  <2>5. ASSUME NEW c \in Cmds, Kill(c) PROVE pid'[p] = pid[p] /\ state'[p] # "unborn"
    BY <1>1, <2>5 DEF Kill, Ends
  <2>6. ASSUME NEW q \in Procs, Exit(q) \/ AnyChildren(q) \/ Reap(q)
        PROVE  pid'[p] = pid[p] /\ state'[p] # "unborn"
    BY <1>1, <2>6 DEF TypeOK, Exit, AnyChildren, Reap, Ends
  <2>7. CASE Wake \/ Drained \/ Halt \/ Off \/ UNCHANGED vars
    BY <1>1, <2>7 DEF Wake, Drained, Halt, Off, Ends, vars
  <2> QED  BY <2>2, <2>3, <2>4, <2>5, <2>6, <2>7 DEF Next, Request, Drain
<1>2. ASSUME NEW c \in Cmds, state[Child(c)] # "unborn", Unique(c)' PROVE Unique(c)
  <2>1. pid'[Child(c)] = pid[Child(c)] /\ pid[Child(c)] # None /\ Child(c) \in Procs
    BY <1>1, <1>2, ProcsAre DEF Numbered
  <2>2. ASSUME NEW p \in Procs \ {Child(c)} PROVE pid[p] # pid[Child(c)]
    <3>1. CASE state[p] = "unborn"
      BY <2>1, <3>1 DEF Numbered
    <3>2. CASE state[p] # "unborn"
      BY <1>1, <1>2, <2>1, <3>2 DEF Unique
    <3> QED  BY <3>1, <3>2
  <2> QED  BY <2>2 DEF Unique
<1> QED  BY <1>1, <1>2

\* A request knows its command by the time it waits for it, and no timer runs before
\* (start, startAndRegister).
LEMMA StartedNext ==
  TypeOK /\ Numbered /\ Started /\ [Next]_vars => Started'
<1> SUFFICES ASSUME TypeOK, Numbered, Started, [Next]_vars
             PROVE  Started'
  OBVIOUS
<1> USE DEF kernel
<1>a. \A c \in Cmds : Child(c) \in Procs
  BY ProcsAre
<1>b. \A c \in Cmds : state[Child(c)] # "unborn" => state'[Child(c)] # "unborn"
  BY <1>a, NumbersStay
<1>1. ASSUME NEW c \in Cmds, Lock(c)
      PROVE  Started'
  BY <1>1, <1>a, <1>b DEF TypeOK, Started, Lock, At
<1>2. ASSUME NEW c \in Cmds, StartChild(c)
      PROVE  Started'
  <2>1. state'[Child(c)] = "running" /\ \A d \in Cmds : d # c => state'[Child(d)] = state[Child(d)]
    BY <1>2, <1>a, ProcsAre DEF TypeOK, StartChild, Start
  <2>2. /\ pc'[c] = "registering" /\ timer' = timer /\ victims' = victims
        /\ \A d \in Cmds : d # c => pc'[d] = pc[d]
    BY <1>2 DEF TypeOK, StartChild, At
  <2> QED  BY <2>1, <2>2 DEF Started
<1>3. ASSUME NEW c \in Cmds, StartFails(c)
      PROVE  Started'
  BY <1>3, <1>a, <1>b DEF TypeOK, Started, StartFails, At
<1>4. ASSUME NEW c \in Cmds, Register(c)
      PROVE  Started'
  BY <1>4, <1>a, <1>b DEF TypeOK, Started, Register, At
<1>5. ASSUME NEW c \in Cmds, OutputEnds(c)
      PROVE  Started'
  BY <1>5, <1>a, <1>b DEF TypeOK, Started, OutputEnds, At
<1>6. ASSUME NEW c \in Cmds, Take(c)
      PROVE  Started'
  BY <1>6, <1>a, <1>b DEF TypeOK, Started, Take, At
<1>7. ASSUME NEW c \in Cmds, Forget(c)
      PROVE  Started'
  BY <1>7, <1>a, <1>b DEF TypeOK, Started, Forget, At
<1>8. ASSUME NEW c \in Cmds, Timeout(c)
      PROVE  Started'
  BY <1>8, <1>a, <1>b DEF TypeOK, Started, Timeout
<1>9. ASSUME NEW c \in Cmds, Kill(c)
      PROVE  Started'
  <2>1. state[Child(c)] # "unborn" /\ \A d \in Cmds : d # c => victims'[d] = victims[d]
    BY <1>9 DEF TypeOK, Started, Kill
  <2>2. \A d \in Cmds : state[Child(d)] = "unborn" => state'[Child(d)] = "unborn"
    BY <1>9, <1>a DEF TypeOK, Kill, Ends, Killed, Exists
  <2> QED  BY <1>9, <1>b, <2>1, <2>2 DEF TypeOK, Started, Kill
<1>10. ASSUME NEW c \in Cmds, NEW own \in BOOLEAN, Fork(c, own)
      PROVE  Started'
  <2>1. \A d \in Cmds : state'[Child(d)] = state[Child(d)]
    BY <1>10, <1>a, ProcsAre DEF TypeOK, Fork, Start
  <2> QED  BY <1>10, <2>1 DEF Started, Fork
<1>11. ASSUME NEW p \in Procs, Exit(p)
      PROVE  Started'
  BY <1>11, <1>a, <1>b DEF TypeOK, Started, Ends, Exit
<1>12. ASSUME NEW p \in Procs, AnyChildren(p)
      PROVE  Started'
  BY <1>12, <1>a, <1>b DEF TypeOK, Started, Zombies, AnyChildren
<1>13. CASE Wake
  BY <1>13, <1>a, <1>b DEF TypeOK, Started, Wake
<1>14. ASSUME NEW p \in Procs, Reap(p)
      PROVE  Started'
  BY <1>14, <1>a, <1>b DEF TypeOK, Started, Zombies, Reap
<1>15. CASE Drained
  BY <1>15, <1>a, <1>b DEF TypeOK, Started, Drained
<1>16. CASE Halt
  BY <1>16, <1>a, <1>b DEF TypeOK, Started, Halt
<1>17. CASE Off
  BY <1>17, <1>a, <1>b DEF TypeOK, Started, Ends, Exists, Off
<1>18. CASE UNCHANGED vars
  BY <1>18, <1>a, <1>b DEF TypeOK, Started, vars
<1> QED
  BY <1>1, <1>2, <1>3, <1>4, <1>5, <1>6, <1>7, <1>8, <1>9,
     <1>10, <1>11, <1>12, <1>13, <1>14, <1>15, <1>16, <1>17, <1>18
  DEF Next, Request, Drain

\* A timeout kills by number, and a number that is only its command's reaches only what
\* the command left in its group (killGroup).
LEMMA KilledNext ==
  TypeOK /\ Numbered /\ Started /\ OnlyOwnKilled /\ [Next]_vars => OnlyOwnKilled'
<1> SUFFICES ASSUME TypeOK, Numbered, Started, OnlyOwnKilled, [Next]_vars
             PROVE  OnlyOwnKilled'
  OBVIOUS
<1> USE DEF kernel
<1>a. ASSUME \A c \in Cmds : victims'[c] = victims[c]
      PROVE  OnlyOwnKilled'
  <2>1. ASSUME NEW c \in Cmds, Unique(c)' PROVE victims'[c] \subseteq Family(c)
    <3>1. CASE victims[c] = {}
      BY <1>a, <3>1
    <3>2. CASE victims[c] # {}
      BY <1>a, <2>1, <3>2, NumbersStay DEF Started, OnlyOwnKilled
    <3> QED  BY <3>1, <3>2
  <2> QED  BY <2>1 DEF OnlyOwnKilled
<1>1. ASSUME NEW c \in Cmds, Lock(c)
      PROVE  OnlyOwnKilled'
  BY <1>1, <1>a DEF Lock, At
<1>2. ASSUME NEW c \in Cmds, StartChild(c)
      PROVE  OnlyOwnKilled'
  BY <1>2, <1>a DEF StartChild, At
<1>3. ASSUME NEW c \in Cmds, StartFails(c)
      PROVE  OnlyOwnKilled'
  BY <1>3, <1>a DEF StartFails, At
<1>4. ASSUME NEW c \in Cmds, Register(c)
      PROVE  OnlyOwnKilled'
  BY <1>4, <1>a DEF Register, At
<1>5. ASSUME NEW c \in Cmds, OutputEnds(c)
      PROVE  OnlyOwnKilled'
  BY <1>5, <1>a DEF OutputEnds, At
<1>6. ASSUME NEW c \in Cmds, Take(c)
      PROVE  OnlyOwnKilled'
  BY <1>6, <1>a DEF Take, At
<1>7. ASSUME NEW c \in Cmds, Forget(c)
      PROVE  OnlyOwnKilled'
  BY <1>7, <1>a DEF Forget, At
<1>8. ASSUME NEW c \in Cmds, Timeout(c)
      PROVE  OnlyOwnKilled'
  BY <1>8, <1>a DEF Timeout
<1>9. ASSUME NEW c \in Cmds, Kill(c)
      PROVE  OnlyOwnKilled'
  <2>1. state[Child(c)] # "unborn" /\ \A d \in Cmds : d # c => victims'[d] = victims[d]
    BY <1>9 DEF TypeOK, Started, Kill
  <2>2. victims'[c] \subseteq Killed(c)
    BY <1>9 DEF TypeOK, Kill
  <2>3. ASSUME Unique(c), NEW p \in Killed(c) PROVE p \in Family(c)
    <3>1. p \in Procs /\ (group[p] = pid[Child(c)] \/ pid[p] = pid[Child(c)])
      BY <2>3 DEF Killed
    <3>2. CASE pid[p] = pid[Child(c)]
      BY <2>3, <3>1, <3>2, ProcsAre DEF Unique
    <3>3. CASE group[p] = pid[Child(c)]
      <4> DEFINE d == p[1]
      <4>1. d \in Cmds /\ group[p] \in {pid[p], pid[Child(d)]} /\ Child(d) \in Procs
        BY <3>1, ProcsAre DEF Numbered
      <4>2. CASE d = c
        BY <3>1, <4>2, ProcsAre
      <4>3. CASE d # c
        <5>1. p # Child(c) /\ Child(d) # Child(c)
          BY <4>3, ProcsAre
        <5> QED  BY <2>3, <3>1, <3>3, <4>1, <5>1 DEF Unique
      <4> QED  BY <4>2, <4>3
    <3> QED  BY <3>1, <3>2, <3>3
  <2>4. ASSUME NEW d \in Cmds, Unique(d)' PROVE victims'[d] \subseteq Family(d)
    <3>1. CASE d = c
      BY <2>1, <2>2, <2>3, <2>4, <3>1, NumbersStay
    <3>2. CASE d # c /\ victims[d] = {}
      BY <2>1, <3>2
    <3>3. CASE d # c /\ victims[d] # {}
      BY <2>1, <2>4, <3>3, NumbersStay DEF Started, OnlyOwnKilled
    <3> QED  BY <3>1, <3>2, <3>3
  <2> QED  BY <2>4 DEF OnlyOwnKilled
<1>10. ASSUME NEW c \in Cmds, NEW own \in BOOLEAN, Fork(c, own)
      PROVE  OnlyOwnKilled'
  BY <1>10, <1>a DEF Fork
<1>11. ASSUME NEW p \in Procs, Exit(p)
      PROVE  OnlyOwnKilled'
  BY <1>11, <1>a DEF Exit
<1>12. ASSUME NEW p \in Procs, AnyChildren(p)
      PROVE  OnlyOwnKilled'
  BY <1>12, <1>a DEF AnyChildren
<1>13. CASE Wake
  BY <1>13, <1>a DEF Wake
<1>14. ASSUME NEW p \in Procs, Reap(p)
      PROVE  OnlyOwnKilled'
  BY <1>14, <1>a DEF Reap
<1>15. CASE Drained
  BY <1>15, <1>a DEF Drained
<1>16. CASE Halt
  BY <1>16, <1>a DEF Halt
<1>17. CASE Off
  BY <1>17, <1>a DEF Off
<1>18. CASE UNCHANGED vars
  BY <1>18, <1>a DEF vars
<1> QED
  BY <1>1, <1>2, <1>3, <1>4, <1>5, <1>6, <1>7, <1>8, <1>9,
     <1>10, <1>11, <1>12, <1>13, <1>14, <1>15, <1>16, <1>17, <1>18
  DEF Next, Request, Drain

\* What Expected says of a number and of a request.
Waits(n) ==
  waiters[n] # None =>
    Exists(Child(waiters[n])) /\ pid[Child(waiters[n])] = n /\ pc[waiters[n]] # "registering"
Served(c) ==
  /\ pc[c] = "registering" => Exists(Child(c))
  /\ status[c] # None => status[c] = Child(c) /\ state[Child(c)] = "gone"
  /\ pc[c] = "forgetting" => status[c] # None
  /\ pc[c] = "done" /\ state[Child(c)] # "unborn" => status[c] # None
  /\ Exists(Child(c)) /\ Unique(c) /\ pc[c] # "registering" => waiters[pid[Child(c)]] = c
  /\ state[Child(c)] = "gone" /\ Unique(c) => status[c] # None

\* Expected, number by number and request by request, before a step and after it.
LEMMA ExpectedIs ==
  /\ Expected <=> (halting = "no" =>
       (\A n \in Pids : Waits(n)) /\ (\A c \in Cmds : Served(c)))
  /\ Expected' <=> (halting' = "no" =>
       (\A n \in Pids : Waits(n)') /\ (\A c \in Cmds : Served(c)'))
  BY DEF Expected, Waits, Served

\* A status goes to the request whose command it is and reaches it, while the reaper alone
\* waits: the number is registered before the reaper can see the command end, and
\* forgotten when it has (startAndRegister, deliverLocked, forget).
LEMMA ExpectedNext ==
  TypeOK /\ Numbered /\ Started /\ Expected /\ [Next]_vars => Expected'
<1> SUFFICES ASSUME TypeOK, Numbered, Started, Expected, [Next]_vars
             PROVE  Expected'
  OBVIOUS
<1> USE DEF kernel
<1>0. TypeOK' /\ (\A c \in Cmds : Child(c) \in Procs)
  BY TypeNext, ProcsAre
<1>a. ASSUME halting = "no", waiters' = waiters, status' = status, pid' = pid,
             \A p \in Procs : /\ Exists(p)' <=> Exists(p)
                              /\ state'[p] = "gone" <=> state[p] = "gone"
                              /\ state'[p] = "unborn" <=> state[p] = "unborn",
             \A c \in Cmds :
               /\ pc'[c] = "registering" <=> pc[c] = "registering"
               /\ pc'[c] = "forgetting" => status[c] # None
               /\ pc'[c] = "done" /\ state[Child(c)] # "unborn" => status[c] # None
      PROVE  Expected'
  <2>1. ASSUME NEW n \in Pids PROVE Waits(n)'
    <3>1. Waits(n)
      BY <1>a, ExpectedIs
    <3> QED  BY <1>a, <1>0, <3>1 DEF Waits, TypeOK
  <2>2. ASSUME NEW c \in Cmds PROVE Served(c)'
    <3>1. Served(c) /\ (Unique(c)' <=> Unique(c))
      BY <1>a, ExpectedIs DEF Unique
    <3> QED  BY <1>a, <1>0, <3>1 DEF Served
  <2> QED  BY <2>1, <2>2, ExpectedIs
<1>b. ASSUME halting = "no" PROVE (\A n \in Pids : Waits(n)) /\ (\A c \in Cmds : Served(c))
  BY <1>b, ExpectedIs
<1>c. ASSUME halting' # "no" PROVE Expected'
  BY <1>c, ExpectedIs
<1>d. halting' = "no" => halting = "no"
  <2>1. CASE halting = "no"
    BY <2>1
  <2>2. CASE halting # "no"
    <3>1. ASSUME NEW c \in Cmds, Lock(c) \/ Request(c) \/ Timeout(c) \/ Kill(c)
          PROVE  halting' = halting
      BY <3>1 DEF Lock, Request, StartChild, StartFails, Register, OutputEnds, Take, Forget,
           Timeout, Kill
    <3>2. ASSUME NEW c \in Cmds, NEW own \in BOOLEAN, Fork(c, own) PROVE halting' = halting
      BY <3>2 DEF Fork
    <3>3. ASSUME NEW p \in Procs, Exit(p) \/ AnyChildren(p) \/ Reap(p)
          PROVE  halting' = halting
      BY <3>3 DEF Exit, AnyChildren, Reap
    <3>4. Wake \/ Drained \/ Halt \/ Off \/ UNCHANGED vars => halting' \in {halting, "grace", "off"}
      BY DEF Wake, Drained, Halt, Off, vars
    <3> QED  BY <2>2, <3>1, <3>2, <3>3, <3>4 DEF Next, Drain
  <2> QED  BY <2>1, <2>2
<1>e. SUFFICES ASSUME halting = "no", halting' = "no" PROVE Expected'
  BY <1>c, <1>d
<1>f. ASSUME NEW c \in Cmds PROVE Served(c) /\ Child(c) \in Procs
  BY <1>b, <1>e, ProcsAre
<1>1. ASSUME NEW c \in Cmds, Lock(c)
      PROVE  Expected'
  BY <1>1, <1>a, <1>e, <1>f DEF TypeOK, Served, Exists, Lock, At
<1>2. ASSUME NEW c \in Cmds, StartChild(c)
      PROVE  Expected'
  <2>1. PICK n \in Pids : Start(Child(c), n, n)
    BY <1>2 DEF StartChild
  <2>2. Child(c) \in Procs /\ state[Child(c)] = "unborn" /\ state'[Child(c)] = "running"
        /\ \A q \in Procs : q # Child(c) => pid'[q] = pid[q] /\ state'[q] = state[q]
    BY <1>2, <2>1, ProcsAre DEF TypeOK, Start, Fork
  <2>3. waiters' = waiters /\ status' = status /\ pc'[c] = "registering"
        /\ \A d \in Cmds : d # c => pc'[d] = pc[d]
    BY <1>2 DEF TypeOK, StartChild, At
  <2>4. ASSUME NEW m \in Pids PROVE Waits(m)'
    <3>1. Waits(m) /\ (waiters[m] # None => waiters[m] \in Cmds)
      BY <1>b, <1>e DEF TypeOK
    <3>2. CASE waiters[m] # None
      <4>1. Exists(Child(waiters[m])) /\ Child(waiters[m]) \in Procs
        BY <3>1, <3>2, <1>0 DEF Waits
      <4>2. Child(waiters[m]) # Child(c) /\ waiters[m] # c
        BY <2>2, <4>1 DEF Exists
      <4> QED  BY <2>2, <2>3, <3>1, <4>1, <4>2 DEF Waits, Exists
    <3> QED  BY <2>3, <3>2 DEF Waits
  <2>5. ASSUME NEW d \in Cmds PROVE Served(d)'
    <3>1. CASE d = c
      BY <1>f, <2>2, <2>3, <3>1 DEF Served, Exists
    <3>2. CASE d # c
      <4>1. Child(d) # Child(c)
        BY <3>2, ProcsAre
      <4>2. pid'[Child(d)] = pid[Child(d)] /\ state'[Child(d)] = state[Child(d)]
        BY <1>f, <2>2, <4>1
      <4>3. Unique(d)' /\ state[Child(d)] # "unborn" => Unique(d)
        BY NumbersStay
      <4> QED  BY <1>f, <2>3, <3>2, <4>2, <4>3 DEF Served, Exists
    <3> QED  BY <3>1, <3>2
  <2> QED  BY <2>4, <2>5, ExpectedIs
<1>3. ASSUME NEW c \in Cmds, StartFails(c)
      PROVE  Expected'
  <2>1. state[Child(c)] = "unborn"
    BY <1>3 DEF Started, StartFails, At
  <2> QED  BY <1>3, <1>a, <1>e, <1>f, <2>1 DEF TypeOK, StartFails, At, Served, Exists
<1>4. ASSUME NEW c \in Cmds, Register(c)
      PROVE  Expected'
  <2>1. Exists(Child(c)) /\ pid[Child(c)] \in Pids
    <3>1. Exists(Child(c))
      BY <1>4, <1>f DEF Served, Register, At
    <3> QED  BY <1>f, <3>1 DEF Exists, Numbered, TypeOK
  <2>2. /\ waiters' = [waiters EXCEPT ![pid[Child(c)]] = c] /\ status' = status
        /\ pid' = pid /\ state' = state /\ pc[c] = "registering" /\ pc'[c] = "pumping"
        /\ \A d \in Cmds : d # c => pc'[d] = pc[d]
    BY <1>4 DEF TypeOK, Register, At
  <2>3. waiters'[pid[Child(c)]] = c /\ \A n \in Pids : n # pid[Child(c)] => waiters'[n] = waiters[n]
    BY <2>1, <2>2 DEF TypeOK
  <2>4. ASSUME NEW m \in Pids PROVE Waits(m)'
    <3>1. CASE m = pid[Child(c)]
      BY <2>1, <2>2, <2>3, <3>1 DEF Waits, Exists
    <3>2. CASE m # pid[Child(c)]
      <4>1. Waits(m) /\ waiters'[m] = waiters[m] /\ (waiters[m] # None => waiters[m] \in Cmds)
        BY <1>b, <1>e, <2>3, <3>2 DEF TypeOK
      <4> QED  BY <2>2, <4>1 DEF Waits, Exists
    <3> QED  BY <3>1, <3>2
  <2>5. ASSUME NEW d \in Cmds PROVE Served(d)'
    <3>0. Unique(d)' <=> Unique(d)
      BY <2>2 DEF Unique
    <3>1. CASE d = c
      BY <1>f, <2>2, <2>3, <3>0, <3>1 DEF Served, Exists
    <3>2. CASE d # c
      <4>1. Child(d) # Child(c) /\ Child(c) \in Procs /\ Child(d) \in Procs
        BY <3>2, ProcsAre
      <4>2. Unique(d) => pid[Child(d)] # pid[Child(c)]
        BY <4>1 DEF Unique
      <4>3. Exists(Child(d)) => pid[Child(d)] \in Pids
        BY <4>1 DEF Exists, Numbered, TypeOK
      <4> QED  BY <1>f, <2>2, <2>3, <3>0, <3>2, <4>2, <4>3 DEF Served, Exists
    <3> QED  BY <3>1, <3>2
  <2> QED  BY <2>4, <2>5, ExpectedIs
<1>5. ASSUME NEW c \in Cmds, OutputEnds(c)
      PROVE  Expected'
  BY <1>5, <1>a, <1>e, <1>f DEF TypeOK, Served, Exists, OutputEnds, At
<1>6. ASSUME NEW c \in Cmds, Take(c)
      PROVE  Expected'
  <2>1. status[c] # None
    BY <1>6 DEF Take
  <2> QED  BY <1>6, <1>a, <1>e, <1>f, <2>1 DEF TypeOK, Take, At, Served, Exists
<1>7. ASSUME NEW c \in Cmds, Forget(c)
      PROVE  Expected'
  <2>1. state[Child(c)] = "gone" /\ pid[Child(c)] \in Pids /\ status[c] # None
    <3>1. state[Child(c)] = "gone" /\ status[c] # None
      BY <1>7, <1>f DEF Served, Forget, At
    <3> QED  BY <1>f, <3>1 DEF Numbered, TypeOK
  <2>2. /\ waiters' = [waiters EXCEPT ![pid[Child(c)]] = None] /\ status' = status
        /\ pid' = pid /\ state' = state /\ pc[c] = "forgetting" /\ pc'[c] = "done"
        /\ \A d \in Cmds : d # c => pc'[d] = pc[d]
    BY <1>7 DEF TypeOK, Forget, At
  <2>3. waiters'[pid[Child(c)]] = None
        /\ \A n \in Pids : n # pid[Child(c)] => waiters'[n] = waiters[n]
    BY <2>1, <2>2 DEF TypeOK
  <2>4. ASSUME NEW m \in Pids PROVE Waits(m)'
    <3>1. CASE m = pid[Child(c)]
      BY <2>3, <3>1 DEF Waits
    <3>2. CASE m # pid[Child(c)]
      <4>1. Waits(m) /\ waiters'[m] = waiters[m] /\ (waiters[m] # None => waiters[m] \in Cmds)
        BY <1>b, <1>e, <2>3, <3>2 DEF TypeOK
      <4> QED  BY <2>2, <4>1 DEF Waits, Exists
    <3> QED  BY <3>1, <3>2
  <2>5. ASSUME NEW d \in Cmds PROVE Served(d)'
    <3>0. Unique(d)' <=> Unique(d)
      BY <2>2 DEF Unique
    <3>1. CASE d = c
      BY <1>f, <2>1, <2>2, <3>1 DEF Served, Exists
    <3>2. CASE d # c
      <4>1. Child(d) # Child(c) /\ Child(c) \in Procs /\ Child(d) \in Procs
        BY <3>2, ProcsAre
      <4>2. Unique(d) => pid[Child(d)] # pid[Child(c)]
        BY <4>1 DEF Unique
      <4>3. Exists(Child(d)) => pid[Child(d)] \in Pids
        BY <4>1 DEF Exists, Numbered, TypeOK
      <4> QED  BY <1>f, <2>2, <2>3, <3>0, <3>2, <4>2, <4>3 DEF Served, Exists
    <3> QED  BY <3>1, <3>2
  <2> QED  BY <2>4, <2>5, ExpectedIs
<1>8. ASSUME NEW c \in Cmds, Timeout(c)
      PROVE  Expected'
  BY <1>8, <1>a, <1>e, <1>f DEF TypeOK, Served, Exists, Timeout
<1>9. ASSUME NEW c \in Cmds, Kill(c)
      PROVE  Expected'
  <2>1. \A q \in Procs : /\ Exists(q)' <=> Exists(q)
                         /\ state'[q] = "gone" <=> state[q] = "gone"
                         /\ state'[q] = "unborn" <=> state[q] = "unborn"
    BY <1>9 DEF TypeOK, Kill, Ends, Killed, Exists
  <2> QED  BY <1>9, <1>a, <1>e, <1>f, <2>1 DEF Kill, Served
<1>10. ASSUME NEW c \in Cmds, NEW own \in BOOLEAN, Fork(c, own)
      PROVE  Expected'
  <2>2. /\ \A d \in Cmds : pid'[Child(d)] = pid[Child(d)] /\ state'[Child(d)] = state[Child(d)]
        /\ waiters' = waiters /\ status' = status /\ pc' = pc
    BY <1>10, <1>0, ProcsAre DEF TypeOK, Fork, Start
  <2>4. ASSUME NEW m \in Pids PROVE Waits(m)'
    <3>1. Waits(m) /\ (waiters[m] # None => waiters[m] \in Cmds)
      BY <1>b, <1>e DEF TypeOK
    <3> QED  BY <2>2, <3>1 DEF Waits, Exists
  <2>5. ASSUME NEW d \in Cmds PROVE Served(d)'
    <3>1. Unique(d)' /\ state[Child(d)] # "unborn" => Unique(d)
      BY NumbersStay
    <3> QED  BY <1>f, <2>2, <3>1 DEF Served, Exists
  <2> QED  BY <2>4, <2>5, ExpectedIs
<1>11. ASSUME NEW p \in Procs, Exit(p)
      PROVE  Expected'
  <2>1. \A q \in Procs : /\ Exists(q)' <=> Exists(q)
                         /\ state'[q] = "gone" <=> state[q] = "gone"
                         /\ state'[q] = "unborn" <=> state[q] = "unborn"
    BY <1>11 DEF TypeOK, Exit, Ends, Exists
  <2> QED  BY <1>11, <1>a, <1>e, <1>f, <2>1 DEF Exit, Served
<1>12. ASSUME NEW p \in Procs, AnyChildren(p)
      PROVE  Expected'
  BY <1>12, <1>e DEF AnyChildren
<1>13. CASE Wake
  BY <1>13, <1>a, <1>e, <1>f DEF TypeOK, Served, Exists, Wake
<1>14. ASSUME NEW p \in Procs, Reap(p)
      PROVE  Expected'
  <2>0. /\ p \in Procs /\ state[p] = "zombie" /\ Exists(p) /\ pid[p] \in Pids /\ mu = "reaper"
        /\ pid' = pid /\ pc' = pc
    <3>1. state[p] = "zombie" /\ mu = "reaper" /\ pid' = pid /\ pc' = pc
      BY <1>14 DEF Reap, Zombies
    <3> QED  BY <3>1 DEF Exists, Numbered, TypeOK
  <2>1. state'[p] = "gone" /\ \A q \in Procs : q # p => state'[q] = state[q]
    BY <1>14 DEF TypeOK, Reap
  <2>2. \A d \in Cmds : pc[d] # "registering"
    BY <2>0, ReaperAssumption DEF TypeOK
  <2>3. \A d \in Cmds : Unique(d)' <=> Unique(d)
    BY <2>0 DEF Unique
  <2> DEFINE c == waiters[pid[p]]
  <2>4. CASE c = None
    <3>1. waiters' = waiters /\ status' = status
      BY <1>14, <2>4 DEF Reap
    <3>2. ASSUME NEW m \in Pids PROVE Waits(m)'
      <4>1. Waits(m) /\ (waiters[m] # None => waiters[m] \in Cmds /\ Child(waiters[m]) \in Procs)
        BY <1>0, <1>b, <1>e DEF TypeOK
      <4>2. waiters[m] # None => Child(waiters[m]) # p
        BY <2>4, <4>1 DEF Waits
      <4> QED  BY <2>0, <2>1, <3>1, <4>1, <4>2 DEF Waits, Exists
    <3>3. ASSUME NEW d \in Cmds PROVE Served(d)'
      <4>1. CASE Child(d) = p
        <5>1. ~Unique(d)
          BY <1>f, <2>0, <2>2, <2>4, <4>1, ReaperAssumption DEF Served
        <5>2. status[d] = None
          BY <1>f, <2>0, <4>1 DEF Served
        <5>3. pc[d] # "forgetting" /\ pc[d] # "done"
          BY <1>f, <2>0, <4>1, <5>2 DEF Served
        <5> QED  BY <2>0, <2>1, <2>2, <2>3, <3>1, <4>1, <5>1, <5>2, <5>3 DEF Served, Exists
      <4>2. CASE Child(d) # p
        BY <1>f, <2>0, <2>1, <2>3, <3>1, <4>2 DEF Served, Exists
      <4> QED  BY <4>1, <4>2
    <3> QED  BY <3>2, <3>3, ExpectedIs
  <2>5. CASE c # None
    <3>1. c \in Cmds /\ Exists(Child(c)) /\ pid[Child(c)] = pid[p] /\ Child(c) \in Procs
      <4>1. c \in Cmds
        BY <2>0, <2>5 DEF TypeOK
      <4>2. Waits(pid[p])
        BY <1>b, <1>e, <2>0
      <4> QED  BY <1>0, <2>5, <4>1, <4>2 DEF Waits
    <3>2. Child(c) = p
      BY <2>0, <3>1 DEF Numbered
    <3>3. waiters' = [waiters EXCEPT ![pid[p]] = None] /\ status' = [status EXCEPT ![c] = p]
      BY <1>14, <2>5 DEF Reap
    <3>4. /\ waiters'[pid[p]] = None /\ status'[c] = p
          /\ \A m \in Pids : m # pid[p] => waiters'[m] = waiters[m]
          /\ \A d \in Cmds : d # c => status'[d] = status[d]
      BY <2>0, <3>1, <3>3 DEF TypeOK
    <3> HIDE DEF c
    <3>5. ASSUME NEW m \in Pids PROVE Waits(m)'
      <4>1. CASE m = pid[p]
        BY <3>4, <4>1 DEF Waits
      <4>2. CASE m # pid[p]
        <5>1. Waits(m) /\ waiters'[m] = waiters[m]
              /\ (waiters[m] # None => waiters[m] \in Cmds /\ Child(waiters[m]) \in Procs)
          BY <1>0, <1>b, <1>e, <3>4, <4>2 DEF TypeOK
        <5>2. waiters[m] # None => Child(waiters[m]) # p
          BY <4>2, <5>1 DEF Waits
        <5> QED  BY <2>0, <2>1, <5>1, <5>2 DEF Waits, Exists
      <4> QED  BY <4>1, <4>2
    <3>6. ASSUME NEW d \in Cmds PROVE Served(d)'
      <4>1. CASE d = c
        <5>1. p # None
          BY <2>0, ReaperAssumption DEF Procs
        <5> QED  BY <2>0, <2>1, <2>2, <3>2, <3>4, <4>1, <5>1 DEF Served, Exists
      <4>2. CASE d # c
        <5>1. Child(d) # p /\ Child(d) \in Procs
          BY <3>2, <4>2, ProcsAre
        <5>2. Unique(d) => pid[Child(d)] # pid[p]
          BY <2>0, <5>1 DEF Unique
        <5>3. Exists(Child(d)) => pid[Child(d)] \in Pids
          BY <5>1 DEF Exists, Numbered, TypeOK
        <5> QED  BY <1>f, <2>0, <2>1, <2>3, <3>4, <4>2, <5>1, <5>2, <5>3 DEF Served, Exists
      <4> QED  BY <4>1, <4>2
    <3> QED  BY <3>5, <3>6, ExpectedIs
  <2> QED  BY <2>4, <2>5
<1>15. CASE Drained
  BY <1>15, <1>a, <1>e, <1>f DEF TypeOK, Served, Exists, Drained
<1>16. CASE Halt
  BY <1>16, <1>e DEF Halt
<1>17. CASE Off
  BY <1>17, <1>e DEF Off
<1>18. CASE UNCHANGED vars
  BY <1>18, <1>a, <1>e, <1>f DEF vars, Served, Exists
<1> QED
  BY <1>1, <1>2, <1>3, <1>4, <1>5, <1>6, <1>7, <1>8, <1>9,
     <1>10, <1>11, <1>12, <1>13, <1>14, <1>15, <1>16, <1>17, <1>18
  DEF Next, Request, Drain

\* All of it together, in every state of the supervisor.
ReaperInductive == TypeOK /\ Numbered /\ Started /\ Expected /\ OnlyOwnKilled

\* It holds in every state the supervisor reaches.
LEMMA ReaperInductiveHolds == Spec => []ReaperInductive
<1>1. Init => ReaperInductive
  BY ReaperInit DEF ReaperInductive
<1>2. ReaperInductive /\ [Next]_vars => ReaperInductive'
  BY TypeNext, NumberedNext, StartedNext, KilledNext, ExpectedNext DEF ReaperInductive
<1> QED  BY <1>1, <1>2, PTL DEF Spec

\* Whatever the commands leave behind and whatever numbers come back: a request is given
\* the status of its own command, no status of a command whose number is its own is
\* dropped, and a timeout kills only what its command started (startAndRegister,
\* deliverLocked, killGroup).
THEOREM ReaperIsSafe == Spec => []ReaperSafe
<1>1. ReaperInductive => ReaperSafe
  BY DEF ReaperInductive, ReaperSafe, StatusIsOwn, NoStatusDropped, Expected
<1> QED  BY <1>1, ReaperInductiveHolds, PTL

====
