---------------------------- MODULE HostServerProofs ----------------------------
(***************************************************************************)
(* Theorems about HostServer and the TeamRig it runs, for every list of    *)
(* agents, every set of workers, of callers and of machines, and every     *)
(* limit.                                                                  *)
(***************************************************************************)
EXTENDS HostServer, ListProofs

--------------------------------------------------------------------------------
(* The rig                                                                      *)

\* Whatever happens to a team: its own goroutines, or the tool that raises or retires it.
RigNext == RigStep \/ Raise \/ RaiseRefused \/ Down

RigInv == /\ RigTypeOK /\ RosterGrows /\ Rostered /\ Retired
          /\ RosterSound /\ FileIsRoster /\ FileBooted /\ WorkFollowsMachine

\* The agents that answered, in declared order: what the roster gains when the boots
\* have returned (raiseTeam).
LEMMA CollectedIs ==
  ASSUME NEW up \in SUBSET Declared
  PROVE  /\ Kept(Agents, up) \in Seq(Members)
         /\ Range(Kept(Agents, up)) = up
         /\ IsInjective(Kept(Agents, up))
<1>1. Agents \in Seq(Members)
  <2>1. Agents \in Seq(Declared) /\ Declared \subseteq Members
    BY RigAssumption DEF Members
  <2> QED  BY <2>1
<1>2. Range(Agents) \cap up = up
  BY DEF Declared
<1>3. IsInjective(Agents)
  BY RigAssumption
<1>4. /\ Kept(Agents, up) \in Seq(Members)
      /\ Range(Kept(Agents, up)) = Range(Agents) \cap up
      /\ IsInjective(Agents) => IsInjective(Kept(Agents, up))
  BY <1>1, KeptSound
<1> QED  BY <1>2, <1>3, <1>4

\* The roster without one of its members (roster.remove).
LEMMA WithoutIs ==
  ASSUME listed \in Seq(Members), NEW m \in Members
  PROVE  /\ Without(m) \in Seq(Members)
         /\ Range(Without(m)) = Range(listed) \ {m}
         /\ IsInjective(listed) => IsInjective(Without(m))
<1>1. Range(listed) \subseteq Members
  BY DEF Range
<1>2. /\ Without(m) \in Seq(Members)
      /\ Range(Without(m)) = Range(listed) \cap (Members \ {m})
      /\ IsInjective(listed) => IsInjective(Without(m))
  BY KeptSound DEF Without
<1> QED  BY <1>1, <1>2

\* The roster when the boots have returned.
LEMMA CollectIs ==
  ASSUME RigInv, Collect
  PROVE  /\ listed' \in Seq(Members)
         /\ Range(listed') = Range(listed) \cup {a \in Declared : Up(a)}
         /\ Range(listed) \subseteq Workers
         /\ IsInjective(listed')
<1> PICK up \in SUBSET Declared : up = {a \in Declared : Up(a)}
  OBVIOUS
<1>1. /\ listed \in Seq(Members) /\ IsInjective(listed)
      /\ Range(listed) \subseteq Workers
  BY DEF RigInv, RosterGrows, RosterSound, Collect
<1>2. PICK k : k = Kept(Agents, up)
  OBVIOUS
<1>3. k \in Seq(Members) /\ Range(k) = up /\ IsInjective(k)
  BY <1>2, CollectedIs
<1>4. listed' = listed \o k
  BY <1>2 DEF Collect
<1>5. Range(listed) \cap Range(k) = {}
  BY <1>1, <1>3, RigAssumption
<1> QED  BY <1>1, <1>3, <1>4, <1>5, ConcatSound

\* How the roster changes when a member joins it, leaves it, or is about to be stopped.
LEMMA RosterIs ==
  ASSUME RigInv
  PROVE  /\ \A w \in Workers : Add(w) =>
              /\ listed' \in Seq(Members) /\ Range(listed') = Range(listed) \cup {w}
              /\ IsInjective(listed')
         /\ \A m \in Members : TimerFires(m) =>
              /\ listed' \in Seq(Members) /\ Range(listed') = Range(listed) \ {m}
              /\ IsInjective(listed')
         /\ StopNext =>
              /\ todo' \in Seq(Members) /\ Last(todo) \in Range(todo)
              /\ Range(todo) = Range(todo') \cup {Last(todo)}
<1>1. listed \in Seq(Members) /\ todo \in Seq(Members) /\ IsInjective(listed)
  BY DEF RigInv, RosterGrows, RosterSound
<1>2. ASSUME NEW w \in Workers, Add(w)
      PROVE  /\ listed' \in Seq(Members) /\ Range(listed') = Range(listed) \cup {w}
             /\ IsInjective(listed')
  <2>1. w \in Members /\ listed' = Append(listed, w) /\ w \notin Range(listed)
    BY <1>2 DEF Add, Members
  <2> QED  BY <1>1, <2>1, AppendSound
<1>3. ASSUME NEW m \in Members, TimerFires(m)
      PROVE  /\ listed' \in Seq(Members) /\ Range(listed') = Range(listed) \ {m}
             /\ IsInjective(listed')
  BY <1>1, <1>3, WithoutIs DEF TimerFires
<1>4. ASSUME StopNext
      PROVE  /\ todo' \in Seq(Members) /\ Last(todo) \in Range(todo)
             /\ Range(todo) = Range(todo') \cup {Last(todo)}
  BY <1>1, <1>4, FrontSound DEF StopNext
<1> QED  BY <1>2, <1>3, <1>4

\* No step of a team breaks a type.
LEMMA RigTypeNext ==
  RigInv /\ [RigNext]_rigVars => RigTypeOK'
<1> SUFFICES ASSUME RigInv, [RigNext]_rigVars
             PROVE  RigTypeOK'
  OBVIOUS
<1>r. RigTypeOK /\ RosterGrows
  BY DEF RigInv
<1>s. Range(listed) \subseteq Members /\ Range(todo) \subseteq Members /\ Declared \subseteq Members /\ Workers \subseteq Members
  BY <1>r DEF RigTypeOK, Members
<1> USE <1>r, <1>s, RigAssumption
<1>1. CASE Raise
  BY <1>1 DEF RigTypeOK, Raise
<1>2. CASE RaiseRefused
  BY <1>2 DEF RigTypeOK, RaiseRefused
<1>3. CASE Down
  BY <1>3 DEF RigTypeOK, Down
<1>4. CASE Collect
  BY <1>4, CollectIs DEF RigTypeOK, Collect
<1>5. CASE ConfirmFails
  BY <1>5 DEF RigTypeOK, ConfirmFails
<1>6. CASE Snapshot
  BY <1>6 DEF RigTypeOK, Snapshot
<1>7. CASE StopNext
  BY <1>7, RosterIs DEF RigTypeOK, StopNext
<1>8. CASE RemoveState
  BY <1>8 DEF RigTypeOK, RemoveState
<1>9. CASE EndRecord
  BY <1>9 DEF RigTypeOK, EndRecord
<1>10. CASE TemplateFails
  BY <1>10 DEF RigTypeOK, TemplateFails
<1>11. CASE StoreTemplate
  BY <1>11 DEF RigTypeOK, StoreTemplate
<1>12. CASE TemplateGone
  BY <1>12 DEF RigTypeOK, TemplateGone
<1>13. ASSUME NEW b \in BOOLEAN, NEW ok \in BOOLEAN, Publish(b, ok)
      PROVE  RigTypeOK'
  BY <1>13 DEF RigTypeOK, Publish, WriteState
<1>14. ASSUME NEW m \in Members, BootSucceeds(m)
      PROVE  RigTypeOK'
  BY <1>14 DEF RigTypeOK, BootSucceeds
<1>15. ASSUME NEW m \in Members, BootFails(m)
      PROVE  RigTypeOK'
  BY <1>15 DEF RigTypeOK, BootFails
<1>16. ASSUME NEW m \in Members, StopBegins(m)
      PROVE  RigTypeOK'
  BY <1>16 DEF RigTypeOK, StopBegins
<1>17. ASSUME NEW m \in Members, TimerFires(m)
      PROVE  RigTypeOK'
  BY <1>17, RosterIs DEF RigTypeOK, TimerFires
<1>18. ASSUME NEW m \in Members, NEW ok \in BOOLEAN, TimerWrites(m, ok)
      PROVE  RigTypeOK'
  BY <1>18 DEF RigTypeOK, TimerWrites, WriteState
<1>19. ASSUME NEW m \in Members, TimerQuits(m)
      PROVE  RigTypeOK'
  BY <1>19 DEF RigTypeOK, TimerQuits
<1>20. ASSUME NEW m \in Members, TimerDone(m)
      PROVE  RigTypeOK'
  BY <1>20 DEF RigTypeOK, TimerDone
<1>21. ASSUME NEW m \in Members, NEW ok \in BOOLEAN, StopEnds(m, ok)
      PROVE  RigTypeOK'
  BY <1>21 DEF RigTypeOK, StopEnds
<1>22. ASSUME NEW w \in Workers, Spawn(w)
      PROVE  RigTypeOK'
  BY <1>22 DEF RigTypeOK, Spawn
<1>23. ASSUME NEW w \in Workers, Add(w)
      PROVE  RigTypeOK'
  <2>1. Range(listed') \subseteq Members
    BY <1>23, RosterIs
  <2>2. /\ w \in Members /\ adding' \subseteq Workers
        /\ timer' \in [Members -> {"off", "adding", "armed", "removed", "stopping", "done"}]
    BY <1>23 DEF RigTypeOK, Add
  <2> QED  BY <1>23, <2>1, <2>2 DEF RigTypeOK, Add
<1>24. ASSUME NEW w \in Workers, NEW ok \in BOOLEAN, AddWrites(w, ok)
      PROVE  RigTypeOK'
  BY <1>24 DEF RigTypeOK, AddWrites, WriteState
<1>25. CASE UNCHANGED rigVars
  BY <1>25 DEF RigTypeOK, rigVars
<1> QED
  BY <1>1, <1>2, <1>3, <1>4, <1>5, <1>6, <1>7, <1>8, <1>9, <1>10, <1>11,
     <1>12, <1>13, <1>14, <1>15, <1>16, <1>17, <1>18, <1>19, <1>20, <1>21, <1>22,
     <1>23, <1>24, <1>25
  DEF RigNext, RigStep, RaiseSteps, DownSteps, MemberStep, WorkerStep, TemplateStep

\* The roster, the timers and the snapshot stay in step with where raiseTeam and
\* teardown have got to.
LEMMA RosterGrowsNext ==
  RigInv /\ [RigNext]_rigVars => RosterGrows'
<1> SUFFICES ASSUME RigInv, [RigNext]_rigVars
             PROVE  RosterGrows'
  OBVIOUS
<1> USE RigAssumption
<1>i. RigTypeOK /\ RosterGrows /\ Rostered /\ Retired /\ RosterSound /\ FileIsRoster /\ FileBooted /\ WorkFollowsMachine
  BY DEF RigInv
<1>s. Range(listed) \subseteq Members /\ Range(todo) \subseteq Members /\ Declared \subseteq Members /\ Workers \subseteq Members
  BY <1>i DEF RigTypeOK, Members
<1>1. CASE Raise
  BY <1>1, <1>i, <1>s DEF RigTypeOK, RosterGrows, Early, Up, Raise
<1>2. CASE RaiseRefused
  BY <1>2, <1>i, <1>s DEF RigTypeOK, RosterGrows, Early, Up, RaiseRefused
<1>3. CASE Down
  BY <1>3, <1>i, <1>s DEF RigTypeOK, RosterGrows, Early, Up, Down
<1>4. CASE Collect
  BY <1>4, <1>i, <1>s, CollectIs DEF RigTypeOK, RosterGrows, Early, Up, Collect
<1>5. CASE ConfirmFails
  BY <1>5, <1>i, <1>s DEF RigTypeOK, RosterGrows, Early, Up, ConfirmFails
<1>6. CASE Snapshot
  BY <1>6, <1>i, <1>s DEF RigTypeOK, RosterGrows, Early, Up, Snapshot
<1>7. CASE StopNext
  BY <1>7, <1>i, <1>s, RosterIs DEF RigTypeOK, RosterGrows, Early, Up, StopNext
<1>8. CASE RemoveState
  BY <1>8, <1>i, <1>s DEF RigTypeOK, RosterGrows, Early, Up, RemoveState
<1>9. CASE EndRecord
  BY <1>9, <1>i, <1>s DEF RigTypeOK, RosterGrows, Early, Up, EndRecord
<1>10. CASE TemplateFails
  BY <1>10, <1>i, <1>s DEF RigTypeOK, RosterGrows, Early, Up, TemplateFails
<1>11. CASE StoreTemplate
  BY <1>11, <1>i, <1>s DEF RigTypeOK, RosterGrows, Early, Up, StoreTemplate
<1>12. CASE TemplateGone
  BY <1>12, <1>i, <1>s DEF RigTypeOK, RosterGrows, Early, Up, TemplateGone
<1>13. ASSUME NEW b \in BOOLEAN, NEW ok \in BOOLEAN, Publish(b, ok)
      PROVE  RosterGrows'
  BY <1>13, <1>i, <1>s DEF RigTypeOK, RosterGrows, Early, Up, Publish, WriteState
<1>14. ASSUME NEW m \in Members, BootSucceeds(m)
      PROVE  RosterGrows'
  BY <1>14, <1>i, <1>s DEF RigTypeOK, RosterGrows, Early, Up, BootSucceeds
<1>15. ASSUME NEW m \in Members, BootFails(m)
      PROVE  RosterGrows'
  BY <1>15, <1>i, <1>s DEF RigTypeOK, RosterGrows, Early, Up, BootFails
<1>16. ASSUME NEW m \in Members, StopBegins(m)
      PROVE  RosterGrows'
  BY <1>16, <1>i, <1>s DEF RigTypeOK, RosterGrows, Early, Up, StopBegins
<1>17. ASSUME NEW m \in Members, TimerFires(m)
      PROVE  RosterGrows'
  <2>1. listed' \in Seq(Members) /\ Range(listed') \subseteq Range(listed)
    BY <1>17, RosterIs
  <2>2. \A a \in Members : timer'[a] # timer[a] => a = m /\ timer[m] = "armed"
    BY <1>17, <1>i DEF RigTypeOK, TimerFires
  <2>3. \A w \in adding : timer'[w] = "adding"
    BY <1>i, <1>s, <2>2 DEF RigTypeOK, RosterGrows
  <2>4. rig \in Early => \A a \in Declared : timer'[a] = "off"
    BY <1>i, <1>s, <2>2 DEF RosterGrows
  <2>5. UNCHANGED <<rig, cancelled, member, started, adding, todo>>
    BY <1>17 DEF TimerFires
  <2> QED  BY <1>i, <2>1, <2>3, <2>4, <2>5 DEF RosterGrows, Early
<1>18. ASSUME NEW m \in Members, NEW ok \in BOOLEAN, TimerWrites(m, ok)
      PROVE  RosterGrows'
  BY <1>18, <1>i, <1>s DEF RigTypeOK, RosterGrows, Early, Up, TimerWrites, WriteState
<1>19. ASSUME NEW m \in Members, TimerQuits(m)
      PROVE  RosterGrows'
  BY <1>19, <1>i, <1>s DEF RigTypeOK, RosterGrows, Early, Up, TimerQuits
<1>20. ASSUME NEW m \in Members, TimerDone(m)
      PROVE  RosterGrows'
  BY <1>20, <1>i, <1>s DEF RigTypeOK, RosterGrows, Early, Up, TimerDone
<1>21. ASSUME NEW m \in Members, NEW ok \in BOOLEAN, StopEnds(m, ok)
      PROVE  RosterGrows'
  BY <1>21, <1>i, <1>s DEF RigTypeOK, RosterGrows, Early, Up, StopEnds
<1>22. ASSUME NEW w \in Workers, Spawn(w)
      PROVE  RosterGrows'
  BY <1>22, <1>i, <1>s DEF RigTypeOK, RosterGrows, Early, Up, Spawn
<1>23. ASSUME NEW w \in Workers, Add(w)
      PROVE  RosterGrows'
  <2>1. listed' \in Seq(Members) /\ Range(listed') = Range(listed) \cup {w}
    BY <1>23, RosterIs
  <2>2. w \in Members /\ w \notin Declared
    BY <1>s
  <2>3. \A a \in Members : a # w => timer'[a] = timer[a]
    BY <1>23, <1>i DEF RigTypeOK, Add
  <2>4. \A v \in adding' : timer'[v] = "adding"
    <3>1. adding' \subseteq adding \cup {w} /\ (w \in adding => FALSE)
      BY <1>23, <1>i DEF RosterGrows, Add
    <3>2. w \in adding' => timer'[w] = "adding"
      BY <1>23, <1>i, <2>2, <3>1 DEF RigTypeOK, Add
    <3>3. adding \subseteq Members
      BY <1>i, <1>s DEF RigTypeOK
    <3> QED  BY <1>i, <2>3, <3>1, <3>2, <3>3 DEF RosterGrows
  <2>5. rig \in Early => \A a \in Declared : timer'[a] = "off"
    BY <1>i, <1>s, <2>2, <2>3 DEF RosterGrows
  <2>6. rig # "none"
    BY <1>23, <1>i, <2>2 DEF RosterGrows, Up, Add
  <2>7. UNCHANGED <<rig, cancelled, member, started, todo>>
    BY <1>23 DEF Add
  <2> QED  BY <1>i, <2>1, <2>4, <2>5, <2>6, <2>7 DEF RosterGrows, Early
<1>24. ASSUME NEW w \in Workers, NEW ok \in BOOLEAN, AddWrites(w, ok)
      PROVE  RosterGrows'
  BY <1>24, <1>i, <1>s DEF RigTypeOK, RosterGrows, Early, Up, AddWrites, WriteState
<1>25. CASE UNCHANGED rigVars
  BY <1>25, <1>i, <1>s DEF RigTypeOK, RosterGrows, Early, Up, rigVars
<1> QED
  BY <1>1, <1>2, <1>3, <1>4, <1>5, <1>6, <1>7, <1>8, <1>9, <1>10, <1>11,
     <1>12, <1>13, <1>14, <1>15, <1>16, <1>17, <1>18, <1>19, <1>20, <1>21, <1>22,
     <1>23, <1>24, <1>25
  DEF RigNext, RigStep, RaiseSteps, DownSteps, MemberStep, WorkerStep, TemplateStep

\* No machine of a team that is not coming down is off the roster, unless a timer took
\* it off (roster.remove, timer).
LEMMA RosteredNext ==
  RigInv /\ [RigNext]_rigVars => Rostered'
<1> SUFFICES ASSUME RigInv, [RigNext]_rigVars
             PROVE  Rostered'
  OBVIOUS
<1> USE RigAssumption
<1>i. RigTypeOK /\ RosterGrows /\ Rostered /\ Retired /\ RosterSound /\ FileIsRoster /\ FileBooted /\ WorkFollowsMachine
  BY DEF RigInv
<1>s. Range(listed) \subseteq Members /\ Range(todo) \subseteq Members /\ Declared \subseteq Members /\ Workers \subseteq Members
  BY <1>i DEF RigTypeOK, Members
<1>1. CASE Raise
  BY <1>1, <1>i, <1>s DEF RigTypeOK, RosterGrows, Rostered, Early, InTimer, CallsStop, Up, Raise
<1>2. CASE RaiseRefused
  BY <1>2, <1>i, <1>s DEF RigTypeOK, RosterGrows, Rostered, Early, InTimer, CallsStop, Up, RaiseRefused
<1>3. CASE Down
  BY <1>3, <1>i, <1>s DEF RigTypeOK, RosterGrows, Rostered, Early, InTimer, CallsStop, Up, Down
<1>4. CASE Collect
  BY <1>4, <1>i, <1>s, CollectIs DEF RigTypeOK, RosterGrows, Rostered, Early, InTimer, CallsStop, Up, Collect
<1>5. CASE ConfirmFails
  BY <1>5, <1>i, <1>s DEF RigTypeOK, RosterGrows, Rostered, Early, InTimer, CallsStop, Up, ConfirmFails
<1>6. CASE Snapshot
  BY <1>6, <1>i, <1>s DEF RigTypeOK, RosterGrows, Rostered, Early, InTimer, CallsStop, Up, Snapshot
<1>7. CASE StopNext
  BY <1>7, <1>i, <1>s, RosterIs DEF RigTypeOK, RosterGrows, Rostered, Early, InTimer, CallsStop, Up, StopNext
<1>8. CASE RemoveState
  BY <1>8, <1>i, <1>s DEF RigTypeOK, RosterGrows, Rostered, Early, InTimer, CallsStop, Up, RemoveState
<1>9. CASE EndRecord
  BY <1>9, <1>i, <1>s DEF RigTypeOK, RosterGrows, Rostered, Early, InTimer, CallsStop, Up, EndRecord
<1>10. CASE TemplateFails
  BY <1>10, <1>i, <1>s DEF RigTypeOK, RosterGrows, Rostered, Early, InTimer, CallsStop, Up, TemplateFails
<1>11. CASE StoreTemplate
  BY <1>11, <1>i, <1>s DEF RigTypeOK, RosterGrows, Rostered, Early, InTimer, CallsStop, Up, StoreTemplate
<1>12. CASE TemplateGone
  BY <1>12, <1>i, <1>s DEF RigTypeOK, RosterGrows, Rostered, Early, InTimer, CallsStop, Up, TemplateGone
<1>13. ASSUME NEW b \in BOOLEAN, NEW ok \in BOOLEAN, Publish(b, ok)
      PROVE  Rostered'
  BY <1>13, <1>i, <1>s DEF RigTypeOK, RosterGrows, Rostered, Early, InTimer, CallsStop, Up, Publish, WriteState
<1>14. ASSUME NEW m \in Members, BootSucceeds(m)
      PROVE  Rostered'
  BY <1>14, <1>i, <1>s DEF RigTypeOK, RosterGrows, Rostered, Early, InTimer, CallsStop, Up, BootSucceeds
<1>15. ASSUME NEW m \in Members, BootFails(m)
      PROVE  Rostered'
  BY <1>15, <1>i, <1>s DEF RigTypeOK, RosterGrows, Rostered, Early, InTimer, CallsStop, Up, BootFails
<1>16. ASSUME NEW m \in Members, StopBegins(m)
      PROVE  Rostered'
  BY <1>16, <1>i, <1>s DEF RigTypeOK, RosterGrows, Rostered, Early, InTimer, CallsStop, Up, StopBegins
<1>17. ASSUME NEW m \in Members, TimerFires(m)
      PROVE  Rostered'
  BY <1>17, <1>i, <1>s, RosterIs DEF RigTypeOK, RosterGrows, Rostered, Early, InTimer, CallsStop, Up, TimerFires
<1>18. ASSUME NEW m \in Members, NEW ok \in BOOLEAN, TimerWrites(m, ok)
      PROVE  Rostered'
  BY <1>18, <1>i, <1>s DEF RigTypeOK, RosterGrows, Rostered, Early, InTimer, CallsStop, Up, TimerWrites, WriteState
<1>19. ASSUME NEW m \in Members, TimerQuits(m)
      PROVE  Rostered'
  BY <1>19, <1>i, <1>s DEF RigTypeOK, RosterGrows, Rostered, Early, InTimer, CallsStop, Up, TimerQuits
<1>20. ASSUME NEW m \in Members, TimerDone(m)
      PROVE  Rostered'
  BY <1>20, <1>i, <1>s DEF RigTypeOK, RosterGrows, Rostered, Early, InTimer, CallsStop, Up, TimerDone
<1>21. ASSUME NEW m \in Members, NEW ok \in BOOLEAN, StopEnds(m, ok)
      PROVE  Rostered'
  BY <1>21, <1>i, <1>s DEF RigTypeOK, RosterGrows, Rostered, Early, InTimer, CallsStop, Up, StopEnds
<1>22. ASSUME NEW w \in Workers, Spawn(w)
      PROVE  Rostered'
  BY <1>22, <1>i, <1>s DEF RigTypeOK, RosterGrows, Rostered, Early, InTimer, CallsStop, Up, Spawn
<1>23. ASSUME NEW w \in Workers, Add(w)
      PROVE  Rostered'
  BY <1>23, <1>i, <1>s, RosterIs DEF RigTypeOK, RosterGrows, Rostered, Early, InTimer, CallsStop, Up, Add
<1>24. ASSUME NEW w \in Workers, NEW ok \in BOOLEAN, AddWrites(w, ok)
      PROVE  Rostered'
  BY <1>24, <1>i, <1>s DEF RigTypeOK, RosterGrows, Rostered, Early, InTimer, CallsStop, Up, AddWrites, WriteState
<1>25. CASE UNCHANGED rigVars
  BY <1>25, <1>i, <1>s DEF RigTypeOK, RosterGrows, Rostered, Early, InTimer, CallsStop, Up, rigVars
<1> QED
  BY <1>1, <1>2, <1>3, <1>4, <1>5, <1>6, <1>7, <1>8, <1>9, <1>10, <1>11,
     <1>12, <1>13, <1>14, <1>15, <1>16, <1>17, <1>18, <1>19, <1>20, <1>21, <1>22,
     <1>23, <1>24, <1>25
  DEF RigNext, RigStep, RaiseSteps, DownSteps, MemberStep, WorkerStep, TemplateStep

\* teardown passes over no machine that the roster named (teardown).
LEMMA RetiredNext ==
  RigInv /\ [RigNext]_rigVars => Retired'
<1> SUFFICES ASSUME RigInv, [RigNext]_rigVars
             PROVE  Retired'
  OBVIOUS
<1> USE RigAssumption
<1>i. RigTypeOK /\ RosterGrows /\ Rostered /\ Retired /\ RosterSound /\ FileIsRoster /\ FileBooted /\ WorkFollowsMachine
  BY DEF RigInv
<1>s. Range(listed) \subseteq Members /\ Range(todo) \subseteq Members /\ Declared \subseteq Members /\ Workers \subseteq Members
  BY <1>i DEF RigTypeOK, Members
<1>1. CASE Raise
  BY <1>1, <1>i, <1>s DEF RigTypeOK, RosterGrows, Rostered, Retired, RosterSound, Early, InTimer, CallsStop, Up, Raise
<1>2. CASE RaiseRefused
  BY <1>2, <1>i, <1>s DEF RigTypeOK, RosterGrows, Rostered, Retired, RosterSound, Early, InTimer, CallsStop, Up, RaiseRefused
<1>3. CASE Down
  BY <1>3, <1>i, <1>s DEF RigTypeOK, RosterGrows, Rostered, Retired, RosterSound, Early, InTimer, CallsStop, Up, Down
<1>4. CASE Collect
  BY <1>4, <1>i, <1>s, CollectIs DEF RigTypeOK, RosterGrows, Rostered, Retired, RosterSound, Early, InTimer, CallsStop, Up, Collect
<1>5. CASE ConfirmFails
  BY <1>5, <1>i, <1>s DEF RigTypeOK, RosterGrows, Rostered, Retired, RosterSound, Early, InTimer, CallsStop, Up, ConfirmFails
<1>6. CASE Snapshot
  <2>1. ASSUME NEW m \in Members, m \notin late'
        PROVE  \/ member[m] \in {"none", "failed", "stopped"} \/ InTimer(m)
               \/ m \in Range(listed)
    <3>1. CASE m \in Declared
      BY <1>6, <1>i, <2>1, <3>1 DEF RigTypeOK, RosterGrows, Rostered, Up, Snapshot
    <3>2. CASE m \in Workers
      BY <1>6, <1>i, <2>1, <3>2 DEF RigTypeOK, Rostered, Snapshot
    <3> QED  BY <3>1, <3>2 DEF Members
  <2>2. todo' = listed /\ rig' = "stopping" /\ member' = member /\ timer' = timer
    BY <1>6 DEF Snapshot
  <2> QED  BY <2>1, <2>2 DEF Retired, InTimer
<1>7. CASE StopNext
  BY <1>7, <1>i, <1>s, RosterIs DEF RigTypeOK, RosterGrows, Rostered, Retired, RosterSound, Early, InTimer, CallsStop, Up, StopNext
<1>8. CASE RemoveState
  BY <1>8, <1>i, <1>s DEF RigTypeOK, RosterGrows, Rostered, Retired, RosterSound, Early, InTimer, CallsStop, Up, RemoveState
<1>9. CASE EndRecord
  BY <1>9, <1>i, <1>s DEF RigTypeOK, RosterGrows, Rostered, Retired, RosterSound, Early, InTimer, CallsStop, Up, EndRecord
<1>10. CASE TemplateFails
  BY <1>10, <1>i, <1>s DEF RigTypeOK, RosterGrows, Rostered, Retired, RosterSound, Early, InTimer, CallsStop, Up, TemplateFails
<1>11. CASE StoreTemplate
  BY <1>11, <1>i, <1>s DEF RigTypeOK, RosterGrows, Rostered, Retired, RosterSound, Early, InTimer, CallsStop, Up, StoreTemplate
<1>12. CASE TemplateGone
  BY <1>12, <1>i, <1>s DEF RigTypeOK, RosterGrows, Rostered, Retired, RosterSound, Early, InTimer, CallsStop, Up, TemplateGone
<1>13. ASSUME NEW b \in BOOLEAN, NEW ok \in BOOLEAN, Publish(b, ok)
      PROVE  Retired'
  BY <1>13, <1>i, <1>s DEF RigTypeOK, RosterGrows, Rostered, Retired, RosterSound, Early, InTimer, CallsStop, Up, Publish, WriteState
<1>14. ASSUME NEW m \in Members, BootSucceeds(m)
      PROVE  Retired'
  BY <1>14, <1>i, <1>s DEF RigTypeOK, RosterGrows, Rostered, Retired, RosterSound, Early, InTimer, CallsStop, Up, BootSucceeds
<1>15. ASSUME NEW m \in Members, BootFails(m)
      PROVE  Retired'
  BY <1>15, <1>i, <1>s DEF RigTypeOK, RosterGrows, Rostered, Retired, RosterSound, Early, InTimer, CallsStop, Up, BootFails
<1>16. ASSUME NEW m \in Members, StopBegins(m)
      PROVE  Retired'
  BY <1>16, <1>i, <1>s DEF RigTypeOK, RosterGrows, Rostered, Retired, RosterSound, Early, InTimer, CallsStop, Up, StopBegins
<1>17. ASSUME NEW m \in Members, TimerFires(m)
      PROVE  Retired'
  BY <1>17, <1>i, <1>s, RosterIs DEF RigTypeOK, RosterGrows, Rostered, Retired, RosterSound, Early, InTimer, CallsStop, Up, TimerFires
<1>18. ASSUME NEW m \in Members, NEW ok \in BOOLEAN, TimerWrites(m, ok)
      PROVE  Retired'
  BY <1>18, <1>i, <1>s DEF RigTypeOK, RosterGrows, Rostered, Retired, RosterSound, Early, InTimer, CallsStop, Up, TimerWrites, WriteState
<1>19. ASSUME NEW m \in Members, TimerQuits(m)
      PROVE  Retired'
  BY <1>19, <1>i, <1>s DEF RigTypeOK, RosterGrows, Rostered, Retired, RosterSound, Early, InTimer, CallsStop, Up, TimerQuits
<1>20. ASSUME NEW m \in Members, TimerDone(m)
      PROVE  Retired'
  BY <1>20, <1>i, <1>s DEF RigTypeOK, RosterGrows, Rostered, Retired, RosterSound, Early, InTimer, CallsStop, Up, TimerDone
<1>21. ASSUME NEW m \in Members, NEW ok \in BOOLEAN, StopEnds(m, ok)
      PROVE  Retired'
  BY <1>21, <1>i, <1>s DEF RigTypeOK, RosterGrows, Rostered, Retired, RosterSound, Early, InTimer, CallsStop, Up, StopEnds
<1>22. ASSUME NEW w \in Workers, Spawn(w)
      PROVE  Retired'
  BY <1>22, <1>i, <1>s DEF RigTypeOK, RosterGrows, Rostered, Retired, RosterSound, Early, InTimer, CallsStop, Up, Spawn
<1>23. ASSUME NEW w \in Workers, Add(w)
      PROVE  Retired'
  BY <1>23, <1>i, <1>s, RosterIs DEF RigTypeOK, RosterGrows, Rostered, Retired, RosterSound, Early, InTimer, CallsStop, Up, Add
<1>24. ASSUME NEW w \in Workers, NEW ok \in BOOLEAN, AddWrites(w, ok)
      PROVE  Retired'
  BY <1>24, <1>i, <1>s DEF RigTypeOK, RosterGrows, Rostered, Retired, RosterSound, Early, InTimer, CallsStop, Up, AddWrites, WriteState
<1>25. CASE UNCHANGED rigVars
  BY <1>25, <1>i, <1>s DEF RigTypeOK, RosterGrows, Rostered, Retired, RosterSound, Early, InTimer, CallsStop, Up, rigVars
<1> QED
  BY <1>1, <1>2, <1>3, <1>4, <1>5, <1>6, <1>7, <1>8, <1>9, <1>10, <1>11,
     <1>12, <1>13, <1>14, <1>15, <1>16, <1>17, <1>18, <1>19, <1>20, <1>21, <1>22,
     <1>23, <1>24, <1>25
  DEF RigNext, RigStep, RaiseSteps, DownSteps, MemberStep, WorkerStep, TemplateStep

\* The roster names a member once, and only one that booted (roster.add, roster.remove).
LEMMA RosterSoundNext ==
  RigInv /\ [RigNext]_rigVars => RosterSound'
<1> SUFFICES ASSUME RigInv, [RigNext]_rigVars
             PROVE  RosterSound'
  OBVIOUS
<1> USE RigAssumption
<1>i. RigTypeOK /\ RosterGrows /\ Rostered /\ Retired /\ RosterSound /\ FileIsRoster /\ FileBooted /\ WorkFollowsMachine
  BY DEF RigInv
<1>s. Range(listed) \subseteq Members /\ Range(todo) \subseteq Members /\ Declared \subseteq Members /\ Workers \subseteq Members
  BY <1>i DEF RigTypeOK, Members
<1>1. CASE Raise
  BY <1>1, <1>i, <1>s DEF RigTypeOK, RosterGrows, RosterSound, Up, Raise
<1>2. CASE RaiseRefused
  BY <1>2, <1>i, <1>s DEF RigTypeOK, RosterGrows, RosterSound, Up, RaiseRefused
<1>3. CASE Down
  BY <1>3, <1>i, <1>s DEF RigTypeOK, RosterGrows, RosterSound, Up, Down
<1>4. CASE Collect
  BY <1>4, <1>i, <1>s, CollectIs DEF RigTypeOK, RosterGrows, RosterSound, Up, Collect
<1>5. CASE ConfirmFails
  BY <1>5, <1>i, <1>s DEF RigTypeOK, RosterGrows, RosterSound, Up, ConfirmFails
<1>6. CASE Snapshot
  BY <1>6, <1>i, <1>s DEF RigTypeOK, RosterGrows, RosterSound, Up, Snapshot
<1>7. CASE StopNext
  BY <1>7, <1>i, <1>s, RosterIs DEF RigTypeOK, RosterGrows, RosterSound, Up, StopNext
<1>8. CASE RemoveState
  BY <1>8, <1>i, <1>s DEF RigTypeOK, RosterGrows, RosterSound, Up, RemoveState
<1>9. CASE EndRecord
  BY <1>9, <1>i, <1>s DEF RigTypeOK, RosterGrows, RosterSound, Up, EndRecord
<1>10. CASE TemplateFails
  BY <1>10, <1>i, <1>s DEF RigTypeOK, RosterGrows, RosterSound, Up, TemplateFails
<1>11. CASE StoreTemplate
  BY <1>11, <1>i, <1>s DEF RigTypeOK, RosterGrows, RosterSound, Up, StoreTemplate
<1>12. CASE TemplateGone
  BY <1>12, <1>i, <1>s DEF RigTypeOK, RosterGrows, RosterSound, Up, TemplateGone
<1>13. ASSUME NEW b \in BOOLEAN, NEW ok \in BOOLEAN, Publish(b, ok)
      PROVE  RosterSound'
  BY <1>13, <1>i, <1>s DEF RigTypeOK, RosterGrows, RosterSound, Up, Publish, WriteState
<1>14. ASSUME NEW m \in Members, BootSucceeds(m)
      PROVE  RosterSound'
  BY <1>14, <1>i, <1>s DEF RigTypeOK, RosterGrows, RosterSound, Up, BootSucceeds
<1>15. ASSUME NEW m \in Members, BootFails(m)
      PROVE  RosterSound'
  BY <1>15, <1>i, <1>s DEF RigTypeOK, RosterGrows, RosterSound, Up, BootFails
<1>16. ASSUME NEW m \in Members, StopBegins(m)
      PROVE  RosterSound'
  BY <1>16, <1>i, <1>s DEF RigTypeOK, RosterGrows, RosterSound, Up, StopBegins
<1>17. ASSUME NEW m \in Members, TimerFires(m)
      PROVE  RosterSound'
  <2>1. Range(listed') \subseteq Range(listed) /\ IsInjective(listed') /\ member' = member
    BY <1>17, RosterIs DEF TimerFires
  <2> QED  BY <1>i, <2>1 DEF RosterSound
<1>18. ASSUME NEW m \in Members, NEW ok \in BOOLEAN, TimerWrites(m, ok)
      PROVE  RosterSound'
  BY <1>18, <1>i, <1>s DEF RigTypeOK, RosterGrows, RosterSound, Up, TimerWrites, WriteState
<1>19. ASSUME NEW m \in Members, TimerQuits(m)
      PROVE  RosterSound'
  BY <1>19, <1>i, <1>s DEF RigTypeOK, RosterGrows, RosterSound, Up, TimerQuits
<1>20. ASSUME NEW m \in Members, TimerDone(m)
      PROVE  RosterSound'
  BY <1>20, <1>i, <1>s DEF RigTypeOK, RosterGrows, RosterSound, Up, TimerDone
<1>21. ASSUME NEW m \in Members, NEW ok \in BOOLEAN, StopEnds(m, ok)
      PROVE  RosterSound'
  BY <1>21, <1>i, <1>s DEF RigTypeOK, RosterGrows, RosterSound, Up, StopEnds
<1>22. ASSUME NEW w \in Workers, Spawn(w)
      PROVE  RosterSound'
  BY <1>22, <1>i, <1>s DEF RigTypeOK, RosterGrows, RosterSound, Up, Spawn
<1>23. ASSUME NEW w \in Workers, Add(w)
      PROVE  RosterSound'
  BY <1>23, <1>i, <1>s, RosterIs DEF RigTypeOK, RosterGrows, RosterSound, Up, Add
<1>24. ASSUME NEW w \in Workers, NEW ok \in BOOLEAN, AddWrites(w, ok)
      PROVE  RosterSound'
  BY <1>24, <1>i, <1>s DEF RigTypeOK, RosterGrows, RosterSound, Up, AddWrites, WriteState
<1>25. CASE UNCHANGED rigVars
  BY <1>25, <1>i, <1>s DEF RigTypeOK, RosterGrows, RosterSound, Up, rigVars
<1> QED
  BY <1>1, <1>2, <1>3, <1>4, <1>5, <1>6, <1>7, <1>8, <1>9, <1>10, <1>11,
     <1>12, <1>13, <1>14, <1>15, <1>16, <1>17, <1>18, <1>19, <1>20, <1>21, <1>22,
     <1>23, <1>24, <1>25
  DEF RigNext, RigStep, RaiseSteps, DownSteps, MemberStep, WorkerStep, TemplateStep

\* What changes the roster of a published team has a write to come (roster.write).
LEMMA FileIsRosterNext ==
  RigInv /\ [RigNext]_rigVars => FileIsRoster'
<1> SUFFICES ASSUME RigInv, [RigNext]_rigVars
             PROVE  FileIsRoster'
  OBVIOUS
<1> USE RigAssumption
<1>i. RigTypeOK /\ RosterGrows /\ Rostered /\ Retired /\ RosterSound /\ FileIsRoster /\ FileBooted /\ WorkFollowsMachine
  BY DEF RigInv
<1>s. Range(listed) \subseteq Members /\ Range(todo) \subseteq Members /\ Declared \subseteq Members /\ Workers \subseteq Members
  BY <1>i DEF RigTypeOK, Members
<1>1. CASE Raise
  BY <1>1, <1>i, <1>s DEF RigTypeOK, RosterGrows, RosterSound, FileIsRoster, Quiet, Up, Early, Raise
<1>2. CASE RaiseRefused
  BY <1>2, <1>i, <1>s DEF RigTypeOK, RosterGrows, RosterSound, FileIsRoster, Quiet, Up, Early, RaiseRefused
<1>3. CASE Down
  BY <1>3, <1>i, <1>s DEF RigTypeOK, RosterGrows, RosterSound, FileIsRoster, Quiet, Up, Early, Down
<1>4. CASE Collect
  BY <1>4, <1>i, <1>s, CollectIs DEF RigTypeOK, RosterGrows, RosterSound, FileIsRoster, Quiet, Up, Early, Collect
<1>5. CASE ConfirmFails
  BY <1>5, <1>i, <1>s DEF RigTypeOK, RosterGrows, RosterSound, FileIsRoster, Quiet, Up, Early, ConfirmFails
<1>6. CASE Snapshot
  BY <1>6, <1>i, <1>s DEF RigTypeOK, RosterGrows, RosterSound, FileIsRoster, Quiet, Up, Early, Snapshot
<1>7. CASE StopNext
  BY <1>7, <1>i, <1>s, RosterIs DEF RigTypeOK, RosterGrows, RosterSound, FileIsRoster, Quiet, Up, Early, StopNext
<1>8. CASE RemoveState
  BY <1>8, <1>i, <1>s DEF RigTypeOK, RosterGrows, RosterSound, FileIsRoster, Quiet, Up, Early, RemoveState
<1>9. CASE EndRecord
  BY <1>9, <1>i, <1>s DEF RigTypeOK, RosterGrows, RosterSound, FileIsRoster, Quiet, Up, Early, EndRecord
<1>10. CASE TemplateFails
  BY <1>10, <1>i, <1>s DEF RigTypeOK, RosterGrows, RosterSound, FileIsRoster, Quiet, Up, Early, TemplateFails
<1>11. CASE StoreTemplate
  BY <1>11, <1>i, <1>s DEF RigTypeOK, RosterGrows, RosterSound, FileIsRoster, Quiet, Up, Early, StoreTemplate
<1>12. CASE TemplateGone
  BY <1>12, <1>i, <1>s DEF RigTypeOK, RosterGrows, RosterSound, FileIsRoster, Quiet, Up, Early, TemplateGone
<1>13. ASSUME NEW b \in BOOLEAN, NEW ok \in BOOLEAN, Publish(b, ok)
      PROVE  FileIsRoster'
  BY <1>13, <1>i, <1>s DEF RigTypeOK, RosterGrows, RosterSound, FileIsRoster, Quiet, Up, Early, Publish, WriteState
<1>14. ASSUME NEW m \in Members, BootSucceeds(m)
      PROVE  FileIsRoster'
  BY <1>14, <1>i, <1>s DEF RigTypeOK, RosterGrows, RosterSound, FileIsRoster, Quiet, Up, Early, BootSucceeds
<1>15. ASSUME NEW m \in Members, BootFails(m)
      PROVE  FileIsRoster'
  BY <1>15, <1>i, <1>s DEF RigTypeOK, RosterGrows, RosterSound, FileIsRoster, Quiet, Up, Early, BootFails
<1>16. ASSUME NEW m \in Members, StopBegins(m)
      PROVE  FileIsRoster'
  BY <1>16, <1>i, <1>s DEF RigTypeOK, RosterGrows, RosterSound, FileIsRoster, Quiet, Up, Early, StopBegins
<1>17. ASSUME NEW m \in Members, TimerFires(m)
      PROVE  FileIsRoster'
  BY <1>17, <1>i, <1>s, RosterIs DEF RigTypeOK, RosterGrows, RosterSound, FileIsRoster, Quiet, Up, Early, TimerFires
<1>18. ASSUME NEW m \in Members, NEW ok \in BOOLEAN, TimerWrites(m, ok)
      PROVE  FileIsRoster'
  BY <1>18, <1>i, <1>s DEF RigTypeOK, RosterGrows, RosterSound, FileIsRoster, Quiet, Up, Early, TimerWrites, WriteState
<1>19. ASSUME NEW m \in Members, TimerQuits(m)
      PROVE  FileIsRoster'
  BY <1>19, <1>i, <1>s DEF RigTypeOK, RosterGrows, RosterSound, FileIsRoster, Quiet, Up, Early, TimerQuits
<1>20. ASSUME NEW m \in Members, TimerDone(m)
      PROVE  FileIsRoster'
  BY <1>20, <1>i, <1>s DEF RigTypeOK, RosterGrows, RosterSound, FileIsRoster, Quiet, Up, Early, TimerDone
<1>21. ASSUME NEW m \in Members, NEW ok \in BOOLEAN, StopEnds(m, ok)
      PROVE  FileIsRoster'
  BY <1>21, <1>i, <1>s DEF RigTypeOK, RosterGrows, RosterSound, FileIsRoster, Quiet, Up, Early, StopEnds
<1>22. ASSUME NEW w \in Workers, Spawn(w)
      PROVE  FileIsRoster'
  BY <1>22, <1>i, <1>s DEF RigTypeOK, RosterGrows, RosterSound, FileIsRoster, Quiet, Up, Early, Spawn
<1>23. ASSUME NEW w \in Workers, Add(w)
      PROVE  FileIsRoster'
  BY <1>23, <1>i, <1>s, RosterIs DEF RigTypeOK, RosterGrows, RosterSound, FileIsRoster, Quiet, Up, Early, Add
<1>24. ASSUME NEW w \in Workers, NEW ok \in BOOLEAN, AddWrites(w, ok)
      PROVE  FileIsRoster'
  BY <1>24, <1>i, <1>s DEF RigTypeOK, RosterGrows, RosterSound, FileIsRoster, Quiet, Up, Early, AddWrites, WriteState
<1>25. CASE UNCHANGED rigVars
  BY <1>25, <1>i, <1>s DEF RigTypeOK, RosterGrows, RosterSound, FileIsRoster, Quiet, Up, Early, rigVars
<1> QED
  BY <1>1, <1>2, <1>3, <1>4, <1>5, <1>6, <1>7, <1>8, <1>9, <1>10, <1>11,
     <1>12, <1>13, <1>14, <1>15, <1>16, <1>17, <1>18, <1>19, <1>20, <1>21, <1>22,
     <1>23, <1>24, <1>25
  DEF RigNext, RigStep, RaiseSteps, DownSteps, MemberStep, WorkerStep, TemplateStep

\* The machines of a team once they have booted.
HasBooted(m) == member[m] \in {"up", "stopping", "stopped"}

\* Only a write that succeeds, of a roster, and teardown change the file, and a machine that
\* booted stays one that did (roster.write, agentRig.stop).
LEMMA FileBootedNext ==
  RigInv /\ [RigNext]_rigVars => FileBooted'
<1> SUFFICES ASSUME RigInv, [RigNext]_rigVars
             PROVE  FileBooted'
  OBVIOUS
<1> USE DEF RigNext, RigStep, RaiseSteps, DownSteps, MemberStep, WorkerStep, TemplateStep
<1>i. /\ RigTypeOK /\ RosterSound /\ FileBooted
      /\ rig = "none" => \A m \in Members : member[m] = "none"
      /\ Workers \subseteq Members /\ Range(listed) \subseteq Members
  BY DEF RigInv, RosterGrows, RigTypeOK, Members
<1>1. file' \in {file, NoFile, Range(listed)}
  <2>1. CASE RaiseSteps
    BY <2>1 DEF Collect, ConfirmFails, Publish, WriteState
  <2>2. CASE DownSteps \/ TemplateStep \/ Raise \/ RaiseRefused \/ Down
    BY <2>2 DEF Snapshot, StopNext, RemoveState, EndRecord, TemplateFails, StoreTemplate,
                TemplateGone, Raise, RaiseRefused, Down
  <2>3. ASSUME NEW m \in Members, MemberStep(m)
        PROVE  file' \in {file, NoFile, Range(listed)}
    BY <2>3 DEF BootSucceeds, BootFails, StopBegins, StopEnds, TimerFires, TimerWrites,
                TimerQuits, TimerDone, WriteState
  <2>4. ASSUME NEW w \in Workers, WorkerStep(w)
        PROVE  file' \in {file, NoFile, Range(listed)}
    BY <2>4 DEF Spawn, Add, AddWrites, WriteState
  <2> QED  BY <2>1, <2>2, <2>3, <2>4 DEF rigVars
<1>2. \A m \in Members : HasBooted(m) => HasBooted(m)'
  <2> SUFFICES ASSUME NEW n \in Members, HasBooted(n)
               PROVE  HasBooted(n)'
    OBVIOUS
  <2>1. CASE RaiseSteps
    BY <2>1 DEF Collect, ConfirmFails, Publish, HasBooted
  <2>2. CASE DownSteps \/ TemplateStep \/ Raise \/ RaiseRefused \/ Down
    BY <1>i, <2>2 DEF Snapshot, StopNext, RemoveState, EndRecord, TemplateFails, StoreTemplate,
                TemplateGone, Raise, RaiseRefused, Down, HasBooted
  <2>3. ASSUME NEW m \in Members, MemberStep(m)
        PROVE  HasBooted(n)'
    BY <1>i, <2>3 DEF RigTypeOK, BootSucceeds, BootFails, StopBegins, StopEnds, TimerFires,
                TimerWrites, TimerQuits, TimerDone, HasBooted
  <2>4. ASSUME NEW w \in Workers, WorkerStep(w)
        PROVE  HasBooted(n)'
    BY <1>i, <2>4 DEF RigTypeOK, Spawn, Add, AddWrites, HasBooted
  <2> QED  BY <2>1, <2>2, <2>3, <2>4 DEF rigVars, HasBooted
<1>3. file # NoFile => file \subseteq Members /\ \A m \in file : HasBooted(m)
  BY <1>i DEF RigTypeOK, FileBooted, HasBooted
<1>4. \A m \in Range(listed) : HasBooted(m)
  BY <1>i DEF RosterSound, HasBooted
<1>5. ASSUME file' # NoFile, NEW m \in file'
      PROVE  HasBooted(m)'
  <2>1. m \in Members /\ HasBooted(m)
    BY <1>1, <1>3, <1>4, <1>5, <1>i
  <2> QED  BY <1>2, <2>1
<1> QED  BY <1>5 DEF FileBooted, HasBooted

\* A workspace leaves its image with its machine, and is written back once
\* (agentRig.stop).
LEMMA WorkFollowsNext ==
  RigInv /\ [RigNext]_rigVars => WorkFollowsMachine'
<1> SUFFICES ASSUME RigInv, [RigNext]_rigVars
             PROVE  WorkFollowsMachine'
  OBVIOUS
<1> USE RigAssumption
<1>i. RigTypeOK /\ RosterGrows /\ Rostered /\ Retired /\ RosterSound /\ FileIsRoster /\ FileBooted /\ WorkFollowsMachine
  BY DEF RigInv
<1>s. Range(listed) \subseteq Members /\ Range(todo) \subseteq Members /\ Declared \subseteq Members /\ Workers \subseteq Members
  BY <1>i DEF RigTypeOK, Members
<1>1. CASE Raise
  BY <1>1, <1>i, <1>s DEF RigTypeOK, RosterGrows, WorkFollowsMachine, Up, Raise
<1>2. CASE RaiseRefused
  BY <1>2, <1>i, <1>s DEF RigTypeOK, RosterGrows, WorkFollowsMachine, Up, RaiseRefused
<1>3. CASE Down
  BY <1>3, <1>i, <1>s DEF RigTypeOK, RosterGrows, WorkFollowsMachine, Up, Down
<1>4. CASE Collect
  BY <1>4, <1>i, <1>s, CollectIs DEF RigTypeOK, RosterGrows, WorkFollowsMachine, Up, Collect
<1>5. CASE ConfirmFails
  BY <1>5, <1>i, <1>s DEF RigTypeOK, RosterGrows, WorkFollowsMachine, Up, ConfirmFails
<1>6. CASE Snapshot
  BY <1>6, <1>i, <1>s DEF RigTypeOK, RosterGrows, WorkFollowsMachine, Up, Snapshot
<1>7. CASE StopNext
  BY <1>7, <1>i, <1>s, RosterIs DEF RigTypeOK, RosterGrows, WorkFollowsMachine, Up, StopNext
<1>8. CASE RemoveState
  BY <1>8, <1>i, <1>s DEF RigTypeOK, RosterGrows, WorkFollowsMachine, Up, RemoveState
<1>9. CASE EndRecord
  BY <1>9, <1>i, <1>s DEF RigTypeOK, RosterGrows, WorkFollowsMachine, Up, EndRecord
<1>10. CASE TemplateFails
  BY <1>10, <1>i, <1>s DEF RigTypeOK, RosterGrows, WorkFollowsMachine, Up, TemplateFails
<1>11. CASE StoreTemplate
  BY <1>11, <1>i, <1>s DEF RigTypeOK, RosterGrows, WorkFollowsMachine, Up, StoreTemplate
<1>12. CASE TemplateGone
  BY <1>12, <1>i, <1>s DEF RigTypeOK, RosterGrows, WorkFollowsMachine, Up, TemplateGone
<1>13. ASSUME NEW b \in BOOLEAN, NEW ok \in BOOLEAN, Publish(b, ok)
      PROVE  WorkFollowsMachine'
  BY <1>13, <1>i, <1>s DEF RigTypeOK, RosterGrows, WorkFollowsMachine, Up, Publish, WriteState
<1>14. ASSUME NEW m \in Members, BootSucceeds(m)
      PROVE  WorkFollowsMachine'
  BY <1>14, <1>i, <1>s DEF RigTypeOK, RosterGrows, WorkFollowsMachine, Up, BootSucceeds
<1>15. ASSUME NEW m \in Members, BootFails(m)
      PROVE  WorkFollowsMachine'
  BY <1>15, <1>i, <1>s DEF RigTypeOK, RosterGrows, WorkFollowsMachine, Up, BootFails
<1>16. ASSUME NEW m \in Members, StopBegins(m)
      PROVE  WorkFollowsMachine'
  BY <1>16, <1>i, <1>s DEF RigTypeOK, RosterGrows, WorkFollowsMachine, Up, StopBegins
<1>17. ASSUME NEW m \in Members, TimerFires(m)
      PROVE  WorkFollowsMachine'
  BY <1>17, <1>i, <1>s, RosterIs DEF RigTypeOK, RosterGrows, WorkFollowsMachine, Up, TimerFires
<1>18. ASSUME NEW m \in Members, NEW ok \in BOOLEAN, TimerWrites(m, ok)
      PROVE  WorkFollowsMachine'
  BY <1>18, <1>i, <1>s DEF RigTypeOK, RosterGrows, WorkFollowsMachine, Up, TimerWrites, WriteState
<1>19. ASSUME NEW m \in Members, TimerQuits(m)
      PROVE  WorkFollowsMachine'
  BY <1>19, <1>i, <1>s DEF RigTypeOK, RosterGrows, WorkFollowsMachine, Up, TimerQuits
<1>20. ASSUME NEW m \in Members, TimerDone(m)
      PROVE  WorkFollowsMachine'
  BY <1>20, <1>i, <1>s DEF RigTypeOK, RosterGrows, WorkFollowsMachine, Up, TimerDone
<1>21. ASSUME NEW m \in Members, NEW ok \in BOOLEAN, StopEnds(m, ok)
      PROVE  WorkFollowsMachine'
  BY <1>21, <1>i, <1>s DEF RigTypeOK, RosterGrows, WorkFollowsMachine, Up, StopEnds
<1>22. ASSUME NEW w \in Workers, Spawn(w)
      PROVE  WorkFollowsMachine'
  BY <1>22, <1>i, <1>s DEF RigTypeOK, RosterGrows, WorkFollowsMachine, Up, Spawn
<1>23. ASSUME NEW w \in Workers, Add(w)
      PROVE  WorkFollowsMachine'
  BY <1>23, <1>i, <1>s, RosterIs DEF RigTypeOK, RosterGrows, WorkFollowsMachine, Up, Add
<1>24. ASSUME NEW w \in Workers, NEW ok \in BOOLEAN, AddWrites(w, ok)
      PROVE  WorkFollowsMachine'
  BY <1>24, <1>i, <1>s DEF RigTypeOK, RosterGrows, WorkFollowsMachine, Up, AddWrites, WriteState
<1>25. CASE UNCHANGED rigVars
  BY <1>25, <1>i, <1>s DEF RigTypeOK, RosterGrows, WorkFollowsMachine, Up, rigVars
<1> QED
  BY <1>1, <1>2, <1>3, <1>4, <1>5, <1>6, <1>7, <1>8, <1>9, <1>10, <1>11,
     <1>12, <1>13, <1>14, <1>15, <1>16, <1>17, <1>18, <1>19, <1>20, <1>21, <1>22,
     <1>23, <1>24, <1>25
  DEF RigNext, RigStep, RaiseSteps, DownSteps, MemberStep, WorkerStep, TemplateStep

\* A team not yet raised satisfies the inductive invariant.
LEMMA RigInitHolds ==
  RigInit => RigInv
<1> SUFFICES ASSUME RigInit
             PROVE  RigInv
  OBVIOUS
<1>1. Range(<<>>) = {} /\ IsInjective(<<>>) /\ <<>> \in Seq(Members)
  BY DEF Range, IsInjective
<1>2. Declared \subseteq Members /\ Workspaces \subseteq Members
  BY RigAssumption DEF Members
<1>3. RigTypeOK
  BY <1>1 DEF RigInit, RigTypeOK
<1>4. RosterGrows
  BY <1>1, <1>2 DEF RigInit, RosterGrows, Early
<1>5. Rostered /\ Retired
  BY <1>1, <1>2 DEF RigInit, Rostered, Retired, Up, InTimer
<1>6. RosterSound /\ FileIsRoster /\ FileBooted /\ WorkFollowsMachine
  BY <1>1, <1>2 DEF RigInit, RosterSound, FileIsRoster, FileBooted, WorkFollowsMachine
<1> QED  BY <1>3, <1>4, <1>5, <1>6 DEF RigInv

\* Every step of the team keeps the inductive invariant.
LEMMA RigNextHolds ==
  RigInv /\ [RigNext]_rigVars => RigInv'
BY RigTypeNext, RosterGrowsNext, RosteredNext, RetiredNext, RosterSoundNext,
   FileIsRosterNext, FileBootedNext, WorkFollowsNext DEF RigInv

\* When the team is down, teardown's snapshot is worked off, so that what Retired leaves
\* is what the team's own goroutines still hold (teardown).
LEMMA RigInvSafe ==
  RigInv => RigSafe
<1> SUFFICES ASSUME RigInv
             PROVE  RigSafe
  OBVIOUS
<1>1. rig = "down" => Range(todo) = {}
  BY DEF RigInv, RosterGrows, Range
<1>2. DownMeansStopped
  BY <1>1 DEF RigInv, Retired, DownMeansStopped
<1> QED  BY <1>2 DEF RigInv, RigSafe

--------------------------------------------------------------------------------
(* The server                                                                   *)

HostInv == /\ HostTypeOK /\ WithinMax /\ NoOrphan /\ Owned
           /\ InChain /\ CallsRecorded /\ Stages

\* A finite set has a subset of every size up to its own: there are as many new
\* identifiers as room has promised machines (NewID).
LEMMA SubsetOfSize ==
  ASSUME NEW U, IsFiniteSet(U), NEW n \in Nat, n <= Cardinality(U)
  PROVE  \E T \in SUBSET U : Cardinality(T) = n
<1> DEFINE bad == {k \in Nat : k <= Cardinality(U) /\ ~ \E T \in SUBSET U : Cardinality(T) = k}
<1>1. SUFFICES ASSUME bad # {}
               PROVE  FALSE
  OBVIOUS
<1>2. PICK k \in bad : \A m \in bad : k <= m
  <2> bad \subseteq Nat
    OBVIOUS
  <2> HIDE DEF bad
  <2> QED  BY <1>1, LeastOf
<1>3. Cardinality(U) \in Nat
  BY FS_CardinalityType
<1>4. CASE k = 0
  <2>1. {} \in SUBSET U /\ Cardinality({}) = 0
    BY FS_EmptySet
  <2> QED  BY <1>2, <1>4, <2>1
<1>5. CASE k # 0
  <2>1. k - 1 \in Nat /\ k - 1 <= Cardinality(U) /\ k - 1 \notin bad
    BY <1>2, <1>3, <1>5
  <2>2. PICK T \in SUBSET U : Cardinality(T) = k - 1
    BY <2>1
  <2>3. IsFiniteSet(T) /\ T # U
    BY <1>2, <1>3, <2>2, FS_Subset
  <2>4. PICK x \in U : x \notin T
    BY <2>3
  <2>4a. k \in Nat
    BY <1>2
  <2>5. Cardinality(T \cup {x}) = k
    <3>1. Cardinality(T \cup {x}) = Cardinality(T) + 1
      BY <2>3, <2>4, FS_AddElement
    <3> QED  BY <2>2, <2>4a, <3>1
  <2> QED  BY <1>2, <2>4, <2>5
<1> QED  BY <1>4, <1>5

\* The machines a call starts are new ones (NewID).
LEMMA FreshIs ==
  ASSUME NEW n \in Nat, n <= Cardinality(Unused)
  PROVE  Fresh(n) \subseteq Unused
<1>1. IsFiniteSet(Unused)
  BY HostAssumption, FS_Subset DEF Unused
<1>2. \E T \in SUBSET Unused : Cardinality(T) = n
  BY <1>1, SubsetOfSize
<1> QED  BY <1>2 DEF Fresh

\* The machines sandbox_run, sandbox_restore and sandbox_fork ask for.
LEMMA RoomIs ==
  ASSUME NEW c \in Callers, Room(c)
  PROVE  Fresh(Asked(c)) \subseteq Unused
<1>1. Asked(c) \in Nat
  BY HostAssumption DEF Asked
<1> QED  BY <1>1, FreshIs DEF Room

\* The callers, the machines, the server and nobody are different things.
LEMMA NamesAre ==
  /\ Server \notin Callers /\ Nobody \notin Callers /\ Nobody # Server
  /\ Boxes \cap Callers = {} /\ Server \notin Boxes /\ Nobody \notin Boxes
BY HostAssumption

\* No step of the server breaks a type.
LEMMA HostTypeNext ==
  HostInv /\ [Next]_vars => HostTypeOK'
<1> SUFFICES ASSUME HostInv, [Next]_vars
             PROVE  HostTypeOK'
  OBVIOUS
<1> USE NamesAre
<1>i. HostTypeOK /\ WithinMax /\ NoOrphan /\ Owned /\ InChain /\ CallsRecorded /\ Stages
  BY DEF HostInv
<1>n. Mixes \subseteq SUBSET Tools /\ \A t \in Tools : Needs(t) \subseteq Boxes \cup {Nobody}
  BY HostAssumption DEF Needs
<1>1. CASE RigStep /\ UNCHANGED hostVars
  BY <1>1, <1>i DEF HostTypeOK, hostVars
<1>2. ASSUME NEW c \in Callers, NEW t \in client, NEW b \in Needs(t), Admit(c, t, b)
      PROVE  HostTypeOK'
  <2>1. t \in Tools /\ b \in Boxes \cup {Nobody}
    BY <1>2, <1>n, <1>i DEF HostTypeOK
  <2> QED  BY <1>2, <1>i, <2>1 DEF HostTypeOK, Admit, Logs
<1>3. ASSUME NEW c \in Callers, Answer(c)
      PROVE  HostTypeOK'
  BY <1>3, <1>i DEF HostTypeOK, Answer, Logs
<1>4. ASSUME NEW c \in Callers, Refuse(c)
      PROVE  HostTypeOK'
  BY <1>4, <1>i DEF HostTypeOK, Refuse
<1>5. ASSUME NEW c \in Callers, Room(c)
      PROVE  HostTypeOK'
  <2>1. Fresh(Asked(c)) \subseteq Unused
    BY <1>5, RoomIs
  <2> QED  BY <1>5, <1>i, <2>1 DEF HostTypeOK, Room, Unused
<1>6. ASSUME NEW c \in Callers, AdoptsDone(c)
      PROVE  HostTypeOK'
  BY <1>6, <1>i DEF HostTypeOK, AdoptsDone
<1>7. ASSUME NEW c \in Callers, Find(c)
      PROVE  HostTypeOK'
  BY <1>7, <1>i DEF HostTypeOK, Find
<1>8. ASSUME NEW c \in Callers, UseReturns(c)
      PROVE  HostTypeOK'
  BY <1>8, <1>i DEF HostTypeOK, UseReturns
<1>9. ASSUME NEW c \in Callers, Abandon(c)
      PROVE  HostTypeOK'
  BY <1>9, <1>i DEF HostTypeOK, Abandon
<1>10. ASSUME NEW c \in Callers, StopTool(c)
      PROVE  HostTypeOK'
  BY <1>10, <1>i DEF HostTypeOK, StopTool
<1>11. ASSUME NEW c \in Callers, TakeTeam(c)
      PROVE  HostTypeOK'
  BY <1>11, <1>i DEF HostTypeOK, TakeTeam
<1>12. ASSUME NEW c \in Callers, TeamReturns(c)
      PROVE  HostTypeOK'
  BY <1>12, <1>i DEF HostTypeOK, TeamReturns
<1>13. ASSUME NEW c \in Callers, NEW b \in Boxes, Adopt(c, b)
      PROVE  HostTypeOK'
  BY <1>13, <1>i DEF HostTypeOK, Adopt
<1>14. ASSUME NEW c \in Callers, NEW b \in Boxes, AdoptRefused(c, b)
      PROVE  HostTypeOK'
  BY <1>14, <1>i DEF HostTypeOK, AdoptRefused
<1>15. ASSUME NEW c \in Callers \cup {Server}, TeamUp(c)
      PROVE  HostTypeOK'
  BY <1>15, <1>i DEF HostTypeOK, TeamUp, hostVars
<1>16. ASSUME NEW c \in Callers \cup {Server}, TeamDown(c)
      PROVE  HostTypeOK'
  BY <1>16, <1>i DEF HostTypeOK, TeamDown, hostVars
<1>17. ASSUME NEW b \in Boxes, BoxBoots(b)
      PROVE  HostTypeOK'
  BY <1>17, <1>i DEF HostTypeOK, BoxBoots
<1>18. ASSUME NEW b \in Boxes, BoxFails(b)
      PROVE  HostTypeOK'
  BY <1>18, <1>i DEF HostTypeOK, BoxFails
<1>19. ASSUME NEW b \in Boxes, Shut(b)
      PROVE  HostTypeOK'
  BY <1>19, <1>i DEF HostTypeOK, Shut
<1>20. ASSUME NEW b \in Boxes, WatchFires(b)
      PROVE  HostTypeOK'
  BY <1>20, <1>i DEF HostTypeOK, WatchFires
<1>21. ASSUME NEW b \in Boxes, WatchEnds(b)
      PROVE  HostTypeOK'
  BY <1>21, <1>i DEF HostTypeOK, WatchEnds
<1>22. ASSUME NEW b \in Boxes, WatchRemoves(b)
      PROVE  HostTypeOK'
  BY <1>22, <1>i DEF HostTypeOK, WatchRemoves
<1>23. ASSUME NEW b \in Boxes, RecBreaks(b)
      PROVE  HostTypeOK'
  BY <1>23, <1>i DEF HostTypeOK, RecBreaks
<1>24. ASSUME NEW b \in Boxes, NEW x \in Callers \cup Boxes \cup {Server}, CloseEnds(b, x)
      PROVE  HostTypeOK'
  BY <1>24, <1>i DEF HostTypeOK, CloseEnds, TakesRec
<1>25. CASE AuditBreaks
  BY <1>25, <1>i DEF HostTypeOK, AuditBreaks
<1>26. CASE Signal
  BY <1>26, <1>i DEF HostTypeOK, Signal
<1>27. CASE StopReading
  BY <1>27, <1>i DEF HostTypeOK, StopReading
<1>28. CASE Drained
  BY <1>28, <1>i DEF HostTypeOK, Drained
<1>29. CASE CloseBoxes
  BY <1>29, <1>i DEF HostTypeOK, CloseBoxes
<1>30. CASE CloseAudit
  BY <1>30, <1>i DEF HostTypeOK, CloseAudit
<1>31. CASE UNCHANGED vars
  BY <1>31, <1>i DEF HostTypeOK, vars, hostVars, rigVars
<1> QED
  BY <1>1, <1>2, <1>3, <1>4, <1>5, <1>6, <1>7, <1>8, <1>9, <1>10, <1>11,
     <1>12, <1>13, <1>14, <1>15, <1>16, <1>17, <1>18, <1>19, <1>20, <1>21, <1>22,
     <1>23, <1>24, <1>25, <1>26, <1>27, <1>28, <1>29, <1>30, <1>31
  DEF Next, CallStep, AdoptStep, TeamStep, BootStep, CloseStep, WatchStep, ServerStep

\* adopt tests the bound with the lock held, so that no number of calls that found room
\* can overfill the map (adopt).
LEMMA WithinMaxNext ==
  HostInv /\ [Next]_vars => WithinMax'
<1> SUFFICES ASSUME HostInv, [Next]_vars
             PROVE  WithinMax'
  OBVIOUS
<1> USE NamesAre
<1>i. HostTypeOK /\ WithinMax /\ NoOrphan /\ Owned /\ InChain /\ CallsRecorded /\ Stages
  BY DEF HostInv
<1>f. IsFiniteSet(boxes) /\ Cardinality(boxes) \in Nat /\ MaxBoxes \in Nat
  BY <1>i, HostAssumption, FS_Subset, FS_CardinalityType DEF HostTypeOK
<1>1. CASE RigStep /\ UNCHANGED hostVars
  BY <1>1, <1>i DEF HostTypeOK, WithinMax, hostVars
<1>2. ASSUME NEW c \in Callers, NEW t \in client, NEW b \in Needs(t), Admit(c, t, b)
      PROVE  WithinMax'
  BY <1>2, <1>i DEF HostTypeOK, WithinMax, Admit, Logs
<1>3. ASSUME NEW c \in Callers, Answer(c)
      PROVE  WithinMax'
  BY <1>3, <1>i DEF HostTypeOK, WithinMax, Answer, Logs
<1>4. ASSUME NEW c \in Callers, Refuse(c)
      PROVE  WithinMax'
  BY <1>4, <1>i DEF HostTypeOK, WithinMax, Refuse
<1>5. ASSUME NEW c \in Callers, Room(c)
      PROVE  WithinMax'
  <2>1. Fresh(Asked(c)) \subseteq Unused
    BY <1>5, RoomIs
  <2> QED  BY <1>5, <1>i, <2>1 DEF HostTypeOK, WithinMax, Room, Unused
<1>6. ASSUME NEW c \in Callers, AdoptsDone(c)
      PROVE  WithinMax'
  BY <1>6, <1>i DEF HostTypeOK, WithinMax, AdoptsDone
<1>7. ASSUME NEW c \in Callers, Find(c)
      PROVE  WithinMax'
  BY <1>7, <1>i DEF HostTypeOK, WithinMax, Find
<1>8. ASSUME NEW c \in Callers, UseReturns(c)
      PROVE  WithinMax'
  BY <1>8, <1>i DEF HostTypeOK, WithinMax, UseReturns
<1>9. ASSUME NEW c \in Callers, Abandon(c)
      PROVE  WithinMax'
  BY <1>9, <1>i DEF HostTypeOK, WithinMax, Abandon
<1>10. ASSUME NEW c \in Callers, StopTool(c)
      PROVE  WithinMax'
  <2>1. IsFiniteSet(boxes \ {arg[c]}) /\ Cardinality(boxes \ {arg[c]}) <= Cardinality(boxes)
    BY <1>f, FS_Subset
  <2>2. Cardinality(boxes \ {arg[c]}) \in Nat
    BY <2>1, FS_CardinalityType
  <2> QED  BY <1>10, <1>i, <1>f, <2>1, <2>2 DEF WithinMax, StopTool
<1>11. ASSUME NEW c \in Callers, TakeTeam(c)
      PROVE  WithinMax'
  BY <1>11, <1>i DEF HostTypeOK, WithinMax, TakeTeam
<1>12. ASSUME NEW c \in Callers, TeamReturns(c)
      PROVE  WithinMax'
  BY <1>12, <1>i DEF HostTypeOK, WithinMax, TeamReturns
<1>13. ASSUME NEW c \in Callers, NEW b \in Boxes, Adopt(c, b)
      PROVE  WithinMax'
  <2>0. Cardinality(boxes \cup {b}) = IF b \in boxes THEN Cardinality(boxes) ELSE Cardinality(boxes) + 1
    BY <1>f, FS_AddElement
  <2>1. Cardinality(boxes \cup {b}) <= Cardinality(boxes) + 1
    BY <1>f, <2>0
  <2>2. Cardinality(boxes \cup {b}) \in Nat
    BY <1>f, <2>0
  <2> QED  BY <1>13, <1>f, <2>1, <2>2 DEF WithinMax, Adopt
<1>14. ASSUME NEW c \in Callers, NEW b \in Boxes, AdoptRefused(c, b)
      PROVE  WithinMax'
  BY <1>14, <1>i DEF HostTypeOK, WithinMax, AdoptRefused
<1>15. ASSUME NEW c \in Callers \cup {Server}, TeamUp(c)
      PROVE  WithinMax'
  BY <1>15, <1>i DEF HostTypeOK, WithinMax, TeamUp, hostVars
<1>16. ASSUME NEW c \in Callers \cup {Server}, TeamDown(c)
      PROVE  WithinMax'
  BY <1>16, <1>i DEF HostTypeOK, WithinMax, TeamDown, hostVars
<1>17. ASSUME NEW b \in Boxes, BoxBoots(b)
      PROVE  WithinMax'
  BY <1>17, <1>i DEF HostTypeOK, WithinMax, BoxBoots
<1>18. ASSUME NEW b \in Boxes, BoxFails(b)
      PROVE  WithinMax'
  BY <1>18, <1>i DEF HostTypeOK, WithinMax, BoxFails
<1>19. ASSUME NEW b \in Boxes, Shut(b)
      PROVE  WithinMax'
  BY <1>19, <1>i DEF HostTypeOK, WithinMax, Shut
<1>20. ASSUME NEW b \in Boxes, WatchFires(b)
      PROVE  WithinMax'
  BY <1>20, <1>i DEF HostTypeOK, WithinMax, WatchFires
<1>21. ASSUME NEW b \in Boxes, WatchEnds(b)
      PROVE  WithinMax'
  BY <1>21, <1>i DEF HostTypeOK, WithinMax, WatchEnds
<1>22. ASSUME NEW b \in Boxes, WatchRemoves(b)
      PROVE  WithinMax'
  <2>1. IsFiniteSet(boxes \ {b}) /\ Cardinality(boxes \ {b}) <= Cardinality(boxes)
    BY <1>f, FS_Subset
  <2>2. Cardinality(boxes \ {b}) \in Nat
    BY <2>1, FS_CardinalityType
  <2> QED  BY <1>22, <1>i, <1>f, <2>1, <2>2 DEF WithinMax, WatchRemoves
<1>23. ASSUME NEW b \in Boxes, RecBreaks(b)
      PROVE  WithinMax'
  BY <1>23, <1>i DEF HostTypeOK, WithinMax, RecBreaks
<1>24. ASSUME NEW b \in Boxes, NEW x \in Callers \cup Boxes \cup {Server}, CloseEnds(b, x)
      PROVE  WithinMax'
  BY <1>24, <1>i DEF HostTypeOK, WithinMax, CloseEnds, TakesRec
<1>25. CASE AuditBreaks
  BY <1>25, <1>i DEF HostTypeOK, WithinMax, AuditBreaks
<1>26. CASE Signal
  BY <1>26, <1>i DEF HostTypeOK, WithinMax, Signal
<1>27. CASE StopReading
  BY <1>27, <1>i DEF HostTypeOK, WithinMax, StopReading
<1>28. CASE Drained
  BY <1>28, <1>i DEF HostTypeOK, WithinMax, Drained
<1>29. CASE CloseBoxes
  <2>1. boxes' = {} /\ Cardinality({}) = 0
    BY <1>29, FS_EmptySet DEF CloseBoxes
  <2> QED  BY <1>f, <2>1 DEF WithinMax
<1>30. CASE CloseAudit
  BY <1>30, <1>i DEF HostTypeOK, WithinMax, CloseAudit
<1>31. CASE UNCHANGED vars
  BY <1>31, <1>i DEF HostTypeOK, WithinMax, vars, hostVars, rigVars
<1> QED
  BY <1>1, <1>2, <1>3, <1>4, <1>5, <1>6, <1>7, <1>8, <1>9, <1>10, <1>11,
     <1>12, <1>13, <1>14, <1>15, <1>16, <1>17, <1>18, <1>19, <1>20, <1>21, <1>22,
     <1>23, <1>24, <1>25, <1>26, <1>27, <1>28, <1>29, <1>30, <1>31
  DEF Next, CallStep, AdoptStep, TeamStep, BootStep, CloseStep, WatchStep, ServerStep

\* A machine leaves the map, or the hands of the call that started it, only for those of
\* whoever closes it (adopt, stop, watchRecorder).
LEMMA NoOrphanNext ==
  HostInv /\ [Next]_vars => NoOrphan'
<1> SUFFICES ASSUME HostInv, [Next]_vars
             PROVE  NoOrphan'
  OBVIOUS
<1> USE NamesAre
<1>i. HostTypeOK /\ WithinMax /\ NoOrphan /\ Owned /\ InChain /\ CallsRecorded /\ Stages
  BY DEF HostInv
<1>1. CASE RigStep /\ UNCHANGED hostVars
  BY <1>1, <1>i DEF NoOrphan, HostTypeOK, Owned, Held, Closing, Chained, hostVars
<1>2. ASSUME NEW c \in Callers, NEW t \in client, NEW b \in Needs(t), Admit(c, t, b)
      PROVE  NoOrphan'
  BY <1>2, <1>i DEF NoOrphan, HostTypeOK, Owned, Held, Closing, Chained, Admit, Logs
<1>3. ASSUME NEW c \in Callers, Answer(c)
      PROVE  NoOrphan'
  BY <1>3, <1>i DEF NoOrphan, HostTypeOK, Owned, Held, Closing, Chained, Answer, Logs
<1>4. ASSUME NEW c \in Callers, Refuse(c)
      PROVE  NoOrphan'
  BY <1>4, <1>i DEF NoOrphan, HostTypeOK, Owned, Held, Closing, Chained, Refuse
<1>5. ASSUME NEW c \in Callers, Room(c)
      PROVE  NoOrphan'
  <2>1. Fresh(Asked(c)) \subseteq Unused
    BY <1>5, RoomIs
  <2> QED  BY <1>5, <1>i, <2>1 DEF NoOrphan, HostTypeOK, Owned, Held, Closing, Chained, Room, Unused
<1>6. ASSUME NEW c \in Callers, AdoptsDone(c)
      PROVE  NoOrphan'
  BY <1>6, <1>i DEF NoOrphan, HostTypeOK, Owned, Held, Closing, Chained, AdoptsDone
<1>7. ASSUME NEW c \in Callers, Find(c)
      PROVE  NoOrphan'
  BY <1>7, <1>i DEF NoOrphan, HostTypeOK, Owned, Held, Closing, Chained, Find
<1>8. ASSUME NEW c \in Callers, UseReturns(c)
      PROVE  NoOrphan'
  BY <1>8, <1>i DEF NoOrphan, HostTypeOK, Owned, Held, Closing, Chained, UseReturns
<1>9. ASSUME NEW c \in Callers, Abandon(c)
      PROVE  NoOrphan'
  BY <1>9, <1>i DEF NoOrphan, HostTypeOK, Owned, Held, Closing, Chained, Abandon
<1>10. ASSUME NEW c \in Callers, StopTool(c)
      PROVE  NoOrphan'
  BY <1>10, <1>i DEF NoOrphan, HostTypeOK, Owned, Held, Closing, Chained, StopTool
<1>11. ASSUME NEW c \in Callers, TakeTeam(c)
      PROVE  NoOrphan'
  BY <1>11, <1>i DEF NoOrphan, HostTypeOK, Owned, Held, Closing, Chained, TakeTeam
<1>12. ASSUME NEW c \in Callers, TeamReturns(c)
      PROVE  NoOrphan'
  BY <1>12, <1>i DEF NoOrphan, HostTypeOK, Owned, Held, Closing, Chained, TeamReturns
<1>13. ASSUME NEW c \in Callers, NEW b \in Boxes, Adopt(c, b)
      PROVE  NoOrphan'
  BY <1>13, <1>i DEF NoOrphan, HostTypeOK, Owned, Held, Closing, Chained, Adopt
<1>14. ASSUME NEW c \in Callers, NEW b \in Boxes, AdoptRefused(c, b)
      PROVE  NoOrphan'
  BY <1>14, <1>i DEF NoOrphan, HostTypeOK, Owned, Held, Closing, Chained, AdoptRefused
<1>15. ASSUME NEW c \in Callers \cup {Server}, TeamUp(c)
      PROVE  NoOrphan'
  BY <1>15, <1>i DEF NoOrphan, HostTypeOK, Owned, Held, Closing, Chained, TeamUp, hostVars
<1>16. ASSUME NEW c \in Callers \cup {Server}, TeamDown(c)
      PROVE  NoOrphan'
  BY <1>16, <1>i DEF NoOrphan, HostTypeOK, Owned, Held, Closing, Chained, TeamDown, hostVars
<1>17. ASSUME NEW b \in Boxes, BoxBoots(b)
      PROVE  NoOrphan'
  BY <1>17, <1>i DEF NoOrphan, HostTypeOK, Owned, Held, Closing, Chained, BoxBoots
<1>18. ASSUME NEW b \in Boxes, BoxFails(b)
      PROVE  NoOrphan'
  BY <1>18, <1>i DEF NoOrphan, HostTypeOK, Owned, Held, Closing, Chained, BoxFails
<1>19. ASSUME NEW b \in Boxes, Shut(b)
      PROVE  NoOrphan'
  BY <1>19, <1>i DEF NoOrphan, HostTypeOK, Owned, Held, Closing, Chained, Shut
<1>20. ASSUME NEW b \in Boxes, WatchFires(b)
      PROVE  NoOrphan'
  BY <1>20, <1>i DEF NoOrphan, HostTypeOK, Owned, Held, Closing, Chained, WatchFires
<1>21. ASSUME NEW b \in Boxes, WatchEnds(b)
      PROVE  NoOrphan'
  BY <1>21, <1>i DEF NoOrphan, HostTypeOK, Owned, Held, Closing, Chained, WatchEnds
<1>22. ASSUME NEW b \in Boxes, WatchRemoves(b)
      PROVE  NoOrphan'
  <2>1. \A bb \in Boxes : bb # b => (bb \in boxes' <=> bb \in boxes) /\ closers'[bb] = closers[bb]
    BY <1>22, <1>i DEF HostTypeOK, WatchRemoves
  <2>2. closers'[b] # {}
    BY <1>22, <1>i DEF HostTypeOK, WatchRemoves
  <2>3. UNCHANGED <<box, mine, pc>>
    BY <1>22 DEF WatchRemoves
  <2> QED  BY <1>i, <2>1, <2>2, <2>3 DEF NoOrphan
<1>23. ASSUME NEW b \in Boxes, RecBreaks(b)
      PROVE  NoOrphan'
  BY <1>23, <1>i DEF NoOrphan, HostTypeOK, Owned, Held, Closing, Chained, RecBreaks
<1>24. ASSUME NEW b \in Boxes, NEW x \in Callers \cup Boxes \cup {Server}, CloseEnds(b, x)
      PROVE  NoOrphan'
  BY <1>24, <1>i DEF NoOrphan, HostTypeOK, Owned, Held, Closing, Chained, CloseEnds, TakesRec
<1>25. CASE AuditBreaks
  BY <1>25, <1>i DEF NoOrphan, HostTypeOK, Owned, Held, Closing, Chained, AuditBreaks
<1>26. CASE Signal
  BY <1>26, <1>i DEF NoOrphan, HostTypeOK, Owned, Held, Closing, Chained, Signal
<1>27. CASE StopReading
  BY <1>27, <1>i DEF NoOrphan, HostTypeOK, Owned, Held, Closing, Chained, StopReading
<1>28. CASE Drained
  BY <1>28, <1>i DEF NoOrphan, HostTypeOK, Owned, Held, Closing, Chained, Drained
<1>29. CASE CloseBoxes
  BY <1>29, <1>i DEF NoOrphan, HostTypeOK, Owned, Held, Closing, Chained, CloseBoxes
<1>30. CASE CloseAudit
  BY <1>30, <1>i DEF NoOrphan, HostTypeOK, Owned, Held, Closing, Chained, CloseAudit
<1>31. CASE UNCHANGED vars
  BY <1>31, <1>i DEF NoOrphan, HostTypeOK, Owned, Held, Closing, Chained, vars, hostVars, rigVars
<1> QED
  BY <1>1, <1>2, <1>3, <1>4, <1>5, <1>6, <1>7, <1>8, <1>9, <1>10, <1>11,
     <1>12, <1>13, <1>14, <1>15, <1>16, <1>17, <1>18, <1>19, <1>20, <1>21, <1>22,
     <1>23, <1>24, <1>25, <1>26, <1>27, <1>28, <1>29, <1>30, <1>31
  DEF Next, CallStep, AdoptStep, TeamStep, BootStep, CloseStep, WatchStep, ServerStep

\* A machine is in the map or in the hands of one call, never both.
LEMMA HeldNext ==
  HostInv /\ [Next]_vars => (\A bb \in Boxes : Held(bb))'
<1> SUFFICES ASSUME HostInv, [Next]_vars
             PROVE  (\A bb \in Boxes : Held(bb))'
  OBVIOUS
<1> USE NamesAre
<1>i. HostTypeOK /\ WithinMax /\ NoOrphan /\ Owned /\ InChain /\ CallsRecorded /\ Stages
  BY DEF HostInv
<1>1. CASE RigStep /\ UNCHANGED hostVars
  BY <1>1, <1>i DEF HostTypeOK, Owned, Held, Closing, Chained, Booted, hostVars
<1>2. ASSUME NEW c \in Callers, NEW t \in client, NEW b \in Needs(t), Admit(c, t, b)
      PROVE  (\A bb \in Boxes : Held(bb))'
  BY <1>2, <1>i DEF HostTypeOK, Owned, Held, Closing, Chained, Booted, Admit, Logs
<1>3. ASSUME NEW c \in Callers, Answer(c)
      PROVE  (\A bb \in Boxes : Held(bb))'
  BY <1>3, <1>i DEF HostTypeOK, Owned, Held, Closing, Chained, Booted, Answer, Logs
<1>4. ASSUME NEW c \in Callers, Refuse(c)
      PROVE  (\A bb \in Boxes : Held(bb))'
  BY <1>4, <1>i DEF HostTypeOK, Owned, Held, Closing, Chained, Booted, Refuse
<1>5. ASSUME NEW c \in Callers, Room(c)
      PROVE  (\A bb \in Boxes : Held(bb))'
  <2>1. Fresh(Asked(c)) \subseteq Unused
    BY <1>5, RoomIs
  <2> QED  BY <1>5, <1>i, <2>1 DEF HostTypeOK, Owned, Held, Closing, Chained, Booted, Room, Unused
<1>6. ASSUME NEW c \in Callers, AdoptsDone(c)
      PROVE  (\A bb \in Boxes : Held(bb))'
  BY <1>6, <1>i DEF HostTypeOK, Owned, Held, Closing, Chained, Booted, AdoptsDone
<1>7. ASSUME NEW c \in Callers, Find(c)
      PROVE  (\A bb \in Boxes : Held(bb))'
  BY <1>7, <1>i DEF HostTypeOK, Owned, Held, Closing, Chained, Booted, Find
<1>8. ASSUME NEW c \in Callers, UseReturns(c)
      PROVE  (\A bb \in Boxes : Held(bb))'
  BY <1>8, <1>i DEF HostTypeOK, Owned, Held, Closing, Chained, Booted, UseReturns
<1>9. ASSUME NEW c \in Callers, Abandon(c)
      PROVE  (\A bb \in Boxes : Held(bb))'
  BY <1>9, <1>i DEF HostTypeOK, Owned, Held, Closing, Chained, Booted, Abandon
<1>10. ASSUME NEW c \in Callers, StopTool(c)
      PROVE  (\A bb \in Boxes : Held(bb))'
  BY <1>10, <1>i DEF HostTypeOK, Owned, Held, Closing, Chained, Booted, StopTool
<1>11. ASSUME NEW c \in Callers, TakeTeam(c)
      PROVE  (\A bb \in Boxes : Held(bb))'
  BY <1>11, <1>i DEF HostTypeOK, Owned, Held, Closing, Chained, Booted, TakeTeam
<1>12. ASSUME NEW c \in Callers, TeamReturns(c)
      PROVE  (\A bb \in Boxes : Held(bb))'
  BY <1>12, <1>i DEF HostTypeOK, Owned, Held, Closing, Chained, Booted, TeamReturns
<1>13. ASSUME NEW c \in Callers, NEW b \in Boxes, Adopt(c, b)
      PROVE  (\A bb \in Boxes : Held(bb))'
  BY <1>13, <1>i DEF HostTypeOK, Owned, Held, Closing, Chained, Booted, Adopt
<1>14. ASSUME NEW c \in Callers, NEW b \in Boxes, AdoptRefused(c, b)
      PROVE  (\A bb \in Boxes : Held(bb))'
  BY <1>14, <1>i DEF HostTypeOK, Owned, Held, Closing, Chained, Booted, AdoptRefused
<1>15. ASSUME NEW c \in Callers \cup {Server}, TeamUp(c)
      PROVE  (\A bb \in Boxes : Held(bb))'
  BY <1>15, <1>i DEF HostTypeOK, Owned, Held, Closing, Chained, Booted, TeamUp, hostVars
<1>16. ASSUME NEW c \in Callers \cup {Server}, TeamDown(c)
      PROVE  (\A bb \in Boxes : Held(bb))'
  BY <1>16, <1>i DEF HostTypeOK, Owned, Held, Closing, Chained, Booted, TeamDown, hostVars
<1>17. ASSUME NEW b \in Boxes, BoxBoots(b)
      PROVE  (\A bb \in Boxes : Held(bb))'
  BY <1>17, <1>i DEF HostTypeOK, Owned, Held, Closing, Chained, Booted, BoxBoots
<1>18. ASSUME NEW b \in Boxes, BoxFails(b)
      PROVE  (\A bb \in Boxes : Held(bb))'
  BY <1>18, <1>i DEF HostTypeOK, Owned, Held, Closing, Chained, Booted, BoxFails
<1>19. ASSUME NEW b \in Boxes, Shut(b)
      PROVE  (\A bb \in Boxes : Held(bb))'
  BY <1>19, <1>i DEF HostTypeOK, Owned, Held, Closing, Chained, Booted, Shut
<1>20. ASSUME NEW b \in Boxes, WatchFires(b)
      PROVE  (\A bb \in Boxes : Held(bb))'
  BY <1>20, <1>i DEF HostTypeOK, Owned, Held, Closing, Chained, Booted, WatchFires
<1>21. ASSUME NEW b \in Boxes, WatchEnds(b)
      PROVE  (\A bb \in Boxes : Held(bb))'
  BY <1>21, <1>i DEF HostTypeOK, Owned, Held, Closing, Chained, Booted, WatchEnds
<1>22. ASSUME NEW b \in Boxes, WatchRemoves(b)
      PROVE  (\A bb \in Boxes : Held(bb))'
  BY <1>22, <1>i DEF HostTypeOK, Owned, Held, Closing, Chained, Booted, WatchRemoves
<1>23. ASSUME NEW b \in Boxes, RecBreaks(b)
      PROVE  (\A bb \in Boxes : Held(bb))'
  BY <1>23, <1>i DEF HostTypeOK, Owned, Held, Closing, Chained, Booted, RecBreaks
<1>24. ASSUME NEW b \in Boxes, NEW x \in Callers \cup Boxes \cup {Server}, CloseEnds(b, x)
      PROVE  (\A bb \in Boxes : Held(bb))'
  BY <1>24, <1>i DEF HostTypeOK, Owned, Held, Closing, Chained, Booted, CloseEnds, TakesRec
<1>25. CASE AuditBreaks
  BY <1>25, <1>i DEF HostTypeOK, Owned, Held, Closing, Chained, Booted, AuditBreaks
<1>26. CASE Signal
  BY <1>26, <1>i DEF HostTypeOK, Owned, Held, Closing, Chained, Booted, Signal
<1>27. CASE StopReading
  BY <1>27, <1>i DEF HostTypeOK, Owned, Held, Closing, Chained, Booted, StopReading
<1>28. CASE Drained
  BY <1>28, <1>i DEF HostTypeOK, Owned, Held, Closing, Chained, Booted, Drained
<1>29. CASE CloseBoxes
  BY <1>29, <1>i DEF HostTypeOK, Owned, Held, Closing, Chained, Booted, CloseBoxes
<1>30. CASE CloseAudit
  BY <1>30, <1>i DEF HostTypeOK, Owned, Held, Closing, Chained, Booted, CloseAudit
<1>31. CASE UNCHANGED vars
  BY <1>31, <1>i DEF HostTypeOK, Owned, Held, Closing, Chained, Booted, vars, hostVars, rigVars
<1> QED
  BY <1>1, <1>2, <1>3, <1>4, <1>5, <1>6, <1>7, <1>8, <1>9, <1>10, <1>11,
     <1>12, <1>13, <1>14, <1>15, <1>16, <1>17, <1>18, <1>19, <1>20, <1>21, <1>22,
     <1>23, <1>24, <1>25, <1>26, <1>27, <1>28, <1>29, <1>30, <1>31
  DEF Next, CallStep, AdoptStep, TeamStep, BootStep, CloseStep, WatchStep, ServerStep

\* Whoever is inside close has a reason to be (servedBox.close).
LEMMA ClosingNext ==
  HostInv /\ [Next]_vars => (\A bb \in Boxes : Closing(bb))'
<1> SUFFICES ASSUME HostInv, [Next]_vars
             PROVE  (\A bb \in Boxes : Closing(bb))'
  OBVIOUS
<1> USE NamesAre
<1>i. HostTypeOK /\ WithinMax /\ NoOrphan /\ Owned /\ InChain /\ CallsRecorded /\ Stages
  BY DEF HostInv
<1>1. CASE RigStep /\ UNCHANGED hostVars
  BY <1>1, <1>i DEF HostTypeOK, Owned, Held, Closing, Chained, hostVars
<1>2. ASSUME NEW c \in Callers, NEW t \in client, NEW b \in Needs(t), Admit(c, t, b)
      PROVE  (\A bb \in Boxes : Closing(bb))'
  BY <1>2, <1>i DEF HostTypeOK, Owned, Held, Closing, Chained, Admit, Logs
<1>3. ASSUME NEW c \in Callers, Answer(c)
      PROVE  (\A bb \in Boxes : Closing(bb))'
  BY <1>3, <1>i DEF HostTypeOK, Owned, Held, Closing, Chained, Answer, Logs
<1>4. ASSUME NEW c \in Callers, Refuse(c)
      PROVE  (\A bb \in Boxes : Closing(bb))'
  BY <1>4, <1>i DEF HostTypeOK, Owned, Held, Closing, Chained, Refuse
<1>5. ASSUME NEW c \in Callers, Room(c)
      PROVE  (\A bb \in Boxes : Closing(bb))'
  <2>1. Fresh(Asked(c)) \subseteq Unused
    BY <1>5, RoomIs
  <2> QED  BY <1>5, <1>i, <2>1 DEF HostTypeOK, Owned, Held, Closing, Chained, Room, Unused
<1>6. ASSUME NEW c \in Callers, AdoptsDone(c)
      PROVE  (\A bb \in Boxes : Closing(bb))'
  BY <1>6, <1>i DEF HostTypeOK, Owned, Held, Closing, Chained, AdoptsDone
<1>7. ASSUME NEW c \in Callers, Find(c)
      PROVE  (\A bb \in Boxes : Closing(bb))'
  BY <1>7, <1>i DEF HostTypeOK, Owned, Held, Closing, Chained, Find
<1>8. ASSUME NEW c \in Callers, UseReturns(c)
      PROVE  (\A bb \in Boxes : Closing(bb))'
  BY <1>8, <1>i DEF HostTypeOK, Owned, Held, Closing, Chained, UseReturns
<1>9. ASSUME NEW c \in Callers, Abandon(c)
      PROVE  (\A bb \in Boxes : Closing(bb))'
  BY <1>9, <1>i DEF HostTypeOK, Owned, Held, Closing, Chained, Abandon
<1>10. ASSUME NEW c \in Callers, StopTool(c)
      PROVE  (\A bb \in Boxes : Closing(bb))'
  BY <1>10, <1>i DEF HostTypeOK, Owned, Held, Closing, Chained, StopTool
<1>11. ASSUME NEW c \in Callers, TakeTeam(c)
      PROVE  (\A bb \in Boxes : Closing(bb))'
  BY <1>11, <1>i DEF HostTypeOK, Owned, Held, Closing, Chained, TakeTeam
<1>12. ASSUME NEW c \in Callers, TeamReturns(c)
      PROVE  (\A bb \in Boxes : Closing(bb))'
  BY <1>12, <1>i DEF HostTypeOK, Owned, Held, Closing, Chained, TeamReturns
<1>13. ASSUME NEW c \in Callers, NEW b \in Boxes, Adopt(c, b)
      PROVE  (\A bb \in Boxes : Closing(bb))'
  BY <1>13, <1>i DEF HostTypeOK, Owned, Held, Closing, Chained, Adopt
<1>14. ASSUME NEW c \in Callers, NEW b \in Boxes, AdoptRefused(c, b)
      PROVE  (\A bb \in Boxes : Closing(bb))'
  BY <1>14, <1>i DEF HostTypeOK, Owned, Held, Closing, Chained, AdoptRefused
<1>15. ASSUME NEW c \in Callers \cup {Server}, TeamUp(c)
      PROVE  (\A bb \in Boxes : Closing(bb))'
  BY <1>15, <1>i DEF HostTypeOK, Owned, Held, Closing, Chained, TeamUp, hostVars
<1>16. ASSUME NEW c \in Callers \cup {Server}, TeamDown(c)
      PROVE  (\A bb \in Boxes : Closing(bb))'
  BY <1>16, <1>i DEF HostTypeOK, Owned, Held, Closing, Chained, TeamDown, hostVars
<1>17. ASSUME NEW b \in Boxes, BoxBoots(b)
      PROVE  (\A bb \in Boxes : Closing(bb))'
  BY <1>17, <1>i DEF HostTypeOK, Owned, Held, Closing, Chained, BoxBoots
<1>18. ASSUME NEW b \in Boxes, BoxFails(b)
      PROVE  (\A bb \in Boxes : Closing(bb))'
  BY <1>18, <1>i DEF HostTypeOK, Owned, Held, Closing, Chained, BoxFails
<1>19. ASSUME NEW b \in Boxes, Shut(b)
      PROVE  (\A bb \in Boxes : Closing(bb))'
  BY <1>19, <1>i DEF HostTypeOK, Owned, Held, Closing, Chained, Shut
<1>20. ASSUME NEW b \in Boxes, WatchFires(b)
      PROVE  (\A bb \in Boxes : Closing(bb))'
  BY <1>20, <1>i DEF HostTypeOK, Owned, Held, Closing, Chained, WatchFires
<1>21. ASSUME NEW b \in Boxes, WatchEnds(b)
      PROVE  (\A bb \in Boxes : Closing(bb))'
  BY <1>21, <1>i DEF HostTypeOK, Owned, Held, Closing, Chained, WatchEnds
<1>22. ASSUME NEW b \in Boxes, WatchRemoves(b)
      PROVE  (\A bb \in Boxes : Closing(bb))'
  BY <1>22, <1>i DEF HostTypeOK, Owned, Held, Closing, Chained, WatchRemoves
<1>23. ASSUME NEW b \in Boxes, RecBreaks(b)
      PROVE  (\A bb \in Boxes : Closing(bb))'
  BY <1>23, <1>i DEF HostTypeOK, Owned, Held, Closing, Chained, RecBreaks
<1>24. ASSUME NEW b \in Boxes, NEW x \in Callers \cup Boxes \cup {Server}, CloseEnds(b, x)
      PROVE  (\A bb \in Boxes : Closing(bb))'
  BY <1>24, <1>i DEF HostTypeOK, Owned, Held, Closing, Chained, CloseEnds, TakesRec
<1>25. CASE AuditBreaks
  BY <1>25, <1>i DEF HostTypeOK, Owned, Held, Closing, Chained, AuditBreaks
<1>26. CASE Signal
  BY <1>26, <1>i DEF HostTypeOK, Owned, Held, Closing, Chained, Signal
<1>27. CASE StopReading
  BY <1>27, <1>i DEF HostTypeOK, Owned, Held, Closing, Chained, StopReading
<1>28. CASE Drained
  BY <1>28, <1>i DEF HostTypeOK, Owned, Held, Closing, Chained, Drained
<1>29. CASE CloseBoxes
  BY <1>29, <1>i DEF HostTypeOK, Owned, Held, Closing, Chained, CloseBoxes
<1>30. CASE CloseAudit
  BY <1>30, <1>i DEF HostTypeOK, Owned, Held, Closing, Chained, CloseAudit
<1>31. CASE UNCHANGED vars
  BY <1>31, <1>i DEF HostTypeOK, Owned, Held, Closing, Chained, vars, hostVars, rigVars
<1> QED
  BY <1>1, <1>2, <1>3, <1>4, <1>5, <1>6, <1>7, <1>8, <1>9, <1>10, <1>11,
     <1>12, <1>13, <1>14, <1>15, <1>16, <1>17, <1>18, <1>19, <1>20, <1>21, <1>22,
     <1>23, <1>24, <1>25, <1>26, <1>27, <1>28, <1>29, <1>30, <1>31
  DEF Next, CallStep, AdoptStep, TeamStep, BootStep, CloseStep, WatchStep, ServerStep

\* b.rec is taken once: the closer that finds it ends the chain (servedBox.close).
LEMMA ChainedNext ==
  HostInv /\ [Next]_vars => (\A bb \in Boxes : Chained(bb))'
<1> SUFFICES ASSUME HostInv, [Next]_vars
             PROVE  (\A bb \in Boxes : Chained(bb))'
  OBVIOUS
<1> USE NamesAre
<1>i. HostTypeOK /\ WithinMax /\ NoOrphan /\ Owned /\ InChain /\ CallsRecorded /\ Stages
  BY DEF HostInv
<1>1. CASE RigStep /\ UNCHANGED hostVars
  BY <1>1, <1>i DEF HostTypeOK, Owned, Held, Closing, Chained, Booted, hostVars
<1>2. ASSUME NEW c \in Callers, NEW t \in client, NEW b \in Needs(t), Admit(c, t, b)
      PROVE  (\A bb \in Boxes : Chained(bb))'
  BY <1>2, <1>i DEF HostTypeOK, Owned, Held, Closing, Chained, Booted, Admit, Logs
<1>3. ASSUME NEW c \in Callers, Answer(c)
      PROVE  (\A bb \in Boxes : Chained(bb))'
  BY <1>3, <1>i DEF HostTypeOK, Owned, Held, Closing, Chained, Booted, Answer, Logs
<1>4. ASSUME NEW c \in Callers, Refuse(c)
      PROVE  (\A bb \in Boxes : Chained(bb))'
  BY <1>4, <1>i DEF HostTypeOK, Owned, Held, Closing, Chained, Booted, Refuse
<1>5. ASSUME NEW c \in Callers, Room(c)
      PROVE  (\A bb \in Boxes : Chained(bb))'
  <2>1. Fresh(Asked(c)) \subseteq Unused
    BY <1>5, RoomIs
  <2> QED  BY <1>5, <1>i, <2>1 DEF HostTypeOK, Owned, Held, Closing, Chained, Booted, Room, Unused
<1>6. ASSUME NEW c \in Callers, AdoptsDone(c)
      PROVE  (\A bb \in Boxes : Chained(bb))'
  BY <1>6, <1>i DEF HostTypeOK, Owned, Held, Closing, Chained, Booted, AdoptsDone
<1>7. ASSUME NEW c \in Callers, Find(c)
      PROVE  (\A bb \in Boxes : Chained(bb))'
  BY <1>7, <1>i DEF HostTypeOK, Owned, Held, Closing, Chained, Booted, Find
<1>8. ASSUME NEW c \in Callers, UseReturns(c)
      PROVE  (\A bb \in Boxes : Chained(bb))'
  BY <1>8, <1>i DEF HostTypeOK, Owned, Held, Closing, Chained, Booted, UseReturns
<1>9. ASSUME NEW c \in Callers, Abandon(c)
      PROVE  (\A bb \in Boxes : Chained(bb))'
  BY <1>9, <1>i DEF HostTypeOK, Owned, Held, Closing, Chained, Booted, Abandon
<1>10. ASSUME NEW c \in Callers, StopTool(c)
      PROVE  (\A bb \in Boxes : Chained(bb))'
  BY <1>10, <1>i DEF HostTypeOK, Owned, Held, Closing, Chained, Booted, StopTool
<1>11. ASSUME NEW c \in Callers, TakeTeam(c)
      PROVE  (\A bb \in Boxes : Chained(bb))'
  BY <1>11, <1>i DEF HostTypeOK, Owned, Held, Closing, Chained, Booted, TakeTeam
<1>12. ASSUME NEW c \in Callers, TeamReturns(c)
      PROVE  (\A bb \in Boxes : Chained(bb))'
  BY <1>12, <1>i DEF HostTypeOK, Owned, Held, Closing, Chained, Booted, TeamReturns
<1>13. ASSUME NEW c \in Callers, NEW b \in Boxes, Adopt(c, b)
      PROVE  (\A bb \in Boxes : Chained(bb))'
  BY <1>13, <1>i DEF HostTypeOK, Owned, Held, Closing, Chained, Booted, Adopt
<1>14. ASSUME NEW c \in Callers, NEW b \in Boxes, AdoptRefused(c, b)
      PROVE  (\A bb \in Boxes : Chained(bb))'
  BY <1>14, <1>i DEF HostTypeOK, Owned, Held, Closing, Chained, Booted, AdoptRefused
<1>15. ASSUME NEW c \in Callers \cup {Server}, TeamUp(c)
      PROVE  (\A bb \in Boxes : Chained(bb))'
  BY <1>15, <1>i DEF HostTypeOK, Owned, Held, Closing, Chained, Booted, TeamUp, hostVars
<1>16. ASSUME NEW c \in Callers \cup {Server}, TeamDown(c)
      PROVE  (\A bb \in Boxes : Chained(bb))'
  BY <1>16, <1>i DEF HostTypeOK, Owned, Held, Closing, Chained, Booted, TeamDown, hostVars
<1>17. ASSUME NEW b \in Boxes, BoxBoots(b)
      PROVE  (\A bb \in Boxes : Chained(bb))'
  BY <1>17, <1>i DEF HostTypeOK, Owned, Held, Closing, Chained, Booted, BoxBoots
<1>18. ASSUME NEW b \in Boxes, BoxFails(b)
      PROVE  (\A bb \in Boxes : Chained(bb))'
  BY <1>18, <1>i DEF HostTypeOK, Owned, Held, Closing, Chained, Booted, BoxFails
<1>19. ASSUME NEW b \in Boxes, Shut(b)
      PROVE  (\A bb \in Boxes : Chained(bb))'
  BY <1>19, <1>i DEF HostTypeOK, Owned, Held, Closing, Chained, Booted, Shut
<1>20. ASSUME NEW b \in Boxes, WatchFires(b)
      PROVE  (\A bb \in Boxes : Chained(bb))'
  BY <1>20, <1>i DEF HostTypeOK, Owned, Held, Closing, Chained, Booted, WatchFires
<1>21. ASSUME NEW b \in Boxes, WatchEnds(b)
      PROVE  (\A bb \in Boxes : Chained(bb))'
  BY <1>21, <1>i DEF HostTypeOK, Owned, Held, Closing, Chained, Booted, WatchEnds
<1>22. ASSUME NEW b \in Boxes, WatchRemoves(b)
      PROVE  (\A bb \in Boxes : Chained(bb))'
  BY <1>22, <1>i DEF HostTypeOK, Owned, Held, Closing, Chained, Booted, WatchRemoves
<1>23. ASSUME NEW b \in Boxes, RecBreaks(b)
      PROVE  (\A bb \in Boxes : Chained(bb))'
  BY <1>23, <1>i DEF HostTypeOK, Owned, Held, Closing, Chained, Booted, RecBreaks
<1>24. ASSUME NEW b \in Boxes, NEW x \in Callers \cup Boxes \cup {Server}, CloseEnds(b, x)
      PROVE  (\A bb \in Boxes : Chained(bb))'
  <2>1. Chained(b) /\ box[b] = "closed" /\ x \in closers[b]
    BY <1>24, <1>i DEF Owned, CloseEnds
  <2>2. \/ rec[b] # "nil" /\ ends[b] = 0
        \/ rec[b] = "nil" /\ ends[b] = 1
    BY <2>1 DEF Chained
  <2>3. /\ rec[b] # "nil" => ends' = [ends EXCEPT ![b] = @ + 1]
        /\ rec[b] = "nil" => ends' = [ends EXCEPT ![b] = @]
    BY <1>24 DEF CloseEnds
  <2>5. ends'[b] = 1 /\ rec'[b] = "nil" /\ box'[b] = "closed"
    BY <1>24, <1>i, <2>1, <2>2, <2>3 DEF HostTypeOK, CloseEnds, TakesRec
  <2>6. \A bb \in Boxes : bb # b =>
          /\ ends'[bb] = ends[bb] /\ rec'[bb] = rec[bb] /\ box'[bb] = box[bb]
          /\ closers'[bb] = closers[bb] /\ watch'[bb] = watch[bb]
    BY <1>24, <1>i, <2>3 DEF HostTypeOK, CloseEnds, TakesRec
  <2>7. \A bb \in Boxes : bb # b => Chained(bb)'
    BY <1>i, <2>6 DEF Owned, Chained
  <2>8. Chained(b)'
    BY <2>5 DEF Chained
  <2> QED  BY <2>7, <2>8
<1>25. CASE AuditBreaks
  BY <1>25, <1>i DEF HostTypeOK, Owned, Held, Closing, Chained, Booted, AuditBreaks
<1>26. CASE Signal
  BY <1>26, <1>i DEF HostTypeOK, Owned, Held, Closing, Chained, Booted, Signal
<1>27. CASE StopReading
  BY <1>27, <1>i DEF HostTypeOK, Owned, Held, Closing, Chained, Booted, StopReading
<1>28. CASE Drained
  BY <1>28, <1>i DEF HostTypeOK, Owned, Held, Closing, Chained, Booted, Drained
<1>29. CASE CloseBoxes
  BY <1>29, <1>i DEF HostTypeOK, Owned, Held, Closing, Chained, Booted, CloseBoxes
<1>30. CASE CloseAudit
  BY <1>30, <1>i DEF HostTypeOK, Owned, Held, Closing, Chained, Booted, CloseAudit
<1>31. CASE UNCHANGED vars
  BY <1>31, <1>i DEF HostTypeOK, Owned, Held, Closing, Chained, Booted, vars, hostVars, rigVars
<1> QED
  BY <1>1, <1>2, <1>3, <1>4, <1>5, <1>6, <1>7, <1>8, <1>9, <1>10, <1>11,
     <1>12, <1>13, <1>14, <1>15, <1>16, <1>17, <1>18, <1>19, <1>20, <1>21, <1>22,
     <1>23, <1>24, <1>25, <1>26, <1>27, <1>28, <1>29, <1>30, <1>31
  DEF Next, CallStep, AdoptStep, TeamStep, BootStep, CloseStep, WatchStep, ServerStep

\* A call is recorded before its tool runs (runCall).
LEMMA InChainNext ==
  HostInv /\ [Next]_vars => InChain'
<1> SUFFICES ASSUME HostInv, [Next]_vars
             PROVE  InChain'
  OBVIOUS
<1> USE NamesAre
<1>i. HostTypeOK /\ WithinMax /\ NoOrphan /\ Owned /\ InChain /\ CallsRecorded /\ Stages
  BY DEF HostInv
<1>1. CASE RigStep /\ UNCHANGED hostVars
  BY <1>1, <1>i DEF HostTypeOK, InChain, unrecordedButAllowed, hostVars
<1>2. ASSUME NEW c \in Callers, NEW t \in client, NEW b \in Needs(t), Admit(c, t, b)
      PROVE  InChain'
  BY <1>2, <1>i DEF HostTypeOK, InChain, unrecordedButAllowed, Admit, Logs
<1>3. ASSUME NEW c \in Callers, Answer(c)
      PROVE  InChain'
  BY <1>3, <1>i DEF HostTypeOK, InChain, unrecordedButAllowed, Answer, Logs
<1>4. ASSUME NEW c \in Callers, Refuse(c)
      PROVE  InChain'
  BY <1>4, <1>i DEF HostTypeOK, InChain, unrecordedButAllowed, Refuse
<1>5. ASSUME NEW c \in Callers, Room(c)
      PROVE  InChain'
  <2>1. Fresh(Asked(c)) \subseteq Unused
    BY <1>5, RoomIs
  <2> QED  BY <1>5, <1>i, <2>1 DEF HostTypeOK, InChain, unrecordedButAllowed, Room, Unused
<1>6. ASSUME NEW c \in Callers, AdoptsDone(c)
      PROVE  InChain'
  BY <1>6, <1>i DEF HostTypeOK, InChain, unrecordedButAllowed, AdoptsDone
<1>7. ASSUME NEW c \in Callers, Find(c)
      PROVE  InChain'
  BY <1>7, <1>i DEF HostTypeOK, InChain, unrecordedButAllowed, Find
<1>8. ASSUME NEW c \in Callers, UseReturns(c)
      PROVE  InChain'
  BY <1>8, <1>i DEF HostTypeOK, InChain, unrecordedButAllowed, UseReturns
<1>9. ASSUME NEW c \in Callers, Abandon(c)
      PROVE  InChain'
  BY <1>9, <1>i DEF HostTypeOK, InChain, unrecordedButAllowed, Abandon
<1>10. ASSUME NEW c \in Callers, StopTool(c)
      PROVE  InChain'
  BY <1>10, <1>i DEF HostTypeOK, InChain, unrecordedButAllowed, StopTool
<1>11. ASSUME NEW c \in Callers, TakeTeam(c)
      PROVE  InChain'
  BY <1>11, <1>i DEF HostTypeOK, InChain, unrecordedButAllowed, TakeTeam
<1>12. ASSUME NEW c \in Callers, TeamReturns(c)
      PROVE  InChain'
  BY <1>12, <1>i DEF HostTypeOK, InChain, unrecordedButAllowed, TeamReturns
<1>13. ASSUME NEW c \in Callers, NEW b \in Boxes, Adopt(c, b)
      PROVE  InChain'
  BY <1>13, <1>i DEF HostTypeOK, InChain, unrecordedButAllowed, Adopt
<1>14. ASSUME NEW c \in Callers, NEW b \in Boxes, AdoptRefused(c, b)
      PROVE  InChain'
  BY <1>14, <1>i DEF HostTypeOK, InChain, unrecordedButAllowed, AdoptRefused
<1>15. ASSUME NEW c \in Callers \cup {Server}, TeamUp(c)
      PROVE  InChain'
  BY <1>15, <1>i DEF HostTypeOK, InChain, unrecordedButAllowed, TeamUp, hostVars
<1>16. ASSUME NEW c \in Callers \cup {Server}, TeamDown(c)
      PROVE  InChain'
  BY <1>16, <1>i DEF HostTypeOK, InChain, unrecordedButAllowed, TeamDown, hostVars
<1>17. ASSUME NEW b \in Boxes, BoxBoots(b)
      PROVE  InChain'
  BY <1>17, <1>i DEF HostTypeOK, InChain, unrecordedButAllowed, BoxBoots
<1>18. ASSUME NEW b \in Boxes, BoxFails(b)
      PROVE  InChain'
  BY <1>18, <1>i DEF HostTypeOK, InChain, unrecordedButAllowed, BoxFails
<1>19. ASSUME NEW b \in Boxes, Shut(b)
      PROVE  InChain'
  BY <1>19, <1>i DEF HostTypeOK, InChain, unrecordedButAllowed, Shut
<1>20. ASSUME NEW b \in Boxes, WatchFires(b)
      PROVE  InChain'
  BY <1>20, <1>i DEF HostTypeOK, InChain, unrecordedButAllowed, WatchFires
<1>21. ASSUME NEW b \in Boxes, WatchEnds(b)
      PROVE  InChain'
  BY <1>21, <1>i DEF HostTypeOK, InChain, unrecordedButAllowed, WatchEnds
<1>22. ASSUME NEW b \in Boxes, WatchRemoves(b)
      PROVE  InChain'
  BY <1>22, <1>i DEF HostTypeOK, InChain, unrecordedButAllowed, WatchRemoves
<1>23. ASSUME NEW b \in Boxes, RecBreaks(b)
      PROVE  InChain'
  BY <1>23, <1>i DEF HostTypeOK, InChain, unrecordedButAllowed, RecBreaks
<1>24. ASSUME NEW b \in Boxes, NEW x \in Callers \cup Boxes \cup {Server}, CloseEnds(b, x)
      PROVE  InChain'
  BY <1>24, <1>i DEF HostTypeOK, InChain, unrecordedButAllowed, CloseEnds, TakesRec
<1>25. CASE AuditBreaks
  BY <1>25, <1>i DEF HostTypeOK, InChain, unrecordedButAllowed, AuditBreaks
<1>26. CASE Signal
  BY <1>26, <1>i DEF HostTypeOK, InChain, unrecordedButAllowed, Signal
<1>27. CASE StopReading
  BY <1>27, <1>i DEF HostTypeOK, InChain, unrecordedButAllowed, StopReading
<1>28. CASE Drained
  BY <1>28, <1>i DEF HostTypeOK, InChain, unrecordedButAllowed, Drained
<1>29. CASE CloseBoxes
  BY <1>29, <1>i DEF HostTypeOK, InChain, unrecordedButAllowed, CloseBoxes
<1>30. CASE CloseAudit
  BY <1>30, <1>i DEF HostTypeOK, InChain, unrecordedButAllowed, CloseAudit
<1>31. CASE UNCHANGED vars
  BY <1>31, <1>i DEF HostTypeOK, InChain, unrecordedButAllowed, vars, hostVars, rigVars
<1> QED
  BY <1>1, <1>2, <1>3, <1>4, <1>5, <1>6, <1>7, <1>8, <1>9, <1>10, <1>11,
     <1>12, <1>13, <1>14, <1>15, <1>16, <1>17, <1>18, <1>19, <1>20, <1>21, <1>22,
     <1>23, <1>24, <1>25, <1>26, <1>27, <1>28, <1>29, <1>30, <1>31
  DEF Next, CallStep, AdoptStep, TeamStep, BootStep, CloseStep, WatchStep, ServerStep

\* What is answered is recorded, unless the record has failed (runCall).
LEMMA CallsRecordedNext ==
  HostInv /\ [Next]_vars => CallsRecorded'
<1> SUFFICES ASSUME HostInv, [Next]_vars
             PROVE  CallsRecorded'
  OBVIOUS
<1> USE NamesAre
<1>i. HostTypeOK /\ WithinMax /\ NoOrphan /\ Owned /\ InChain /\ CallsRecorded /\ Stages
  BY DEF HostInv
<1>1. CASE RigStep /\ UNCHANGED hostVars
  BY <1>1, <1>i DEF HostTypeOK, InChain, CallsRecorded, unrecordedButAllowed, hostVars
<1>2. ASSUME NEW c \in Callers, NEW t \in client, NEW b \in Needs(t), Admit(c, t, b)
      PROVE  CallsRecorded'
  BY <1>2, <1>i DEF HostTypeOK, InChain, CallsRecorded, unrecordedButAllowed, Admit, Logs
<1>3. ASSUME NEW c \in Callers, Answer(c)
      PROVE  CallsRecorded'
  BY <1>3, <1>i DEF HostTypeOK, InChain, CallsRecorded, unrecordedButAllowed, Answer, Logs
<1>4. ASSUME NEW c \in Callers, Refuse(c)
      PROVE  CallsRecorded'
  BY <1>4, <1>i DEF HostTypeOK, InChain, CallsRecorded, unrecordedButAllowed, Refuse
<1>5. ASSUME NEW c \in Callers, Room(c)
      PROVE  CallsRecorded'
  <2>1. Fresh(Asked(c)) \subseteq Unused
    BY <1>5, RoomIs
  <2> QED  BY <1>5, <1>i, <2>1 DEF HostTypeOK, InChain, CallsRecorded, unrecordedButAllowed, Room, Unused
<1>6. ASSUME NEW c \in Callers, AdoptsDone(c)
      PROVE  CallsRecorded'
  BY <1>6, <1>i DEF HostTypeOK, InChain, CallsRecorded, unrecordedButAllowed, AdoptsDone
<1>7. ASSUME NEW c \in Callers, Find(c)
      PROVE  CallsRecorded'
  BY <1>7, <1>i DEF HostTypeOK, InChain, CallsRecorded, unrecordedButAllowed, Find
<1>8. ASSUME NEW c \in Callers, UseReturns(c)
      PROVE  CallsRecorded'
  BY <1>8, <1>i DEF HostTypeOK, InChain, CallsRecorded, unrecordedButAllowed, UseReturns
<1>9. ASSUME NEW c \in Callers, Abandon(c)
      PROVE  CallsRecorded'
  BY <1>9, <1>i DEF HostTypeOK, InChain, CallsRecorded, unrecordedButAllowed, Abandon
<1>10. ASSUME NEW c \in Callers, StopTool(c)
      PROVE  CallsRecorded'
  BY <1>10, <1>i DEF HostTypeOK, InChain, CallsRecorded, unrecordedButAllowed, StopTool
<1>11. ASSUME NEW c \in Callers, TakeTeam(c)
      PROVE  CallsRecorded'
  BY <1>11, <1>i DEF HostTypeOK, InChain, CallsRecorded, unrecordedButAllowed, TakeTeam
<1>12. ASSUME NEW c \in Callers, TeamReturns(c)
      PROVE  CallsRecorded'
  BY <1>12, <1>i DEF HostTypeOK, InChain, CallsRecorded, unrecordedButAllowed, TeamReturns
<1>13. ASSUME NEW c \in Callers, NEW b \in Boxes, Adopt(c, b)
      PROVE  CallsRecorded'
  BY <1>13, <1>i DEF HostTypeOK, InChain, CallsRecorded, unrecordedButAllowed, Adopt
<1>14. ASSUME NEW c \in Callers, NEW b \in Boxes, AdoptRefused(c, b)
      PROVE  CallsRecorded'
  BY <1>14, <1>i DEF HostTypeOK, InChain, CallsRecorded, unrecordedButAllowed, AdoptRefused
<1>15. ASSUME NEW c \in Callers \cup {Server}, TeamUp(c)
      PROVE  CallsRecorded'
  BY <1>15, <1>i DEF HostTypeOK, InChain, CallsRecorded, unrecordedButAllowed, TeamUp, hostVars
<1>16. ASSUME NEW c \in Callers \cup {Server}, TeamDown(c)
      PROVE  CallsRecorded'
  BY <1>16, <1>i DEF HostTypeOK, InChain, CallsRecorded, unrecordedButAllowed, TeamDown, hostVars
<1>17. ASSUME NEW b \in Boxes, BoxBoots(b)
      PROVE  CallsRecorded'
  BY <1>17, <1>i DEF HostTypeOK, InChain, CallsRecorded, unrecordedButAllowed, BoxBoots
<1>18. ASSUME NEW b \in Boxes, BoxFails(b)
      PROVE  CallsRecorded'
  BY <1>18, <1>i DEF HostTypeOK, InChain, CallsRecorded, unrecordedButAllowed, BoxFails
<1>19. ASSUME NEW b \in Boxes, Shut(b)
      PROVE  CallsRecorded'
  BY <1>19, <1>i DEF HostTypeOK, InChain, CallsRecorded, unrecordedButAllowed, Shut
<1>20. ASSUME NEW b \in Boxes, WatchFires(b)
      PROVE  CallsRecorded'
  BY <1>20, <1>i DEF HostTypeOK, InChain, CallsRecorded, unrecordedButAllowed, WatchFires
<1>21. ASSUME NEW b \in Boxes, WatchEnds(b)
      PROVE  CallsRecorded'
  BY <1>21, <1>i DEF HostTypeOK, InChain, CallsRecorded, unrecordedButAllowed, WatchEnds
<1>22. ASSUME NEW b \in Boxes, WatchRemoves(b)
      PROVE  CallsRecorded'
  BY <1>22, <1>i DEF HostTypeOK, InChain, CallsRecorded, unrecordedButAllowed, WatchRemoves
<1>23. ASSUME NEW b \in Boxes, RecBreaks(b)
      PROVE  CallsRecorded'
  BY <1>23, <1>i DEF HostTypeOK, InChain, CallsRecorded, unrecordedButAllowed, RecBreaks
<1>24. ASSUME NEW b \in Boxes, NEW x \in Callers \cup Boxes \cup {Server}, CloseEnds(b, x)
      PROVE  CallsRecorded'
  BY <1>24, <1>i DEF HostTypeOK, InChain, CallsRecorded, unrecordedButAllowed, CloseEnds, TakesRec
<1>25. CASE AuditBreaks
  BY <1>25, <1>i DEF HostTypeOK, InChain, CallsRecorded, unrecordedButAllowed, AuditBreaks
<1>26. CASE Signal
  BY <1>26, <1>i DEF HostTypeOK, InChain, CallsRecorded, unrecordedButAllowed, Signal
<1>27. CASE StopReading
  BY <1>27, <1>i DEF HostTypeOK, InChain, CallsRecorded, unrecordedButAllowed, StopReading
<1>28. CASE Drained
  BY <1>28, <1>i DEF HostTypeOK, InChain, CallsRecorded, unrecordedButAllowed, Drained
<1>29. CASE CloseBoxes
  BY <1>29, <1>i DEF HostTypeOK, InChain, CallsRecorded, unrecordedButAllowed, CloseBoxes
<1>30. CASE CloseAudit
  BY <1>30, <1>i DEF HostTypeOK, InChain, CallsRecorded, unrecordedButAllowed, CloseAudit
<1>31. CASE UNCHANGED vars
  BY <1>31, <1>i DEF HostTypeOK, InChain, CallsRecorded, unrecordedButAllowed, vars, hostVars, rigVars
<1> QED
  BY <1>1, <1>2, <1>3, <1>4, <1>5, <1>6, <1>7, <1>8, <1>9, <1>10, <1>11,
     <1>12, <1>13, <1>14, <1>15, <1>16, <1>17, <1>18, <1>19, <1>20, <1>21, <1>22,
     <1>23, <1>24, <1>25, <1>26, <1>27, <1>28, <1>29, <1>30, <1>31
  DEF Next, CallStep, AdoptStep, TeamStep, BootStep, CloseStep, WatchStep, ServerStep

\* closeAll's steps come in order, and nothing undoes what an earlier one did (closeAll).
LEMMA StagesNext ==
  HostInv /\ [Next]_vars => Stages'
<1> SUFFICES ASSUME HostInv, [Next]_vars
             PROVE  Stages'
  OBVIOUS
<1> USE NamesAre
<1>i. HostTypeOK /\ WithinMax /\ NoOrphan /\ Owned /\ InChain /\ CallsRecorded /\ Stages
  BY DEF HostInv
<1>t. ASSUME RigStep, rig \in {"none", "down"}
      PROVE  rig' = rig
  BY <1>t DEF RigStep, RaiseSteps, DownSteps, TemplateStep, MemberStep, WorkerStep,
     Collect, ConfirmFails, Publish, Snapshot, StopNext, RemoveState, EndRecord,
     TemplateFails, StoreTemplate, TemplateGone, BootSucceeds, BootFails, StopBegins,
     StopEnds, TimerFires, TimerWrites, TimerQuits, TimerDone, Spawn, Add, AddWrites, WriteState
<1>1. CASE RigStep /\ UNCHANGED hostVars
  BY <1>1, <1>i, <1>t DEF Stages, InFlight, hostVars
<1>2. ASSUME NEW c \in Callers, NEW t \in client, NEW b \in Needs(t), Admit(c, t, b)
      PROVE  Stages'
  BY <1>2, <1>i DEF HostTypeOK, Stages, Owned, Closing, InFlight, TeamSettled, rigVars, Admit, Logs
<1>3. ASSUME NEW c \in Callers, Answer(c)
      PROVE  Stages'
  BY <1>3, <1>i DEF HostTypeOK, Stages, Owned, Closing, InFlight, TeamSettled, rigVars, Answer, Logs
<1>4. ASSUME NEW c \in Callers, Refuse(c)
      PROVE  Stages'
  BY <1>4, <1>i DEF HostTypeOK, Stages, Owned, Closing, InFlight, TeamSettled, rigVars, Refuse
<1>5. ASSUME NEW c \in Callers, Room(c)
      PROVE  Stages'
  <2>1. Fresh(Asked(c)) \subseteq Unused
    BY <1>5, RoomIs
  <2> QED  BY <1>5, <1>i, <2>1 DEF HostTypeOK, Stages, Owned, Closing, InFlight, TeamSettled, rigVars, Room, Unused
<1>6. ASSUME NEW c \in Callers, AdoptsDone(c)
      PROVE  Stages'
  BY <1>6, <1>i DEF HostTypeOK, Stages, Owned, Closing, InFlight, TeamSettled, rigVars, AdoptsDone
<1>7. ASSUME NEW c \in Callers, Find(c)
      PROVE  Stages'
  BY <1>7, <1>i DEF HostTypeOK, Stages, Owned, Closing, InFlight, TeamSettled, rigVars, Find
<1>8. ASSUME NEW c \in Callers, UseReturns(c)
      PROVE  Stages'
  BY <1>8, <1>i DEF HostTypeOK, Stages, Owned, Closing, InFlight, TeamSettled, rigVars, UseReturns
<1>9. ASSUME NEW c \in Callers, Abandon(c)
      PROVE  Stages'
  BY <1>9, <1>i DEF HostTypeOK, Stages, Owned, Closing, InFlight, TeamSettled, rigVars, Abandon
<1>10. ASSUME NEW c \in Callers, StopTool(c)
      PROVE  Stages'
  BY <1>10, <1>i DEF HostTypeOK, Stages, Owned, Closing, InFlight, TeamSettled, rigVars, StopTool
<1>11. ASSUME NEW c \in Callers, TakeTeam(c)
      PROVE  Stages'
  BY <1>11, <1>i DEF HostTypeOK, Stages, Owned, Closing, InFlight, TeamSettled, rigVars, TakeTeam
<1>12. ASSUME NEW c \in Callers, TeamReturns(c)
      PROVE  Stages'
  BY <1>12, <1>i DEF HostTypeOK, Stages, Owned, Closing, InFlight, TeamSettled, rigVars, TeamReturns
<1>13. ASSUME NEW c \in Callers, NEW b \in Boxes, Adopt(c, b)
      PROVE  Stages'
  BY <1>13, <1>i DEF HostTypeOK, Stages, Owned, Closing, InFlight, TeamSettled, rigVars, Adopt
<1>14. ASSUME NEW c \in Callers, NEW b \in Boxes, AdoptRefused(c, b)
      PROVE  Stages'
  BY <1>14, <1>i DEF HostTypeOK, Stages, Owned, Closing, InFlight, TeamSettled, rigVars, AdoptRefused
<1>15. ASSUME NEW c \in Callers \cup {Server}, TeamUp(c)
      PROVE  Stages'
  BY <1>15, <1>i DEF HostTypeOK, Stages, Owned, Closing, InFlight, TeamSettled, rigVars, TeamUp, hostVars
<1>16. ASSUME NEW c \in Callers \cup {Server}, TeamDown(c)
      PROVE  Stages'
  BY <1>16, <1>i DEF HostTypeOK, Stages, Owned, Closing, InFlight, TeamSettled, rigVars, TeamDown, hostVars
<1>17. ASSUME NEW b \in Boxes, BoxBoots(b)
      PROVE  Stages'
  BY <1>17, <1>i DEF HostTypeOK, Stages, Owned, Closing, InFlight, TeamSettled, rigVars, BoxBoots
<1>18. ASSUME NEW b \in Boxes, BoxFails(b)
      PROVE  Stages'
  BY <1>18, <1>i DEF HostTypeOK, Stages, Owned, Closing, InFlight, TeamSettled, rigVars, BoxFails
<1>19. ASSUME NEW b \in Boxes, Shut(b)
      PROVE  Stages'
  BY <1>19, <1>i DEF HostTypeOK, Stages, Owned, Closing, InFlight, TeamSettled, rigVars, Shut
<1>20. ASSUME NEW b \in Boxes, WatchFires(b)
      PROVE  Stages'
  BY <1>20, <1>i DEF HostTypeOK, Stages, Owned, Closing, InFlight, TeamSettled, rigVars, WatchFires
<1>21. ASSUME NEW b \in Boxes, WatchEnds(b)
      PROVE  Stages'
  BY <1>21, <1>i DEF HostTypeOK, Stages, Owned, Closing, InFlight, TeamSettled, rigVars, WatchEnds
<1>22. ASSUME NEW b \in Boxes, WatchRemoves(b)
      PROVE  Stages'
  BY <1>22, <1>i DEF HostTypeOK, Stages, Owned, Closing, InFlight, TeamSettled, rigVars, WatchRemoves
<1>23. ASSUME NEW b \in Boxes, RecBreaks(b)
      PROVE  Stages'
  BY <1>23, <1>i DEF HostTypeOK, Stages, Owned, Closing, InFlight, TeamSettled, rigVars, RecBreaks
<1>24. ASSUME NEW b \in Boxes, NEW x \in Callers \cup Boxes \cup {Server}, CloseEnds(b, x)
      PROVE  Stages'
  BY <1>24, <1>i DEF HostTypeOK, Stages, Owned, Closing, InFlight, TeamSettled, rigVars, CloseEnds, TakesRec
<1>25. CASE AuditBreaks
  BY <1>25, <1>i DEF HostTypeOK, Stages, Owned, Closing, InFlight, TeamSettled, rigVars, AuditBreaks
<1>26. CASE Signal
  BY <1>26, <1>i DEF HostTypeOK, Stages, Owned, Closing, InFlight, TeamSettled, rigVars, Signal
<1>27. CASE StopReading
  BY <1>27, <1>i DEF HostTypeOK, Stages, Owned, Closing, InFlight, TeamSettled, rigVars, StopReading
<1>28. CASE Drained
  BY <1>28, <1>i DEF HostTypeOK, Stages, Owned, Closing, InFlight, TeamSettled, rigVars, Drained
<1>29. CASE CloseBoxes
  BY <1>29, <1>i DEF HostTypeOK, Stages, Owned, Closing, InFlight, TeamSettled, rigVars, CloseBoxes
<1>30. CASE CloseAudit
  BY <1>30, <1>i DEF HostTypeOK, Stages, Owned, Closing, InFlight, TeamSettled, rigVars, CloseAudit
<1>31. CASE UNCHANGED vars
  BY <1>31, <1>i DEF Stages, InFlight, vars, hostVars, rigVars
<1> QED
  BY <1>1, <1>2, <1>3, <1>4, <1>5, <1>6, <1>7, <1>8, <1>9, <1>10, <1>11,
     <1>12, <1>13, <1>14, <1>15, <1>16, <1>17, <1>18, <1>19, <1>20, <1>21, <1>22,
     <1>23, <1>24, <1>25, <1>26, <1>27, <1>28, <1>29, <1>30, <1>31
  DEF Next, CallStep, AdoptStep, TeamStep, BootStep, CloseStep, WatchStep, ServerStep

\* A server that has just started satisfies the inductive invariant.
LEMMA HostInitHolds ==
  Init => HostInv
<1> SUFFICES ASSUME Init
             PROVE  HostInv
  OBVIOUS
<1> USE NamesAre
<1>1. HostTypeOK
  BY DEF Init, HostTypeOK
<1>2. WithinMax
  <2>1. boxes = {} /\ Cardinality({}) = 0 /\ MaxBoxes \in Nat
    BY HostAssumption, FS_EmptySet DEF Init
  <2> QED  BY <2>1 DEF WithinMax
<1>3. NoOrphan /\ InChain /\ CallsRecorded
  BY DEF Init, NoOrphan, InChain, CallsRecorded
<1>4. Owned
  BY DEF Init, Owned, Held, Closing, Chained
<1>5. Stages
  BY DEF Init, Stages, InFlight
<1> QED  BY <1>1, <1>2, <1>3, <1>4, <1>5 DEF HostInv

\* Every step of the server and of its team keeps the inductive invariant.
LEMMA HostNextHolds ==
  HostInv /\ [Next]_vars => HostInv'
<1> SUFFICES ASSUME HostInv, [Next]_vars
             PROVE  HostInv'
  OBVIOUS
<1>1. Owned'
  BY HeldNext, ClosingNext, ChainedNext DEF Owned
<1>2. HostTypeOK' /\ WithinMax' /\ NoOrphan'
  BY HostTypeNext, WithinMaxNext, NoOrphanNext
<1>3. InChain' /\ CallsRecorded' /\ Stages'
  BY InChainNext, CallsRecordedNext, StagesNext
<1> QED  BY <1>1, <1>2, <1>3 DEF HostInv

\* What the server does is, to its team, a step of the rig, one of those that raise or
\* retire it, or nothing (serve-mcp holds the team through teamRig only).
LEMMA RigSteps ==
  [Next]_vars => [RigNext]_rigVars
<1> SUFFICES ASSUME [Next]_vars
             PROVE  [RigNext]_rigVars
  OBVIOUS
<1>1. CASE RigStep /\ UNCHANGED hostVars
  BY <1>1 DEF RigNext
<1>2. ASSUME NEW c \in Callers, NEW t \in client, NEW b \in Needs(t), Admit(c, t, b)
      PROVE  [RigNext]_rigVars
  BY <1>2 DEF Admit
<1>3. ASSUME NEW c \in Callers, Answer(c)
      PROVE  [RigNext]_rigVars
  BY <1>3 DEF Answer
<1>4. ASSUME NEW c \in Callers, Refuse(c)
      PROVE  [RigNext]_rigVars
  BY <1>4 DEF Refuse
<1>5. ASSUME NEW c \in Callers, Room(c)
      PROVE  [RigNext]_rigVars
  BY <1>5 DEF Room
<1>6. ASSUME NEW c \in Callers, AdoptsDone(c)
      PROVE  [RigNext]_rigVars
  BY <1>6 DEF AdoptsDone
<1>7. ASSUME NEW c \in Callers, Find(c)
      PROVE  [RigNext]_rigVars
  BY <1>7 DEF Find
<1>8. ASSUME NEW c \in Callers, UseReturns(c)
      PROVE  [RigNext]_rigVars
  BY <1>8 DEF UseReturns
<1>9. ASSUME NEW c \in Callers, Abandon(c)
      PROVE  [RigNext]_rigVars
  BY <1>9 DEF Abandon
<1>10. ASSUME NEW c \in Callers, StopTool(c)
      PROVE  [RigNext]_rigVars
  BY <1>10 DEF StopTool
<1>11. ASSUME NEW c \in Callers, TakeTeam(c)
      PROVE  [RigNext]_rigVars
  BY <1>11 DEF TakeTeam
<1>12. ASSUME NEW c \in Callers, TeamReturns(c)
      PROVE  [RigNext]_rigVars
  BY <1>12 DEF TeamReturns
<1>13. ASSUME NEW c \in Callers, NEW b \in Boxes, Adopt(c, b)
      PROVE  [RigNext]_rigVars
  BY <1>13 DEF Adopt
<1>14. ASSUME NEW c \in Callers, NEW b \in Boxes, AdoptRefused(c, b)
      PROVE  [RigNext]_rigVars
  BY <1>14 DEF AdoptRefused
<1>15. ASSUME NEW c \in Callers \cup {Server}, TeamUp(c)
      PROVE  [RigNext]_rigVars
  BY <1>15 DEF RigNext, TeamUp
<1>16. ASSUME NEW c \in Callers \cup {Server}, TeamDown(c)
      PROVE  [RigNext]_rigVars
  BY <1>16 DEF RigNext, TeamDown
<1>17. ASSUME NEW b \in Boxes, BoxBoots(b)
      PROVE  [RigNext]_rigVars
  BY <1>17 DEF BoxBoots
<1>18. ASSUME NEW b \in Boxes, BoxFails(b)
      PROVE  [RigNext]_rigVars
  BY <1>18 DEF BoxFails
<1>19. ASSUME NEW b \in Boxes, Shut(b)
      PROVE  [RigNext]_rigVars
  BY <1>19 DEF Shut
<1>20. ASSUME NEW b \in Boxes, WatchFires(b)
      PROVE  [RigNext]_rigVars
  BY <1>20 DEF WatchFires
<1>21. ASSUME NEW b \in Boxes, WatchEnds(b)
      PROVE  [RigNext]_rigVars
  BY <1>21 DEF WatchEnds
<1>22. ASSUME NEW b \in Boxes, WatchRemoves(b)
      PROVE  [RigNext]_rigVars
  BY <1>22 DEF WatchRemoves
<1>23. ASSUME NEW b \in Boxes, RecBreaks(b)
      PROVE  [RigNext]_rigVars
  BY <1>23 DEF RecBreaks
<1>24. ASSUME NEW b \in Boxes, NEW x \in Callers \cup Boxes \cup {Server}, CloseEnds(b, x)
      PROVE  [RigNext]_rigVars
  BY <1>24 DEF CloseEnds
<1>25. CASE AuditBreaks
  BY <1>25 DEF AuditBreaks
<1>26. CASE Signal
  BY <1>26 DEF Signal
<1>27. CASE StopReading
  BY <1>27 DEF StopReading
<1>28. CASE Drained
  BY <1>28 DEF Drained
<1>29. CASE CloseBoxes
  BY <1>29 DEF CloseBoxes
<1>30. CASE CloseAudit
  BY <1>30 DEF CloseAudit
<1>31. CASE UNCHANGED vars
  BY <1>31 DEF vars
<1> QED
  BY <1>1, <1>2, <1>3, <1>4, <1>5, <1>6, <1>7, <1>8, <1>9, <1>10, <1>11,
     <1>12, <1>13, <1>14, <1>15, <1>16, <1>17, <1>18, <1>19, <1>20, <1>21, <1>22,
     <1>23, <1>24, <1>25, <1>26, <1>27, <1>28, <1>29, <1>30, <1>31
  DEF Next, CallStep, AdoptStep, TeamStep, BootStep, CloseStep, WatchStep, ServerStep

\* What the inductive invariant says of the end of a machine's chain and of the server.
LEMMA HostInvSafe ==
  HostInv => HostSafe
<1> SUFFICES ASSUME HostInv
             PROVE  HostSafe
  OBVIOUS
<1>i. HostTypeOK /\ WithinMax /\ NoOrphan /\ Owned /\ InChain /\ CallsRecorded /\ Stages
  BY DEF HostInv
<1>1. EndedOnce
  BY <1>i DEF HostTypeOK, Owned, Chained, EndedOnce
<1>2. ReturnedClean
  <2> SUFFICES ASSUME serve = "returned"
               PROVE  ReturnedClean
    BY DEF ReturnedClean
  <2>1. InFlight = {} /\ boxes = {} /\ rig \in {"none", "down"} /\ audit = "ended"
    BY <1>i DEF Stages
  <2>2. tmu = Nobody
    <3>1. tmu # Server
      BY <1>i DEF Stages
    <3>2. tmu \notin Callers
      BY <1>i, <2>1 DEF Stages, InFlight
    <3> QED  BY <1>i, <3>1, <3>2 DEF HostTypeOK
  <2>3. ASSUME NEW b \in Boxes, box[b] \in {"booting", "up"}
        PROVE  b \in closers[b]
    <3>1. \A c \in Callers : pc[c] \in {"unsent", "answered"}
      BY <2>1 DEF InFlight
    <3>2. closers[b] # {}
      BY <1>i, <2>1, <2>3, <3>1 DEF NoOrphan
    <3>3. Server \notin closers[b] /\ closers[b] \subseteq Callers \cup Boxes \cup {Server}
      BY <1>i DEF Stages, HostTypeOK
    <3>4. Closing(b)
      BY <1>i DEF Owned
    <3>5. closers[b] \cap Callers = {}
      BY <3>1, <3>4 DEF Closing
    <3> QED  BY <3>2, <3>3, <3>4, <3>5 DEF Closing
  <2> QED  BY <2>1, <2>2, <2>3 DEF ReturnedClean
<1> QED  BY <1>i, <1>1, <1>2 DEF HostSafe

--------------------------------------------------------------------------------
(* The theorems                                                                 *)

\* The inductive invariants of the rig and of the server hold in every state of a
\* server, whatever its client asks for (serve, raiseTeam).
THEOREM HostInductiveHolds ==
  Spec => [](RigInv /\ HostInv)
<1>1. Init => RigInv /\ HostInv
  BY RigInitHolds, HostInitHolds DEF Init
<1>2. (RigInv /\ HostInv) /\ [Next]_vars => (RigInv /\ HostInv)'
  BY RigSteps, RigNextHolds, HostNextHolds
<1> QED  BY <1>1, <1>2, PTL DEF Spec

\* The roster, the state file, the machines and the workspaces of a team agree, while it
\* is up and when it is down, for every list of agents and every set of workers
\* (raiseTeam, roster, agentRig.stop, teardown).
THEOREM RigIsSafe ==
  Spec => []RigSafe
<1>1. RigInv /\ HostInv => RigSafe
  BY RigInvSafe
<1> QED  BY <1>1, HostInductiveHolds, PTL

\* Never more machines than the limit, none without an owner, one end to a record, and
\* nothing behind when the server is done, for every limit and every number of calls
\* (servemcp.go, servemcpstate.go).
THEOREM HostIsSafe ==
  Spec => []HostSafe
<1>1. RigInv /\ HostInv => HostSafe
  BY HostInvSafe
<1> QED  BY <1>1, HostInductiveHolds, PTL
================================================================================
