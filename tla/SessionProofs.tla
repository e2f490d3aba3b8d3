---------------------------- MODULE SessionProofs ----------------------------
(***************************************************************************)
(* Theorems about Session, for every set of edits of the person and of     *)
(* pieces of the agent's work; and about the policy file a run is given.   *)
(***************************************************************************)
EXTENDS Session, Policy, ListProofs

\* No step of the session commands breaks a type.
LEMMA TypeNext ==
  TypeOK /\ [Next]_vars => TypeOK'
<1> SUFFICES ASSUME TypeOK, [Next]_vars
             PROVE  TypeOK'
  OBVIOUS
<1> USE DEF dirs, images, stage, stored, record, hist
<1> USE DEF Work, Machine
<1>1. ASSUME NEW x \in Edits, UserEdits(x)
      PROVE  TypeOK'
  BY <1>1 DEF TypeOK, UserEdits
<1>2. ASSUME NEW m \in Machine, NEW x \in Writes, AgentWrites(m, x)
      PROVE  TypeOK'
  BY <1>2 DEF TypeOK, AgentWrites, Running
<1>3. ASSUME NEW m \in Machine, GuestFlushes(m)
      PROVE  TypeOK'
  BY <1>3 DEF TypeOK, GuestFlushes, Running, Flushed
<1>4. ASSUME NEW m \in Machine, SkipWriteBack(m)
      PROVE  TypeOK'
  BY <1>4 DEF TypeOK, SkipWriteBack, At, End
<1>5. ASSUME NEW m \in Machine, Stage(m)
      PROVE  TypeOK'
  BY <1>5 DEF TypeOK, Stage, At, MayStage
<1>6. ASSUME NEW m \in Machine, Review(m, FALSE)
      PROVE  TypeOK'
  BY <1>6 DEF TypeOK, Review, At
<1>7. ASSUME NEW m \in Machine, CommitCheck(m)
      PROVE  TypeOK'
  BY <1>7 DEF TypeOK, CommitCheck, At
<1>8. ASSUME NEW m \in Machine, CommitAside(m)
      PROVE  TypeOK'
  <2>1. {host, prev, outs, edited, exposed, flushed}' \subseteq SUBSET Work
    BY <1>8 DEF TypeOK, CommitAside, At
  <2>2. {hostHere, marker, aged, badPrune, pausedAs, note}' \subseteq BOOLEAN
    BY <1>8 DEF TypeOK, CommitAside, At
  <2>3. pc' \in [Machine -> {"off", "packed", "up", "stopping", "stopped",
                               "staged", "checked", "aside", "placed", "ended"}]
    BY <1>8 DEF TypeOK, CommitAside, At
  <2>4. /\ {disk, cache, tree}' \subseteq [Machine -> SUBSET Work]
        /\ fp' \in [Machine -> SUBSET Work] /\ divert' \in [Machine -> BOOLEAN]
    BY <1>8 DEF TypeOK, CommitAside, At
  <2>5. /\ image' \subseteq Machine /\ manifest' \subseteq Machine
        /\ pauser' \in {"idle", "marked", "frozen", "stored"}
        /\ named' \in [here : BOOLEAN, disk : SUBSET Work, mem : SUBSET Work]
        /\ chain' \in {"none", "open", "ended", "erased", "gone"}
        /\ lister' \in {"idle", "live", "free"}
        /\ commits' \in Nat
    BY <1>8 DEF TypeOK, CommitAside, At
  <2> QED  BY <2>1, <2>2, <2>3, <2>4, <2>5 DEF TypeOK
<1>9. ASSUME NEW m \in Machine, CommitPlace(m)
      PROVE  TypeOK'
  <2>1. {host, prev, outs, edited, exposed, flushed}' \subseteq SUBSET Work
    BY <1>9 DEF TypeOK, CommitPlace, At, End
  <2>2. {hostHere, marker, aged, badPrune, pausedAs, note}' \subseteq BOOLEAN
    BY <1>9 DEF TypeOK, CommitPlace, At, End
  <2>3. pc' \in [Machine -> {"off", "packed", "up", "stopping", "stopped",
                               "staged", "checked", "aside", "placed", "ended"}]
    BY <1>9 DEF TypeOK, CommitPlace, At, End
  <2>4. /\ {disk, cache, tree}' \subseteq [Machine -> SUBSET Work]
        /\ fp' \in [Machine -> SUBSET Work] /\ divert' \in [Machine -> BOOLEAN]
    <3>1. ASSUME End(m)
          PROVE  tree' \in [Machine -> SUBSET Work] /\ fp' \in [Machine -> SUBSET Work]
                 /\ divert' \in [Machine -> BOOLEAN]
      BY <3>1 DEF TypeOK, End
    <3>2. UNCHANGED <<disk, cache>> /\ (UNCHANGED stage \/ End(m))
      BY <1>9 DEF CommitPlace
    <3> QED  BY <3>1, <3>2 DEF TypeOK
  <2>5. /\ image' \subseteq Machine /\ manifest' \subseteq Machine
        /\ pauser' \in {"idle", "marked", "frozen", "stored"}
        /\ named' \in [here : BOOLEAN, disk : SUBSET Work, mem : SUBSET Work]
        /\ chain' \in {"none", "open", "ended", "erased", "gone"}
        /\ lister' \in {"idle", "live", "free"}
        /\ commits' \in Nat
    BY <1>9 DEF TypeOK, CommitPlace, At, End
  <2> QED  BY <2>1, <2>2, <2>3, <2>4, <2>5 DEF TypeOK
<1>10. ASSUME NEW m \in Machine, CommitDiverted(m)
      PROVE  TypeOK'
  <2>1. {host, prev, outs, edited, exposed, flushed}' \subseteq SUBSET Work
    BY <1>10 DEF TypeOK, CommitDiverted, At, End
  <2>2. {hostHere, marker, aged, badPrune, pausedAs, note}' \subseteq BOOLEAN
    BY <1>10 DEF TypeOK, CommitDiverted, At, End
  <2>3. pc' \in [Machine -> {"off", "packed", "up", "stopping", "stopped",
                               "staged", "checked", "aside", "placed", "ended"}]
    BY <1>10 DEF TypeOK, CommitDiverted, At, End
  <2>4. /\ {disk, cache, tree}' \subseteq [Machine -> SUBSET Work]
        /\ fp' \in [Machine -> SUBSET Work] /\ divert' \in [Machine -> BOOLEAN]
    <3>1. ASSUME End(m)
          PROVE  tree' \in [Machine -> SUBSET Work] /\ fp' \in [Machine -> SUBSET Work]
                 /\ divert' \in [Machine -> BOOLEAN]
      BY <3>1 DEF TypeOK, End
    <3>2. UNCHANGED <<disk, cache>> /\ (UNCHANGED stage \/ End(m))
      BY <1>10 DEF CommitDiverted
    <3> QED  BY <3>1, <3>2 DEF TypeOK
  <2>5. /\ image' \subseteq Machine /\ manifest' \subseteq Machine
        /\ pauser' \in {"idle", "marked", "frozen", "stored"}
        /\ named' \in [here : BOOLEAN, disk : SUBSET Work, mem : SUBSET Work]
        /\ chain' \in {"none", "open", "ended", "erased", "gone"}
        /\ lister' \in {"idle", "live", "free"}
        /\ commits' \in Nat
    BY <1>10 DEF TypeOK, CommitDiverted, At, End
  <2> QED  BY <2>1, <2>2, <2>3, <2>4, <2>5 DEF TypeOK
<1>11. ASSUME NEW m \in Machine, DropImage(m)
      PROVE  TypeOK'
  BY <1>11 DEF TypeOK, DropImage, End, At
<1>12. ASSUME NEW m \in Machine, KillCommand(m)
      PROVE  TypeOK'
  BY <1>12 DEF TypeOK, KillCommand, End, At
<1>13. CASE Pack
  BY <1>13 DEF TypeOK, Pack, At
<1>14. CASE Boot
  <2>1. {host, prev, outs, edited, exposed, flushed}' \subseteq SUBSET Work
    BY <1>14 DEF TypeOK, Boot, At
  <2>2. {hostHere, marker, aged, badPrune, pausedAs, note}' \subseteq BOOLEAN
    BY <1>14 DEF TypeOK, Boot, At
  <2>3. pc' \in [Machine -> {"off", "packed", "up", "stopping", "stopped",
                               "staged", "checked", "aside", "placed", "ended"}]
    BY <1>14 DEF TypeOK, Boot, At
  <2>4. /\ {disk, cache, tree}' \subseteq [Machine -> SUBSET Work]
        /\ fp' \in [Machine -> SUBSET Work] /\ divert' \in [Machine -> BOOLEAN]
    BY <1>14 DEF TypeOK, Boot, At
  <2>5. /\ image' \subseteq Machine /\ manifest' \subseteq Machine
        /\ pauser' \in {"idle", "marked", "frozen", "stored"}
        /\ named' \in [here : BOOLEAN, disk : SUBSET Work, mem : SUBSET Work]
        /\ chain' \in {"none", "open", "ended", "erased", "gone"}
        /\ lister' \in {"idle", "live", "free"}
        /\ commits' \in Nat
    BY <1>14 DEF TypeOK, Boot, At
  <2> QED  BY <2>1, <2>2, <2>3, <2>4, <2>5 DEF TypeOK
<1>15. CASE ReadMarker
  BY <1>15 DEF TypeOK, ReadMarker, At
<1>16. CASE StopRun
  <2>1. {host, prev, outs, edited, exposed, flushed}' \subseteq SUBSET Work
    BY <1>16 DEF TypeOK, StopRun, Stopped, Flushed, At
  <2>2. {hostHere, marker, aged, badPrune, pausedAs, note}' \subseteq BOOLEAN
    BY <1>16 DEF TypeOK, StopRun, Stopped, Flushed, At
  <2>3. pc' \in [Machine -> {"off", "packed", "up", "stopping", "stopped",
                               "staged", "checked", "aside", "placed", "ended"}]
    BY <1>16 DEF TypeOK, StopRun, Stopped, Flushed, At
  <2>4. /\ {disk, cache, tree}' \subseteq [Machine -> SUBSET Work]
        /\ fp' \in [Machine -> SUBSET Work] /\ divert' \in [Machine -> BOOLEAN]
    BY <1>16 DEF TypeOK, StopRun, Stopped, Flushed, At
  <2>5. /\ image' \subseteq Machine /\ manifest' \subseteq Machine
        /\ pauser' \in {"idle", "marked", "frozen", "stored"}
        /\ named' \in [here : BOOLEAN, disk : SUBSET Work, mem : SUBSET Work]
        /\ chain' \in {"none", "open", "ended", "erased", "gone"}
        /\ lister' \in {"idle", "live", "free"}
        /\ commits' \in Nat
    BY <1>16 DEF TypeOK, StopRun, Stopped, Flushed, At
  <2> QED  BY <2>1, <2>2, <2>3, <2>4, <2>5 DEF TypeOK
<1>17. CASE PauseMark
  BY <1>17 DEF TypeOK, PauseMark, Running
<1>18. CASE PauseFreeze
  BY <1>18 DEF TypeOK, PauseFreeze, Running, Frozen
<1>19. CASE PauseStore
  BY <1>19 DEF TypeOK, PauseStore
<1>20. CASE PauseStop
  BY <1>20 DEF TypeOK, PauseStop, At
<1>21. CASE PauseFails
  BY <1>21 DEF TypeOK, PauseFails
<1>22. CASE Resume
  BY <1>22 DEF TypeOK, Resume, At
<1>23. CASE Restored
  BY <1>23 DEF TypeOK, Restored, At
<1>24. CASE StopResume
  BY <1>24 DEF TypeOK, StopResume, Stopped, Flushed, At
<1>25. CASE SessionsRemove
  BY <1>25 DEF TypeOK, SessionsRemove, Absent
<1>26. CASE Ages
  BY <1>26 DEF TypeOK, Ages
<1>27. CASE PruneLists
  BY <1>27 DEF TypeOK, PruneLists, IsRunning, HasRunDir
<1>28. CASE PruneEntry
  BY <1>28 DEF TypeOK, PruneEntry, IsRunning, HasRunDir
<1>29. CASE Erase
  BY <1>29 DEF TypeOK, Erase, IsRunning, HasRunDir
<1>30. CASE UNCHANGED vars
  BY <1>30 DEF TypeOK, vars
<1> QED
  BY <1>1, <1>2, <1>3, <1>4, <1>5, <1>6, <1>7, <1>8, <1>9, <1>10,
     <1>11, <1>12, <1>13, <1>14, <1>15, <1>16, <1>17, <1>18, <1>19, <1>20,
     <1>21, <1>22, <1>23, <1>24, <1>25, <1>26, <1>27, <1>28, <1>29, <1>30
  DEF Next, WriteBack

\* A command replaces the directory once, after its last comparison (Commit,
\* workspace.go).
LEMMA CountedNext ==
  TypeOK /\ Counted /\ [Next]_vars => Counted'
<1> SUFFICES ASSUME TypeOK, Counted, [Next]_vars
             PROVE  Counted'
  OBVIOUS
<1> USE DEF dirs, images, stage, stored, record, hist
<1>1. ASSUME NEW x \in Edits, UserEdits(x)
      PROVE  Counted'
  BY <1>1 DEF TypeOK, Counted, Before, Machine, UserEdits
<1>2. ASSUME NEW m \in Machine, NEW x \in Writes, AgentWrites(m, x)
      PROVE  Counted'
  BY <1>2 DEF TypeOK, Counted, Before, Machine, AgentWrites, Running
<1>3. ASSUME NEW m \in Machine, GuestFlushes(m)
      PROVE  Counted'
  BY <1>3 DEF TypeOK, Counted, Before, Machine, GuestFlushes, Running, Flushed
<1>4. ASSUME NEW m \in Machine, SkipWriteBack(m)
      PROVE  Counted'
  BY <1>4 DEF TypeOK, Counted, Before, Machine, SkipWriteBack, At, End
<1>5. ASSUME NEW m \in Machine, Stage(m)
      PROVE  Counted'
  BY <1>5 DEF TypeOK, Counted, Before, Machine, Stage, At, MayStage
<1>6. ASSUME NEW m \in Machine, Review(m, FALSE)
      PROVE  Counted'
  BY <1>6 DEF TypeOK, Counted, Before, Machine, Review, At
<1>7. ASSUME NEW m \in Machine, CommitCheck(m)
      PROVE  Counted'
  BY <1>7 DEF TypeOK, Counted, Before, Machine, CommitCheck, At
<1>8. ASSUME NEW m \in Machine, CommitAside(m)
      PROVE  Counted'
  BY <1>8 DEF TypeOK, Counted, Before, Machine, CommitAside, At
<1>9. ASSUME NEW m \in Machine, CommitPlace(m)
      PROVE  Counted'
  BY <1>9 DEF TypeOK, Counted, Before, Machine, CommitPlace, At, End
<1>10. ASSUME NEW m \in Machine, CommitDiverted(m)
      PROVE  Counted'
  BY <1>10 DEF TypeOK, Counted, Before, Machine, CommitDiverted, At, End
<1>11. ASSUME NEW m \in Machine, DropImage(m)
      PROVE  Counted'
  BY <1>11 DEF TypeOK, Counted, Before, Machine, DropImage, End, At
<1>12. ASSUME NEW m \in Machine, KillCommand(m)
      PROVE  Counted'
  BY <1>12 DEF TypeOK, Counted, Before, Machine, KillCommand, End, At
<1>13. CASE Pack
  BY <1>13 DEF TypeOK, Counted, Before, Machine, Pack, At
<1>14. CASE Boot
  BY <1>14 DEF TypeOK, Counted, Before, Machine, Boot, At
<1>15. CASE ReadMarker
  BY <1>15 DEF TypeOK, Counted, Before, Machine, ReadMarker, At
<1>16. CASE StopRun
  BY <1>16 DEF TypeOK, Counted, Before, Machine, StopRun, Stopped, Flushed, At
<1>17. CASE PauseMark
  BY <1>17 DEF TypeOK, Counted, Before, Machine, PauseMark, Running
<1>18. CASE PauseFreeze
  BY <1>18 DEF TypeOK, Counted, Before, Machine, PauseFreeze, Running, Frozen
<1>19. CASE PauseStore
  BY <1>19 DEF TypeOK, Counted, Before, Machine, PauseStore
<1>20. CASE PauseStop
  BY <1>20 DEF TypeOK, Counted, Before, Machine, PauseStop, At
<1>21. CASE PauseFails
  BY <1>21 DEF TypeOK, Counted, Before, Machine, PauseFails
<1>22. CASE Resume
  BY <1>22 DEF TypeOK, Counted, Before, Machine, Resume, At
<1>23. CASE Restored
  BY <1>23 DEF TypeOK, Counted, Before, Machine, Restored, At
<1>24. CASE StopResume
  BY <1>24 DEF TypeOK, Counted, Before, Machine, StopResume, Stopped, Flushed, At
<1>25. CASE SessionsRemove
  BY <1>25 DEF TypeOK, Counted, Before, Machine, SessionsRemove, Absent
<1>26. CASE Ages
  BY <1>26 DEF TypeOK, Counted, Before, Machine, Ages
<1>27. CASE PruneLists
  BY <1>27 DEF TypeOK, Counted, Before, Machine, PruneLists, IsRunning, HasRunDir
<1>28. CASE PruneEntry
  BY <1>28 DEF TypeOK, Counted, Before, Machine, PruneEntry, IsRunning, HasRunDir
<1>29. CASE Erase
  BY <1>29 DEF TypeOK, Counted, Before, Machine, Erase, IsRunning, HasRunDir
<1>30. CASE UNCHANGED vars
  BY <1>30 DEF TypeOK, Counted, Before, Machine, vars
<1> QED
  BY <1>1, <1>2, <1>3, <1>4, <1>5, <1>6, <1>7, <1>8, <1>9, <1>10,
     <1>11, <1>12, <1>13, <1>14, <1>15, <1>16, <1>17, <1>18, <1>19, <1>20,
     <1>21, <1>22, <1>23, <1>24, <1>25, <1>26, <1>27, <1>28, <1>29, <1>30
  DEF Next, WriteBack

\* The image a tree was extracted from is left alone until it is removed (run.go,
\* the write-back).
LEMMA ArrangedNext ==
  TypeOK /\ Arranged /\ [Next]_vars => Arranged'
<1> SUFFICES ASSUME TypeOK, Arranged, [Next]_vars
             PROVE  Arranged'
  OBVIOUS
<1> USE DEF dirs, images, stage, stored, record, hist
<1>1. ASSUME NEW x \in Edits, UserEdits(x)
      PROVE  Arranged'
  BY <1>1 DEF TypeOK, Arranged, Machine, UserEdits
<1>2. ASSUME NEW m \in Machine, NEW x \in Writes, AgentWrites(m, x)
      PROVE  Arranged'
  BY <1>2 DEF TypeOK, Arranged, Machine, AgentWrites, Running
<1>3. ASSUME NEW m \in Machine, GuestFlushes(m)
      PROVE  Arranged'
  BY <1>3 DEF TypeOK, Arranged, Machine, GuestFlushes, Running, Flushed
<1>4. ASSUME NEW m \in Machine, SkipWriteBack(m)
      PROVE  Arranged'
  BY <1>4 DEF TypeOK, Arranged, Machine, SkipWriteBack, At, End
<1>5. ASSUME NEW m \in Machine, Stage(m)
      PROVE  Arranged'
  BY <1>5 DEF TypeOK, Arranged, Machine, Stage, At, MayStage
<1>6. ASSUME NEW m \in Machine, Review(m, FALSE)
      PROVE  Arranged'
  BY <1>6 DEF TypeOK, Arranged, Machine, Review, At
<1>7. ASSUME NEW m \in Machine, CommitCheck(m)
      PROVE  Arranged'
  BY <1>7 DEF TypeOK, Arranged, Machine, CommitCheck, At
<1>8. ASSUME NEW m \in Machine, CommitAside(m)
      PROVE  Arranged'
  BY <1>8 DEF TypeOK, Arranged, Machine, CommitAside, At
<1>9. ASSUME NEW m \in Machine, CommitPlace(m)
      PROVE  Arranged'
  BY <1>9 DEF TypeOK, Arranged, Machine, CommitPlace, At, End
<1>10. ASSUME NEW m \in Machine, CommitDiverted(m)
      PROVE  Arranged'
  BY <1>10 DEF TypeOK, Arranged, Machine, CommitDiverted, At, End
<1>11. ASSUME NEW m \in Machine, DropImage(m)
      PROVE  Arranged'
  BY <1>11 DEF TypeOK, Arranged, Machine, DropImage, End, At
<1>12. ASSUME NEW m \in Machine, KillCommand(m)
      PROVE  Arranged'
  BY <1>12 DEF TypeOK, Arranged, Machine, KillCommand, End, At
<1>13. CASE Pack
  BY <1>13 DEF TypeOK, Arranged, Machine, Pack, At
<1>14. CASE Boot
  BY <1>14 DEF TypeOK, Arranged, Machine, Boot, At
<1>15. CASE ReadMarker
  BY <1>15 DEF TypeOK, Arranged, Machine, ReadMarker, At
<1>16. CASE StopRun
  BY <1>16 DEF TypeOK, Arranged, Machine, StopRun, Stopped, Flushed, At
<1>17. CASE PauseMark
  BY <1>17 DEF TypeOK, Arranged, Machine, PauseMark, Running
<1>18. CASE PauseFreeze
  BY <1>18 DEF TypeOK, Arranged, Machine, PauseFreeze, Running, Frozen
<1>19. CASE PauseStore
  BY <1>19 DEF TypeOK, Arranged, Machine, PauseStore
<1>20. CASE PauseStop
  BY <1>20 DEF TypeOK, Arranged, Machine, PauseStop, At
<1>21. CASE PauseFails
  BY <1>21 DEF TypeOK, Arranged, Machine, PauseFails
<1>22. CASE Resume
  BY <1>22 DEF TypeOK, Arranged, Machine, Resume, At
<1>23. CASE Restored
  BY <1>23 DEF TypeOK, Arranged, Machine, Restored, At
<1>24. CASE StopResume
  BY <1>24 DEF TypeOK, Arranged, Machine, StopResume, Stopped, Flushed, At
<1>25. CASE SessionsRemove
  BY <1>25 DEF TypeOK, Arranged, Machine, SessionsRemove, Absent
<1>26. CASE Ages
  BY <1>26 DEF TypeOK, Arranged, Machine, Ages
<1>27. CASE PruneLists
  BY <1>27 DEF TypeOK, Arranged, Machine, PruneLists, IsRunning, HasRunDir
<1>28. CASE PruneEntry
  BY <1>28 DEF TypeOK, Arranged, Machine, PruneEntry, IsRunning, HasRunDir
<1>29. CASE Erase
  BY <1>29 DEF TypeOK, Arranged, Machine, Erase, IsRunning, HasRunDir
<1>30. CASE UNCHANGED vars
  BY <1>30 DEF TypeOK, Arranged, Machine, vars
<1> QED
  BY <1>1, <1>2, <1>3, <1>4, <1>5, <1>6, <1>7, <1>8, <1>9, <1>10,
     <1>11, <1>12, <1>13, <1>14, <1>15, <1>16, <1>17, <1>18, <1>19, <1>20,
     <1>21, <1>22, <1>23, <1>24, <1>25, <1>26, <1>27, <1>28, <1>29, <1>30
  DEF Next, WriteBack

\* The manifest PackWorkspace wrote is there when the run's image is staged, so no
\* empty tree is (workspace.go).
LEMMA WitnessedNext ==
  TypeOK /\ Arranged /\ Witnessed /\ [Next]_vars => Witnessed'
<1> SUFFICES ASSUME TypeOK, Arranged, Witnessed, [Next]_vars
             PROVE  Witnessed'
  OBVIOUS
<1> USE DEF dirs, images, stage, stored, record, hist
<1>1. ASSUME NEW x \in Edits, UserEdits(x)
      PROVE  Witnessed'
  BY <1>1 DEF TypeOK, Arranged, Witnessed, Machine, UserEdits
<1>2. ASSUME NEW m \in Machine, NEW x \in Writes, AgentWrites(m, x)
      PROVE  Witnessed'
  BY <1>2 DEF TypeOK, Arranged, Witnessed, Machine, AgentWrites, Running
<1>3. ASSUME NEW m \in Machine, GuestFlushes(m)
      PROVE  Witnessed'
  BY <1>3 DEF TypeOK, Arranged, Witnessed, Machine, GuestFlushes, Running, Flushed
<1>4. ASSUME NEW m \in Machine, SkipWriteBack(m)
      PROVE  Witnessed'
  BY <1>4 DEF TypeOK, Arranged, Witnessed, Machine, SkipWriteBack, At, End
<1>5. ASSUME NEW m \in Machine, Stage(m)
      PROVE  Witnessed'
  BY <1>5 DEF TypeOK, Arranged, Witnessed, Machine, Stage, At, MayStage
<1>6. ASSUME NEW m \in Machine, Review(m, FALSE)
      PROVE  Witnessed'
  BY <1>6 DEF TypeOK, Arranged, Witnessed, Machine, Review, At
<1>7. ASSUME NEW m \in Machine, CommitCheck(m)
      PROVE  Witnessed'
  BY <1>7 DEF TypeOK, Arranged, Witnessed, Machine, CommitCheck, At
<1>8. ASSUME NEW m \in Machine, CommitAside(m)
      PROVE  Witnessed'
  BY <1>8 DEF TypeOK, Arranged, Witnessed, Machine, CommitAside, At
<1>9. ASSUME NEW m \in Machine, CommitPlace(m)
      PROVE  Witnessed'
  BY <1>9 DEF TypeOK, Arranged, Witnessed, Machine, CommitPlace, At, End
<1>10. ASSUME NEW m \in Machine, CommitDiverted(m)
      PROVE  Witnessed'
  BY <1>10 DEF TypeOK, Arranged, Witnessed, Machine, CommitDiverted, At, End
<1>11. ASSUME NEW m \in Machine, DropImage(m)
      PROVE  Witnessed'
  BY <1>11 DEF TypeOK, Arranged, Witnessed, Machine, DropImage, End, At
<1>12. ASSUME NEW m \in Machine, KillCommand(m)
      PROVE  Witnessed'
  BY <1>12 DEF TypeOK, Arranged, Witnessed, Machine, KillCommand, End, At
<1>13. CASE Pack
  BY <1>13 DEF TypeOK, Arranged, Witnessed, Machine, Pack, At
<1>14. CASE Boot
  BY <1>14 DEF TypeOK, Arranged, Witnessed, Machine, Boot, At
<1>15. CASE ReadMarker
  BY <1>15 DEF TypeOK, Arranged, Witnessed, Machine, ReadMarker, At
<1>16. CASE StopRun
  BY <1>16 DEF TypeOK, Arranged, Witnessed, Machine, StopRun, Stopped, Flushed, At
<1>17. CASE PauseMark
  BY <1>17 DEF TypeOK, Arranged, Witnessed, Machine, PauseMark, Running
<1>18. CASE PauseFreeze
  BY <1>18 DEF TypeOK, Arranged, Witnessed, Machine, PauseFreeze, Running, Frozen
<1>19. CASE PauseStore
  BY <1>19 DEF TypeOK, Arranged, Witnessed, Machine, PauseStore
<1>20. CASE PauseStop
  BY <1>20 DEF TypeOK, Arranged, Witnessed, Machine, PauseStop, At
<1>21. CASE PauseFails
  BY <1>21 DEF TypeOK, Arranged, Witnessed, Machine, PauseFails
<1>22. CASE Resume
  BY <1>22 DEF TypeOK, Arranged, Witnessed, Machine, Resume, At
<1>23. CASE Restored
  BY <1>23 DEF TypeOK, Arranged, Witnessed, Machine, Restored, At
<1>24. CASE StopResume
  BY <1>24 DEF TypeOK, Arranged, Witnessed, Machine, StopResume, Stopped, Flushed, At
<1>25. CASE SessionsRemove
  BY <1>25 DEF TypeOK, Arranged, Witnessed, Machine, SessionsRemove, Absent
<1>26. CASE Ages
  BY <1>26 DEF TypeOK, Arranged, Witnessed, Machine, Ages
<1>27. CASE PruneLists
  BY <1>27 DEF TypeOK, Arranged, Witnessed, Machine, PruneLists, IsRunning, HasRunDir
<1>28. CASE PruneEntry
  BY <1>28 DEF TypeOK, Arranged, Witnessed, Machine, PruneEntry, IsRunning, HasRunDir
<1>29. CASE Erase
  BY <1>29 DEF TypeOK, Arranged, Witnessed, Machine, Erase, IsRunning, HasRunDir
<1>30. CASE UNCHANGED vars
  BY <1>30 DEF TypeOK, Arranged, Witnessed, Machine, vars
<1> QED
  BY <1>1, <1>2, <1>3, <1>4, <1>5, <1>6, <1>7, <1>8, <1>9, <1>10,
     <1>11, <1>12, <1>13, <1>14, <1>15, <1>16, <1>17, <1>18, <1>19, <1>20,
     <1>21, <1>22, <1>23, <1>24, <1>25, <1>26, <1>27, <1>28, <1>29, <1>30
  DEF Next, WriteBack

\* Whoever takes a record into use writes to it first, which makes it young again
\* (pause and resume, sessions.go).
LEMMA YoungNext ==
  TypeOK /\ YoungWhenUsed /\ [Next]_vars => YoungWhenUsed'
<1> SUFFICES ASSUME TypeOK, YoungWhenUsed, [Next]_vars
             PROVE  YoungWhenUsed'
  OBVIOUS
<1> USE DEF dirs, images, stage, stored, record, hist
<1>1. ASSUME NEW x \in Edits, UserEdits(x)
      PROVE  YoungWhenUsed'
  BY <1>1 DEF TypeOK, YoungWhenUsed, Machine, UserEdits
<1>2. ASSUME NEW m \in Machine, NEW x \in Writes, AgentWrites(m, x)
      PROVE  YoungWhenUsed'
  BY <1>2 DEF TypeOK, YoungWhenUsed, Machine, AgentWrites, Running
<1>3. ASSUME NEW m \in Machine, GuestFlushes(m)
      PROVE  YoungWhenUsed'
  BY <1>3 DEF TypeOK, YoungWhenUsed, Machine, GuestFlushes, Running, Flushed
<1>4. ASSUME NEW m \in Machine, SkipWriteBack(m)
      PROVE  YoungWhenUsed'
  BY <1>4 DEF TypeOK, YoungWhenUsed, Machine, SkipWriteBack, At, End
<1>5. ASSUME NEW m \in Machine, Stage(m)
      PROVE  YoungWhenUsed'
  BY <1>5 DEF TypeOK, YoungWhenUsed, Machine, Stage, At, MayStage
<1>6. ASSUME NEW m \in Machine, Review(m, FALSE)
      PROVE  YoungWhenUsed'
  BY <1>6 DEF TypeOK, YoungWhenUsed, Machine, Review, At
<1>7. ASSUME NEW m \in Machine, CommitCheck(m)
      PROVE  YoungWhenUsed'
  BY <1>7 DEF TypeOK, YoungWhenUsed, Machine, CommitCheck, At
<1>8. ASSUME NEW m \in Machine, CommitAside(m)
      PROVE  YoungWhenUsed'
  BY <1>8 DEF TypeOK, YoungWhenUsed, Machine, CommitAside, At
<1>9. ASSUME NEW m \in Machine, CommitPlace(m)
      PROVE  YoungWhenUsed'
  BY <1>9 DEF TypeOK, YoungWhenUsed, Machine, CommitPlace, At, End
<1>10. ASSUME NEW m \in Machine, CommitDiverted(m)
      PROVE  YoungWhenUsed'
  BY <1>10 DEF TypeOK, YoungWhenUsed, Machine, CommitDiverted, At, End
<1>11. ASSUME NEW m \in Machine, DropImage(m)
      PROVE  YoungWhenUsed'
  BY <1>11 DEF TypeOK, YoungWhenUsed, Machine, DropImage, End, At
<1>12. ASSUME NEW m \in Machine, KillCommand(m)
      PROVE  YoungWhenUsed'
  BY <1>12 DEF TypeOK, YoungWhenUsed, Machine, KillCommand, End, At
<1>13. CASE Pack
  BY <1>13 DEF TypeOK, YoungWhenUsed, Machine, Pack, At
<1>14. CASE Boot
  BY <1>14 DEF TypeOK, YoungWhenUsed, Machine, Boot, At
<1>15. CASE ReadMarker
  BY <1>15 DEF TypeOK, YoungWhenUsed, Machine, ReadMarker, At
<1>16. CASE StopRun
  BY <1>16 DEF TypeOK, YoungWhenUsed, Machine, StopRun, Stopped, Flushed, At
<1>17. CASE PauseMark
  BY <1>17 DEF TypeOK, YoungWhenUsed, Machine, PauseMark, Running
<1>18. CASE PauseFreeze
  BY <1>18 DEF TypeOK, YoungWhenUsed, Machine, PauseFreeze, Running, Frozen
<1>19. CASE PauseStore
  BY <1>19 DEF TypeOK, YoungWhenUsed, Machine, PauseStore
<1>20. CASE PauseStop
  BY <1>20 DEF TypeOK, YoungWhenUsed, Machine, PauseStop, At
<1>21. CASE PauseFails
  BY <1>21 DEF TypeOK, YoungWhenUsed, Machine, PauseFails
<1>22. CASE Resume
  BY <1>22 DEF TypeOK, YoungWhenUsed, Machine, Resume, At
<1>23. CASE Restored
  BY <1>23 DEF TypeOK, YoungWhenUsed, Machine, Restored, At
<1>24. CASE StopResume
  BY <1>24 DEF TypeOK, YoungWhenUsed, Machine, StopResume, Stopped, Flushed, At
<1>25. CASE SessionsRemove
  BY <1>25 DEF TypeOK, YoungWhenUsed, Machine, SessionsRemove, Absent
<1>26. CASE Ages
  BY <1>26 DEF TypeOK, YoungWhenUsed, Machine, Ages
<1>27. CASE PruneLists
  BY <1>27 DEF TypeOK, YoungWhenUsed, Machine, PruneLists, IsRunning, HasRunDir
<1>28. CASE PruneEntry
  BY <1>28 DEF TypeOK, YoungWhenUsed, Machine, PruneEntry, IsRunning, HasRunDir
<1>29. CASE Erase
  BY <1>29 DEF TypeOK, YoungWhenUsed, Machine, Erase, IsRunning, HasRunDir
<1>30. CASE UNCHANGED vars
  BY <1>30 DEF TypeOK, YoungWhenUsed, Machine, vars
<1> QED
  BY <1>1, <1>2, <1>3, <1>4, <1>5, <1>6, <1>7, <1>8, <1>9, <1>10,
     <1>11, <1>12, <1>13, <1>14, <1>15, <1>16, <1>17, <1>18, <1>19, <1>20,
     <1>21, <1>22, <1>23, <1>24, <1>25, <1>26, <1>27, <1>28, <1>29, <1>30
  DEF Next, WriteBack

\* The agent's work that reached a disk is found again after every step of every
\* command (run.go, workspace.go).
LEMMA WorkNext ==
  TypeOK /\ Counted /\ Arranged /\ WorkTraced /\ WorkKept /\ [Next]_vars => (WorkTraced /\ WorkKept)'
<1> SUFFICES ASSUME TypeOK, Counted, Arranged, WorkTraced, WorkKept, [Next]_vars
             PROVE  (WorkTraced /\ WorkKept)'
  OBVIOUS
<1> USE DEF dirs, images, stage, stored, record, hist
<1> USE SessionAssumption
<1>1. ASSUME NEW x \in Edits, UserEdits(x)
      PROVE  (WorkTraced /\ WorkKept)'
  BY <1>1 DEF TypeOK, Counted, Arranged, WorkTraced, WorkKept, OnDisk, Before, Machine, Work, UserEdits
<1>2. ASSUME NEW m \in Machine, NEW x \in Writes, AgentWrites(m, x)
      PROVE  (WorkTraced /\ WorkKept)'
  BY <1>2 DEF TypeOK, Counted, Arranged, WorkTraced, WorkKept, OnDisk, Before, Machine, Work, AgentWrites, Running
<1>3. ASSUME NEW m \in Machine, GuestFlushes(m)
      PROVE  (WorkTraced /\ WorkKept)'
  BY <1>3 DEF TypeOK, Counted, Arranged, WorkTraced, WorkKept, OnDisk, Before, Machine, Work, GuestFlushes, Running, Flushed
<1>4. ASSUME NEW m \in Machine, SkipWriteBack(m)
      PROVE  (WorkTraced /\ WorkKept)'
  BY <1>4 DEF TypeOK, Counted, Arranged, WorkTraced, WorkKept, OnDisk, Before, Machine, Work, SkipWriteBack, At, End
<1>5. ASSUME NEW m \in Machine, Stage(m)
      PROVE  (WorkTraced /\ WorkKept)'
  BY <1>5 DEF TypeOK, Counted, Arranged, WorkTraced, WorkKept, OnDisk, Before, Machine, Work, Stage, At, MayStage
<1>6. ASSUME NEW m \in Machine, Review(m, FALSE)
      PROVE  (WorkTraced /\ WorkKept)'
  BY <1>6 DEF TypeOK, Counted, Arranged, WorkTraced, WorkKept, OnDisk, Before, Machine, Work, Review, At
<1>7. ASSUME NEW m \in Machine, CommitCheck(m)
      PROVE  (WorkTraced /\ WorkKept)'
  BY <1>7 DEF TypeOK, Counted, Arranged, WorkTraced, WorkKept, OnDisk, Before, Machine, Work, CommitCheck, At
<1>8. ASSUME NEW m \in Machine, CommitAside(m)
      PROVE  (WorkTraced /\ WorkKept)'
  BY <1>8 DEF TypeOK, Counted, Arranged, WorkTraced, WorkKept, OnDisk, Before, Machine, Work, CommitAside, At
<1>9. ASSUME NEW m \in Machine, CommitPlace(m)
      PROVE  (WorkTraced /\ WorkKept)'
  BY <1>9 DEF TypeOK, Counted, Arranged, WorkTraced, WorkKept, OnDisk, Before, Machine, Work, CommitPlace, At, End
<1>10. ASSUME NEW m \in Machine, CommitDiverted(m)
      PROVE  (WorkTraced /\ WorkKept)'
  BY <1>10 DEF TypeOK, Counted, Arranged, WorkTraced, WorkKept, OnDisk, Before, Machine, Work, CommitDiverted, At, End
<1>11. ASSUME NEW m \in Machine, DropImage(m)
      PROVE  (WorkTraced /\ WorkKept)'
  BY <1>11 DEF TypeOK, Counted, Arranged, WorkTraced, WorkKept, OnDisk, Before, Machine, Work, DropImage, End, At
<1>12. ASSUME NEW m \in Machine, KillCommand(m)
      PROVE  (WorkTraced /\ WorkKept)'
  BY <1>12 DEF TypeOK, Counted, Arranged, WorkTraced, WorkKept, OnDisk, Before, Machine, Work, KillCommand, End, At
<1>13. CASE Pack
  BY <1>13 DEF TypeOK, Counted, Arranged, WorkTraced, WorkKept, OnDisk, Before, Machine, Work, Pack, At
<1>14. CASE Boot
  BY <1>14 DEF TypeOK, Counted, Arranged, WorkTraced, WorkKept, OnDisk, Before, Machine, Work, Boot, At
<1>15. CASE ReadMarker
  BY <1>15 DEF TypeOK, Counted, Arranged, WorkTraced, WorkKept, OnDisk, Before, Machine, Work, ReadMarker, At
<1>16. CASE StopRun
  BY <1>16 DEF TypeOK, Counted, Arranged, WorkTraced, WorkKept, OnDisk, Before, Machine, Work, StopRun, Stopped, Flushed, At
<1>17. CASE PauseMark
  BY <1>17 DEF TypeOK, Counted, Arranged, WorkTraced, WorkKept, OnDisk, Before, Machine, Work, PauseMark, Running
<1>18. CASE PauseFreeze
  BY <1>18 DEF TypeOK, Counted, Arranged, WorkTraced, WorkKept, OnDisk, Before, Machine, Work, PauseFreeze, Running, Frozen
<1>19. CASE PauseStore
  BY <1>19 DEF TypeOK, Counted, Arranged, WorkTraced, WorkKept, OnDisk, Before, Machine, Work, PauseStore
<1>20. CASE PauseStop
  BY <1>20 DEF TypeOK, Counted, Arranged, WorkTraced, WorkKept, OnDisk, Before, Machine, Work, PauseStop, At
<1>21. CASE PauseFails
  BY <1>21 DEF TypeOK, Counted, Arranged, WorkTraced, WorkKept, OnDisk, Before, Machine, Work, PauseFails
<1>22. CASE Resume
  BY <1>22 DEF TypeOK, Counted, Arranged, WorkTraced, WorkKept, OnDisk, Before, Machine, Work, Resume, At
<1>23. CASE Restored
  BY <1>23 DEF TypeOK, Counted, Arranged, WorkTraced, WorkKept, OnDisk, Before, Machine, Work, Restored, At
<1>24. CASE StopResume
  BY <1>24 DEF TypeOK, Counted, Arranged, WorkTraced, WorkKept, OnDisk, Before, Machine, Work, StopResume, Stopped, Flushed, At
<1>25. CASE SessionsRemove
  BY <1>25 DEF TypeOK, Counted, Arranged, WorkTraced, WorkKept, OnDisk, Before, Machine, Work, SessionsRemove, Absent
<1>26. CASE Ages
  BY <1>26 DEF TypeOK, Counted, Arranged, WorkTraced, WorkKept, OnDisk, Before, Machine, Work, Ages
<1>27. CASE PruneLists
  BY <1>27 DEF TypeOK, Counted, Arranged, WorkTraced, WorkKept, OnDisk, Before, Machine, Work, PruneLists, IsRunning, HasRunDir
<1>28. CASE PruneEntry
  BY <1>28 DEF TypeOK, Counted, Arranged, WorkTraced, WorkKept, OnDisk, Before, Machine, Work, PruneEntry, IsRunning, HasRunDir
<1>29. CASE Erase
  BY <1>29 DEF TypeOK, Counted, Arranged, WorkTraced, WorkKept, OnDisk, Before, Machine, Work, Erase, IsRunning, HasRunDir
<1>30. CASE UNCHANGED vars
  BY <1>30 DEF TypeOK, Counted, Arranged, WorkTraced, WorkKept, OnDisk, Before, Machine, Work, vars
<1> QED
  BY <1>1, <1>2, <1>3, <1>4, <1>5, <1>6, <1>7, <1>8, <1>9, <1>10,
     <1>11, <1>12, <1>13, <1>14, <1>15, <1>16, <1>17, <1>18, <1>19, <1>20,
     <1>21, <1>22, <1>23, <1>24, <1>25, <1>26, <1>27, <1>28, <1>29, <1>30
  DEF Next, WriteBack

\* What the person edited stays in the directory or is set aside with it
\* (Commit, workspace.go).
LEMMA EditsNext ==
  TypeOK /\ Counted /\ Arranged /\ Witnessed /\ EditsTraced /\ EditsStay /\ [Next]_vars => (EditsTraced /\ EditsStay)'
<1> SUFFICES ASSUME TypeOK, Counted, Arranged, Witnessed, EditsTraced, EditsStay, [Next]_vars
             PROVE  (EditsTraced /\ EditsStay)'
  OBVIOUS
<1> USE DEF dirs, images, stage, stored, record, hist
<1>1. ASSUME NEW x \in Edits, UserEdits(x)
      PROVE  (EditsTraced /\ EditsStay)'
  BY <1>1 DEF TypeOK, Counted, Arranged, Witnessed, EditsTraced, EditsStay, Compared, Before, Machine, UserEdits
<1>2. ASSUME NEW m \in Machine, NEW x \in Writes, AgentWrites(m, x)
      PROVE  (EditsTraced /\ EditsStay)'
  BY <1>2 DEF TypeOK, Counted, Arranged, Witnessed, EditsTraced, EditsStay, Compared, Before, Machine, AgentWrites, Running
<1>3. ASSUME NEW m \in Machine, GuestFlushes(m)
      PROVE  (EditsTraced /\ EditsStay)'
  BY <1>3 DEF TypeOK, Counted, Arranged, Witnessed, EditsTraced, EditsStay, Compared, Before, Machine, GuestFlushes, Running, Flushed
<1>4. ASSUME NEW m \in Machine, SkipWriteBack(m)
      PROVE  (EditsTraced /\ EditsStay)'
  BY <1>4 DEF TypeOK, Counted, Arranged, Witnessed, EditsTraced, EditsStay, Compared, Before, Machine, SkipWriteBack, At, End
<1>5. ASSUME NEW m \in Machine, Stage(m)
      PROVE  (EditsTraced /\ EditsStay)'
  BY <1>5 DEF TypeOK, Counted, Arranged, Witnessed, EditsTraced, EditsStay, Compared, Before, Machine, Stage, At, MayStage
<1>6. ASSUME NEW m \in Machine, Review(m, FALSE)
      PROVE  (EditsTraced /\ EditsStay)'
  BY <1>6 DEF TypeOK, Counted, Arranged, Witnessed, EditsTraced, EditsStay, Compared, Before, Machine, Review, At
<1>7. ASSUME NEW m \in Machine, CommitCheck(m)
      PROVE  (EditsTraced /\ EditsStay)'
  BY <1>7 DEF TypeOK, Counted, Arranged, Witnessed, EditsTraced, EditsStay, Compared, Before, Machine, CommitCheck, At
<1>8. ASSUME NEW m \in Machine, CommitAside(m)
      PROVE  (EditsTraced /\ EditsStay)'
  BY <1>8 DEF TypeOK, Counted, Arranged, Witnessed, EditsTraced, EditsStay, Compared, Before, Machine, CommitAside, At
<1>9. ASSUME NEW m \in Machine, CommitPlace(m)
      PROVE  (EditsTraced /\ EditsStay)'
  BY <1>9 DEF TypeOK, Counted, Arranged, Witnessed, EditsTraced, EditsStay, Compared, Before, Machine, CommitPlace, At, End
<1>10. ASSUME NEW m \in Machine, CommitDiverted(m)
      PROVE  (EditsTraced /\ EditsStay)'
  BY <1>10 DEF TypeOK, Counted, Arranged, Witnessed, EditsTraced, EditsStay, Compared, Before, Machine, CommitDiverted, At, End
<1>11. ASSUME NEW m \in Machine, DropImage(m)
      PROVE  (EditsTraced /\ EditsStay)'
  BY <1>11 DEF TypeOK, Counted, Arranged, Witnessed, EditsTraced, EditsStay, Compared, Before, Machine, DropImage, End, At
<1>12. ASSUME NEW m \in Machine, KillCommand(m)
      PROVE  (EditsTraced /\ EditsStay)'
  BY <1>12 DEF TypeOK, Counted, Arranged, Witnessed, EditsTraced, EditsStay, Compared, Before, Machine, KillCommand, End, At
<1>13. CASE Pack
  BY <1>13 DEF TypeOK, Counted, Arranged, Witnessed, EditsTraced, EditsStay, Compared, Before, Machine, Pack, At
<1>14. CASE Boot
  BY <1>14 DEF TypeOK, Counted, Arranged, Witnessed, EditsTraced, EditsStay, Compared, Before, Machine, Boot, At
<1>15. CASE ReadMarker
  BY <1>15 DEF TypeOK, Counted, Arranged, Witnessed, EditsTraced, EditsStay, Compared, Before, Machine, ReadMarker, At
<1>16. CASE StopRun
  BY <1>16 DEF TypeOK, Counted, Arranged, Witnessed, EditsTraced, EditsStay, Compared, Before, Machine, StopRun, Stopped, Flushed, At
<1>17. CASE PauseMark
  BY <1>17 DEF TypeOK, Counted, Arranged, Witnessed, EditsTraced, EditsStay, Compared, Before, Machine, PauseMark, Running
<1>18. CASE PauseFreeze
  BY <1>18 DEF TypeOK, Counted, Arranged, Witnessed, EditsTraced, EditsStay, Compared, Before, Machine, PauseFreeze, Running, Frozen
<1>19. CASE PauseStore
  BY <1>19 DEF TypeOK, Counted, Arranged, Witnessed, EditsTraced, EditsStay, Compared, Before, Machine, PauseStore
<1>20. CASE PauseStop
  BY <1>20 DEF TypeOK, Counted, Arranged, Witnessed, EditsTraced, EditsStay, Compared, Before, Machine, PauseStop, At
<1>21. CASE PauseFails
  BY <1>21 DEF TypeOK, Counted, Arranged, Witnessed, EditsTraced, EditsStay, Compared, Before, Machine, PauseFails
<1>22. CASE Resume
  BY <1>22 DEF TypeOK, Counted, Arranged, Witnessed, EditsTraced, EditsStay, Compared, Before, Machine, Resume, At
<1>23. CASE Restored
  BY <1>23 DEF TypeOK, Counted, Arranged, Witnessed, EditsTraced, EditsStay, Compared, Before, Machine, Restored, At
<1>24. CASE StopResume
  BY <1>24 DEF TypeOK, Counted, Arranged, Witnessed, EditsTraced, EditsStay, Compared, Before, Machine, StopResume, Stopped, Flushed, At
<1>25. CASE SessionsRemove
  BY <1>25 DEF TypeOK, Counted, Arranged, Witnessed, EditsTraced, EditsStay, Compared, Before, Machine, SessionsRemove, Absent
<1>26. CASE Ages
  BY <1>26 DEF TypeOK, Counted, Arranged, Witnessed, EditsTraced, EditsStay, Compared, Before, Machine, Ages
<1>27. CASE PruneLists
  BY <1>27 DEF TypeOK, Counted, Arranged, Witnessed, EditsTraced, EditsStay, Compared, Before, Machine, PruneLists, IsRunning, HasRunDir
<1>28. CASE PruneEntry
  BY <1>28 DEF TypeOK, Counted, Arranged, Witnessed, EditsTraced, EditsStay, Compared, Before, Machine, PruneEntry, IsRunning, HasRunDir
<1>29. CASE Erase
  BY <1>29 DEF TypeOK, Counted, Arranged, Witnessed, EditsTraced, EditsStay, Compared, Before, Machine, Erase, IsRunning, HasRunDir
<1>30. CASE UNCHANGED vars
  BY <1>30 DEF TypeOK, Counted, Arranged, Witnessed, EditsTraced, EditsStay, Compared, Before, Machine, vars
<1> QED
  BY <1>1, <1>2, <1>3, <1>4, <1>5, <1>6, <1>7, <1>8, <1>9, <1>10,
     <1>11, <1>12, <1>13, <1>14, <1>15, <1>16, <1>17, <1>18, <1>19, <1>20,
     <1>21, <1>22, <1>23, <1>24, <1>25, <1>26, <1>27, <1>28, <1>29, <1>30
  DEF Next, WriteBack

\* What the session commands start from.
LEMMA SessionInit ==
  Init => /\ TypeOK /\ Counted /\ Arranged /\ Witnessed /\ YoungWhenUsed
          /\ WorkTraced /\ WorkKept /\ EditsTraced /\ EditsStay /\ EmptyRefused /\ PruneSafe
<1> SUFFICES ASSUME Init
             PROVE  /\ TypeOK /\ Counted /\ Arranged /\ Witnessed /\ YoungWhenUsed
                    /\ WorkTraced /\ WorkKept /\ EditsTraced /\ EditsStay
                    /\ EmptyRefused /\ PruneSafe
  OBVIOUS
<1> USE SessionAssumption DEF Init, Machine, Work, Absent
<1>1. TypeOK /\ Arranged /\ Witnessed /\ YoungWhenUsed /\ EmptyRefused /\ PruneSafe
  BY DEF TypeOK, Arranged, Witnessed, YoungWhenUsed, EmptyRefused, PruneSafe
<1>2. Counted
  BY DEF Counted, Before
<1>3. WorkTraced /\ WorkKept
  BY DEF WorkTraced, WorkKept
<1>4. EditsTraced /\ EditsStay
  BY DEF EditsTraced, EditsStay, Compared
<1> QED  BY <1>1, <1>2, <1>3, <1>4

\* No step of a run empties the directory (Stage, workspace.go).
LEMMA RefusedNext ==
  TypeOK /\ Arranged /\ Witnessed /\ EmptyRefused /\ [Next]_vars => EmptyRefused'
<1> SUFFICES ASSUME TypeOK, Arranged, Witnessed, EmptyRefused, [Next]_vars
             PROVE  EmptyRefused'
  OBVIOUS
<1> USE DEF dirs, images, stage, stored, record, hist
<1>1. ASSUME NEW x \in Edits, UserEdits(x)
      PROVE  EmptyRefused'
  BY <1>1 DEF TypeOK, Arranged, Witnessed, EmptyRefused, Machine, UserEdits
<1>2. ASSUME NEW m \in Machine, NEW x \in Writes, AgentWrites(m, x)
      PROVE  EmptyRefused'
  BY <1>2 DEF TypeOK, Arranged, Witnessed, EmptyRefused, Machine, AgentWrites, Running
<1>3. ASSUME NEW m \in Machine, GuestFlushes(m)
      PROVE  EmptyRefused'
  BY <1>3 DEF TypeOK, Arranged, Witnessed, EmptyRefused, Machine, GuestFlushes, Running, Flushed
<1>4. ASSUME NEW m \in Machine, SkipWriteBack(m)
      PROVE  EmptyRefused'
  BY <1>4 DEF TypeOK, Arranged, Witnessed, EmptyRefused, Machine, SkipWriteBack, At, End
<1>5. ASSUME NEW m \in Machine, Stage(m)
      PROVE  EmptyRefused'
  BY <1>5 DEF TypeOK, Arranged, Witnessed, EmptyRefused, Machine, Stage, At, MayStage
<1>6. ASSUME NEW m \in Machine, Review(m, FALSE)
      PROVE  EmptyRefused'
  BY <1>6 DEF TypeOK, Arranged, Witnessed, EmptyRefused, Machine, Review, At
<1>7. ASSUME NEW m \in Machine, CommitCheck(m)
      PROVE  EmptyRefused'
  BY <1>7 DEF TypeOK, Arranged, Witnessed, EmptyRefused, Machine, CommitCheck, At
<1>8. ASSUME NEW m \in Machine, CommitAside(m)
      PROVE  EmptyRefused'
  BY <1>8 DEF TypeOK, Arranged, Witnessed, EmptyRefused, Machine, CommitAside, At
<1>9. ASSUME NEW m \in Machine, CommitPlace(m)
      PROVE  EmptyRefused'
  BY <1>9 DEF TypeOK, Arranged, Witnessed, EmptyRefused, Machine, CommitPlace, At, End
<1>10. ASSUME NEW m \in Machine, CommitDiverted(m)
      PROVE  EmptyRefused'
  BY <1>10 DEF TypeOK, Arranged, Witnessed, EmptyRefused, Machine, CommitDiverted, At, End
<1>11. ASSUME NEW m \in Machine, DropImage(m)
      PROVE  EmptyRefused'
  BY <1>11 DEF TypeOK, Arranged, Witnessed, EmptyRefused, Machine, DropImage, End, At
<1>12. ASSUME NEW m \in Machine, KillCommand(m)
      PROVE  EmptyRefused'
  BY <1>12 DEF TypeOK, Arranged, Witnessed, EmptyRefused, Machine, KillCommand, End, At
<1>13. CASE Pack
  BY <1>13 DEF TypeOK, Arranged, Witnessed, EmptyRefused, Machine, Pack, At
<1>14. CASE Boot
  BY <1>14 DEF TypeOK, Arranged, Witnessed, EmptyRefused, Machine, Boot, At
<1>15. CASE ReadMarker
  BY <1>15 DEF TypeOK, Arranged, Witnessed, EmptyRefused, Machine, ReadMarker, At
<1>16. CASE StopRun
  BY <1>16 DEF TypeOK, Arranged, Witnessed, EmptyRefused, Machine, StopRun, Stopped, Flushed, At
<1>17. CASE PauseMark
  BY <1>17 DEF TypeOK, Arranged, Witnessed, EmptyRefused, Machine, PauseMark, Running
<1>18. CASE PauseFreeze
  BY <1>18 DEF TypeOK, Arranged, Witnessed, EmptyRefused, Machine, PauseFreeze, Running, Frozen
<1>19. CASE PauseStore
  BY <1>19 DEF TypeOK, Arranged, Witnessed, EmptyRefused, Machine, PauseStore
<1>20. CASE PauseStop
  BY <1>20 DEF TypeOK, Arranged, Witnessed, EmptyRefused, Machine, PauseStop, At
<1>21. CASE PauseFails
  BY <1>21 DEF TypeOK, Arranged, Witnessed, EmptyRefused, Machine, PauseFails
<1>22. CASE Resume
  BY <1>22 DEF TypeOK, Arranged, Witnessed, EmptyRefused, Machine, Resume, At
<1>23. CASE Restored
  BY <1>23 DEF TypeOK, Arranged, Witnessed, EmptyRefused, Machine, Restored, At
<1>24. CASE StopResume
  BY <1>24 DEF TypeOK, Arranged, Witnessed, EmptyRefused, Machine, StopResume, Stopped, Flushed, At
<1>25. CASE SessionsRemove
  BY <1>25 DEF TypeOK, Arranged, Witnessed, EmptyRefused, Machine, SessionsRemove, Absent
<1>26. CASE Ages
  BY <1>26 DEF TypeOK, Arranged, Witnessed, EmptyRefused, Machine, Ages
<1>27. CASE PruneLists
  BY <1>27 DEF TypeOK, Arranged, Witnessed, EmptyRefused, Machine, PruneLists, IsRunning, HasRunDir
<1>28. CASE PruneEntry
  BY <1>28 DEF TypeOK, Arranged, Witnessed, EmptyRefused, Machine, PruneEntry, IsRunning, HasRunDir
<1>29. CASE Erase
  BY <1>29 DEF TypeOK, Arranged, Witnessed, EmptyRefused, Machine, Erase, IsRunning, HasRunDir
<1>30. CASE UNCHANGED vars
  BY <1>30 DEF TypeOK, Arranged, Witnessed, EmptyRefused, Machine, vars
<1> QED
  BY <1>1, <1>2, <1>3, <1>4, <1>5, <1>6, <1>7, <1>8, <1>9, <1>10,
     <1>11, <1>12, <1>13, <1>14, <1>15, <1>16, <1>17, <1>18, <1>19, <1>20,
     <1>21, <1>22, <1>23, <1>24, <1>25, <1>26, <1>27, <1>28, <1>29, <1>30
  DEF Next, WriteBack

\* A prune deletes only a record nobody uses, though its list is older than its
\* deletions (sessionsPrune, sessions.go).
LEMMA PruneNext ==
  TypeOK /\ YoungWhenUsed /\ PruneSafe /\ [Next]_vars => PruneSafe'
<1> SUFFICES ASSUME TypeOK, YoungWhenUsed, PruneSafe, [Next]_vars
             PROVE  PruneSafe'
  OBVIOUS
<1> USE DEF dirs, images, stage, stored, record, hist
<1>1. ASSUME NEW x \in Edits, UserEdits(x)
      PROVE  PruneSafe'
  BY <1>1 DEF TypeOK, YoungWhenUsed, PruneSafe, Machine, UserEdits
<1>2. ASSUME NEW m \in Machine, NEW x \in Writes, AgentWrites(m, x)
      PROVE  PruneSafe'
  BY <1>2 DEF TypeOK, YoungWhenUsed, PruneSafe, Machine, AgentWrites, Running
<1>3. ASSUME NEW m \in Machine, GuestFlushes(m)
      PROVE  PruneSafe'
  BY <1>3 DEF TypeOK, YoungWhenUsed, PruneSafe, Machine, GuestFlushes, Running, Flushed
<1>4. ASSUME NEW m \in Machine, SkipWriteBack(m)
      PROVE  PruneSafe'
  BY <1>4 DEF TypeOK, YoungWhenUsed, PruneSafe, Machine, SkipWriteBack, At, End
<1>5. ASSUME NEW m \in Machine, Stage(m)
      PROVE  PruneSafe'
  BY <1>5 DEF TypeOK, YoungWhenUsed, PruneSafe, Machine, Stage, At, MayStage
<1>6. ASSUME NEW m \in Machine, Review(m, FALSE)
      PROVE  PruneSafe'
  BY <1>6 DEF TypeOK, YoungWhenUsed, PruneSafe, Machine, Review, At
<1>7. ASSUME NEW m \in Machine, CommitCheck(m)
      PROVE  PruneSafe'
  BY <1>7 DEF TypeOK, YoungWhenUsed, PruneSafe, Machine, CommitCheck, At
<1>8. ASSUME NEW m \in Machine, CommitAside(m)
      PROVE  PruneSafe'
  BY <1>8 DEF TypeOK, YoungWhenUsed, PruneSafe, Machine, CommitAside, At
<1>9. ASSUME NEW m \in Machine, CommitPlace(m)
      PROVE  PruneSafe'
  BY <1>9 DEF TypeOK, YoungWhenUsed, PruneSafe, Machine, CommitPlace, At, End
<1>10. ASSUME NEW m \in Machine, CommitDiverted(m)
      PROVE  PruneSafe'
  BY <1>10 DEF TypeOK, YoungWhenUsed, PruneSafe, Machine, CommitDiverted, At, End
<1>11. ASSUME NEW m \in Machine, DropImage(m)
      PROVE  PruneSafe'
  BY <1>11 DEF TypeOK, YoungWhenUsed, PruneSafe, Machine, DropImage, End, At
<1>12. ASSUME NEW m \in Machine, KillCommand(m)
      PROVE  PruneSafe'
  BY <1>12 DEF TypeOK, YoungWhenUsed, PruneSafe, Machine, KillCommand, End, At
<1>13. CASE Pack
  BY <1>13 DEF TypeOK, YoungWhenUsed, PruneSafe, Machine, Pack, At
<1>14. CASE Boot
  BY <1>14 DEF TypeOK, YoungWhenUsed, PruneSafe, Machine, Boot, At
<1>15. CASE ReadMarker
  BY <1>15 DEF TypeOK, YoungWhenUsed, PruneSafe, Machine, ReadMarker, At
<1>16. CASE StopRun
  BY <1>16 DEF TypeOK, YoungWhenUsed, PruneSafe, Machine, StopRun, Stopped, Flushed, At
<1>17. CASE PauseMark
  BY <1>17 DEF TypeOK, YoungWhenUsed, PruneSafe, Machine, PauseMark, Running
<1>18. CASE PauseFreeze
  BY <1>18 DEF TypeOK, YoungWhenUsed, PruneSafe, Machine, PauseFreeze, Running, Frozen
<1>19. CASE PauseStore
  BY <1>19 DEF TypeOK, YoungWhenUsed, PruneSafe, Machine, PauseStore
<1>20. CASE PauseStop
  BY <1>20 DEF TypeOK, YoungWhenUsed, PruneSafe, Machine, PauseStop, At
<1>21. CASE PauseFails
  BY <1>21 DEF TypeOK, YoungWhenUsed, PruneSafe, Machine, PauseFails
<1>22. CASE Resume
  BY <1>22 DEF TypeOK, YoungWhenUsed, PruneSafe, Machine, Resume, At
<1>23. CASE Restored
  BY <1>23 DEF TypeOK, YoungWhenUsed, PruneSafe, Machine, Restored, At
<1>24. CASE StopResume
  BY <1>24 DEF TypeOK, YoungWhenUsed, PruneSafe, Machine, StopResume, Stopped, Flushed, At
<1>25. CASE SessionsRemove
  BY <1>25 DEF TypeOK, YoungWhenUsed, PruneSafe, Machine, SessionsRemove, Absent
<1>26. CASE Ages
  BY <1>26 DEF TypeOK, YoungWhenUsed, PruneSafe, Machine, Ages
<1>27. CASE PruneLists
  BY <1>27 DEF TypeOK, YoungWhenUsed, PruneSafe, Machine, PruneLists, IsRunning, HasRunDir
<1>28. CASE PruneEntry
  BY <1>28 DEF TypeOK, YoungWhenUsed, PruneSafe, Machine, PruneEntry, IsRunning, HasRunDir
<1>29. CASE Erase
  BY <1>29 DEF TypeOK, YoungWhenUsed, PruneSafe, Machine, Erase, IsRunning, HasRunDir
<1>30. CASE UNCHANGED vars
  BY <1>30 DEF TypeOK, YoungWhenUsed, PruneSafe, Machine, vars
<1> QED
  BY <1>1, <1>2, <1>3, <1>4, <1>5, <1>6, <1>7, <1>8, <1>9, <1>10,
     <1>11, <1>12, <1>13, <1>14, <1>15, <1>16, <1>17, <1>18, <1>19, <1>20,
     <1>21, <1>22, <1>23, <1>24, <1>25, <1>26, <1>27, <1>28, <1>29, <1>30
  DEF Next, WriteBack

\* The strengthenings hold in every state of the session commands.
THEOREM SessionInductiveHolds ==
  Spec => []( /\ TypeOK /\ Counted /\ Arranged /\ Witnessed /\ YoungWhenUsed
              /\ WorkTraced /\ WorkKept /\ EditsTraced /\ EditsStay
              /\ EmptyRefused /\ PruneSafe)
<1> DEFINE Inv == /\ TypeOK /\ Counted /\ Arranged /\ Witnessed /\ YoungWhenUsed
                  /\ WorkTraced /\ WorkKept /\ EditsTraced /\ EditsStay
                  /\ EmptyRefused /\ PruneSafe
<1>1. Init => Inv
  BY SessionInit
<1>2. Inv /\ [Next]_vars => Inv'
  BY TypeNext, CountedNext, ArrangedNext, WitnessedNext, YoungNext, WorkNext, EditsNext,
     RefusedNext, PruneNext
<1> QED  BY <1>1, <1>2, PTL DEF Spec

\* Work of the agent that reached a disk is never lost by the commands that move it,
\* whoever is killed in the middle (run.go, workspace.go).
THEOREM WorkIsKept == Spec => []WorkKept
BY SessionInductiveHolds, PTL

\* While at most one write-back replaces the directory, an edit of the person stays in
\* it or sends the results beside it (Commit, workspace.go).
THEOREM EditsDoStay == Spec => []EditsStay
BY SessionInductiveHolds, PTL

\* No run replaces a directory by an image that lost everything (Stage), and no prune
\* deletes the record of a session in use (sessionsPrune).
THEOREM SessionIsSafe == Spec => []SessionSafe
<1>1. TypeOK /\ EmptyRefused /\ PruneSafe => SessionSafe
  BY DEF SessionSafe
<1> QED  BY <1>1, SessionInductiveHolds, PTL

--------------------------------------------------------------------------------
(* The policy file: its text, its sections, its owner, its tree and its budgets *)

\* The characters a policy file's arrays are read by.
LEMMA CharsAre ==
  /\ Quote \in Chars /\ Escape \in Chars /\ Comma \in Chars /\ Hash \in Chars
  /\ Quote # Escape /\ Quote # Comma /\ Quote # Hash /\ Comma # Hash /\ Comma # Escape
  /\ Bare \subseteq Chars /\ Quote \notin Bare /\ Escape \notin Bare
<1>1. Quote # Escape /\ Quote # Comma /\ Quote # Hash /\ Comma # Hash /\ Comma # Escape
  BY Zenon DEF Quote, Escape, Comma, Hash
<1>2. Bare \subseteq Chars /\ Quote \notin Bare /\ Escape \notin Bare
  BY DEF Bare
<1> QED  BY <1>1, <1>2 DEF Chars

\* A loop over a quoted value, from the three loops it is made of.
LEMMA OverQuoted ==
  ASSUME NEW step, NEW x, NEW v \in Seq(Chars)
  PROVE  /\ OverList(step, x, Quoted(v)) = step[Quote][OverList(step, step[Quote][x], v)]
         /\ Quoted(v) = With(Joined(<<Quote>>, v), Quote)
         /\ Quoted(v) \in Seq(Chars) /\ Joined(<<Quote>>, v) \in Seq(Chars)
<1>1. PICK q \in Seq(Chars) : q = <<Quote>>
  <2>1. <<Quote>> \in Seq(Chars)
    BY CharsAre
  <2> QED  BY <2>1
<1>2. Joined(q, v) \in Seq(Chars)
  BY JoinedSeq
<1>3. PICK j \in Seq(Chars) : j = Joined(q, v)
  BY <1>2
<1>4. Quoted(v) = Append(j, Quote)
  BY <1>1, <1>3 DEF Quoted, Joined
<1>5. Append(j, Quote) \in Seq(Chars)
  BY CharsAre, AppendSound
<1>6. OverList(step, x, Append(j, Quote)) = step[Quote][OverList(step, x, j)]
  BY CharsAre, OverAppend
<1>7. OverList(step, x, j) = OverList(step, OverList(step, x, q), v)
  BY <1>3, OverJoined
<1>8. OverList(step, x, q) = step[Quote][x]
  BY <1>1, CharsAre, OverOne
<1>9. Quoted(v) = With(Joined(<<Quote>>, v), Quote)
  BY <1>1, <1>3, <1>4 DEF With
<1> QED  BY <1>1, <1>2, <1>4, <1>5, <1>6, <1>7, <1>8, <1>9

\* The step of each loop.
Strip == [c \in Chars |-> [st \in Stripping |-> StripAt(c, st)]]
Split == [c \in Chars |-> [st \in Splitting |-> SplitAt(c, st)]]
Stripped(out, mode) == [out |-> out, mode |-> mode]
Parts(done, part, mode) == [done |-> done, part |-> part, mode |-> mode]

LEMMA StripIs ==
  ASSUME NEW out \in Seq(Chars), NEW c \in Chars
  PROVE  /\ c = Quote => Strip[c][Stripped(out, "plain")] = Stripped(With(out, c), "quoted")
         /\ c = Quote => Strip[c][Stripped(out, "quoted")] = Stripped(With(out, c), "plain")
         /\ c # Quote => Strip[c][Stripped(out, "quoted")] = Stripped(With(out, c), "quoted")
         /\ c # Quote /\ c # Hash => Strip[c][Stripped(out, "plain")] = Stripped(With(out, c), "plain")
         /\ c = Hash => Strip[c][Stripped(out, "plain")] = Stripped(out, "done")
         /\ Strip[c][Stripped(out, "done")] = Stripped(out, "done")
<1>1. \A m \in {"plain", "quoted", "done"} : Stripped(out, m) \in Stripping /\ Stripped(out, m).mode = m /\ Stripped(out, m).out = out
  BY DEF Stripped, Stripping
<1>2. \A m \in {"plain", "quoted", "done"} : Strip[c][Stripped(out, m)] = StripAt(c, Stripped(out, m))
  BY <1>1 DEF Strip
<1>3. ASSUME NEW m \in {"plain", "quoted", "done"}
      PROVE  StripAt(c, Stripped(out, m)) =
                 IF m = "done" \/ (m = "plain" /\ c = Hash) THEN Stripped(out, "done")
                 ELSE Stripped(With(out, c), IF c # Quote THEN m ELSE IF m = "plain" THEN "quoted" ELSE "plain")
  <2>1. [Stripped(out, m) EXCEPT !.mode = "done"] = Stripped(out, "done")
    BY DEF Stripped
  <2> QED  BY <1>1, <2>1 DEF StripAt, Stripped, With
<1>4. Hash # Quote
  BY CharsAre
<1> QED  BY <1>2, <1>3, <1>4

LEMMA SplitIs ==
  ASSUME NEW done \in Seq(Seq(Chars)), NEW part \in Seq(Chars), NEW c \in Chars
  PROVE  /\ c = Quote => Split[c][Parts(done, part, "plain")] = Parts(done, With(part, c), "quoted")
         /\ c = Quote => Split[c][Parts(done, part, "quoted")] = Parts(done, With(part, c), "plain")
         /\ c # Quote /\ c # Escape =>
                Split[c][Parts(done, part, "quoted")] = Parts(done, With(part, c), "quoted")
         /\ c = Comma => Split[c][Parts(done, part, "plain")] = Parts(With(done, part), <<>>, "plain")
<1>1. \A m \in {"plain", "quoted"} :
          /\ Parts(done, part, m) \in Splitting /\ Parts(done, part, m).mode = m
          /\ Parts(done, part, m).done = done /\ Parts(done, part, m).part = part
  BY DEF Parts, Splitting
<1>2. \A m \in {"plain", "quoted"} : Split[c][Parts(done, part, m)] = SplitAt(c, Parts(done, part, m))
  BY <1>1 DEF Split
<1>3. SplitAt(c, Parts(done, part, "plain")) =
          IF c = Comma THEN Parts(With(done, part), <<>>, "plain")
          ELSE Parts(done, With(part, c), IF c = Quote THEN "quoted" ELSE "plain")
  BY <1>1 DEF SplitAt, Parts, With
<1>4. SplitAt(c, Parts(done, part, "quoted")) =
          Parts(done, With(part, c), IF c = Quote THEN "plain" ELSE IF c = Escape THEN "escaped" ELSE "quoted")
  BY <1>1 DEF SplitAt, Parts, With
<1>5. Comma # Quote
  BY CharsAre
<1> QED  BY <1>2, <1>3, <1>4, <1>5

\* A comment's strip keeps what is quoted (stripComment).
LEMMA StripInside ==
  ASSUME NEW out \in Seq(Chars), NEW v \in Seq(Bare)
  PROVE  OverList(Strip, Stripped(out, "quoted"), v) = Stripped(Joined(out, v), "quoted")
<1>x. PICK x : x = Stripped(out, "quoted")
  OBVIOUS
<1>P. PICK P : P = {u \in Seq(Bare) : OverList(Strip, x, u) = Stripped(Joined(out, u), "quoted")}
  OBVIOUS
<1>1. <<>> \in P
  <2>1. Joined(out, <<>>) = out /\ <<>> \in Seq(Bare)
    BY JoinedEmpty
  <2>2. OverList(Strip, x, <<>>) = x
    BY OverEmpty
  <2> QED  BY <1>x, <1>P, <2>1, <2>2
<1>2. ASSUME NEW u \in P \cap Seq(Bare), NEW e \in Bare
      PROVE  Append(u, e) \in P
  <2>1. u \in Seq(Chars) /\ e \in Chars /\ e # Quote
    BY CharsAre
  <2>2. Joined(out, u) \in Seq(Chars) /\ With(Joined(out, u), e) = Joined(out, With(u, e))
    BY <2>1, JoinedSeq, JoinedWith
  <2>3. OverList(Strip, x, Append(u, e)) = Strip[e][OverList(Strip, x, u)]
    BY OverAppend
  <2>4. OverList(Strip, x, u) = Stripped(Joined(out, u), "quoted")
    BY <1>P
  <2>5. Strip[e][Stripped(Joined(out, u), "quoted")] = Stripped(With(Joined(out, u), e), "quoted")
    BY <2>1, <2>2, StripIs
  <2>6. Append(u, e) \in Seq(Bare)
    BY AppendSound
  <2>7. With(u, e) = Append(u, e)
    BY DEF With
  <2>8. OverList(Strip, x, Append(u, e)) = Stripped(Joined(out, Append(u, e)), "quoted")
    BY <2>2, <2>3, <2>4, <2>5, <2>7
  <2> QED  BY <1>P, <2>6, <2>8
<1>3. Seq(Bare) \subseteq P
  <2>1. \A u \in P \cap Seq(Bare), e \in Bare : Append(u, e) \in P
    BY <1>2
  <2> QED  BY <1>1, <2>1, ListRule
<1> QED  BY <1>x, <1>P, <1>3

LEMMA StripQuoted ==
  ASSUME NEW out \in Seq(Chars), NEW v \in Seq(Bare)
  PROVE  /\ OverList(Strip, Stripped(out, "plain"), Quoted(v)) = Stripped(Joined(out, Quoted(v)), "plain")
         /\ Joined(out, Quoted(v)) \in Seq(Chars)
<1>1. PICK vv \in Seq(Chars) : vv = v
  <2>1. v \in Seq(Chars)
    BY CharsAre
  <2> QED  BY <2>1
<1>2. PICK q \in Seq(Chars) : q = <<Quote>>
  <2>1. <<Quote>> \in Seq(Chars)
    BY CharsAre
  <2> QED  BY <2>1
<1>3. /\ OverList(Strip, Stripped(out, "plain"), Quoted(v)) =
             Strip[Quote][OverList(Strip, Strip[Quote][Stripped(out, "plain")], v)]
      /\ Quoted(v) = With(Joined(q, v), Quote)
      /\ Quoted(v) \in Seq(Chars) /\ Joined(q, v) \in Seq(Chars)
  BY <1>1, <1>2, OverQuoted
<1>4. PICK o \in Seq(Chars) : o = With(out, Quote)
  BY CharsAre, AppendSound DEF With
<1>5. Strip[Quote][Stripped(out, "plain")] = Stripped(o, "quoted")
  BY <1>4, CharsAre, StripIs
<1>6. OverList(Strip, Stripped(o, "quoted"), v) = Stripped(Joined(o, v), "quoted")
  BY StripInside
<1>7. Joined(o, v) \in Seq(Chars)
  BY <1>1, JoinedSeq
<1>8. Strip[Quote][Stripped(Joined(o, v), "quoted")] = Stripped(With(Joined(o, v), Quote), "plain")
  BY <1>7, CharsAre, StripIs
<1>9. With(Joined(o, v), Quote) = Joined(out, Quoted(v))
  <2>1. o = Joined(out, q)
    BY <1>2, <1>4, CharsAre, JoinedOne
  <2>2. Joined(o, v) = Joined(out, Joined(q, v))
    <3>1. Joined(Joined(out, q), vv) = Joined(out, Joined(q, vv))
      BY JoinedAssoc
    <3> QED  BY <1>1, <2>1, <3>1
  <2>3. With(Joined(out, Joined(q, v)), Quote) = Joined(out, With(Joined(q, v), Quote))
    BY <1>3, CharsAre, JoinedWith
  <2> QED  BY <1>3, <2>2, <2>3
<1>10. Joined(out, Quoted(v)) \in Seq(Chars)
  BY <1>3, JoinedSeq
<1> QED  BY <1>3, <1>5, <1>6, <1>8, <1>9, <1>10

\* A list of values, one more written (the array's text).
Separated(s) == IF s = <<>> THEN s ELSE Append(s, Comma)
LEMMA WrittenIs ==
  ASSUME NEW values \in Seq(Seq(Bare))
  PROVE  /\ Written(<<>>) = <<>>
         /\ Written(values) \in Seq(Chars) /\ Separated(Written(values)) \in Seq(Chars)
         /\ \A v \in Seq(Bare) : Written(Append(values, v)) = Joined(Separated(Written(values)), Quoted(v))
<1>s. PICK step : step = [v \in Seq(Chars) |-> [s \in Seq(Chars) |->
                             (IF s = <<>> THEN s ELSE Append(s, Comma)) \o Quoted(v)]]
  OBVIOUS
<1>w. \A vs : Written(vs) = OverList(step, <<>>, vs)
  BY <1>s DEF Written
<1>b. \A s \in Seq(Chars) : Separated(s) \in Seq(Chars)
  BY CharsAre, AppendSound DEF Separated
<1>e. \A v \in Seq(Bare), s \in Seq(Chars) : step[v][s] = Joined(Separated(s), Quoted(v))
  <2> TAKE v \in Seq(Bare), s \in Seq(Chars)
  <2>1. v \in Seq(Chars)
    BY CharsAre
  <2> QED  BY <1>s, <2>1 DEF Joined, Separated
<1>q. \A v \in Seq(Bare) : Quoted(v) \in Seq(Chars)
  <2> TAKE v \in Seq(Bare)
  <2>1. v \in Seq(Chars)
    BY CharsAre
  <2> QED  BY <2>1, OverQuoted
<1>a. ASSUME NEW vs \in Seq(Seq(Bare)), NEW v \in Seq(Bare), Written(vs) \in Seq(Chars)
      PROVE  /\ Written(Append(vs, v)) = Joined(Separated(Written(vs)), Quoted(v))
             /\ Written(Append(vs, v)) \in Seq(Chars)
  <2>1. OverList(step, <<>>, Append(vs, v)) = step[v][OverList(step, <<>>, vs)]
    BY OverAppend
  <2>2. Written(Append(vs, v)) = step[v][Written(vs)]
    BY <1>w, <2>1
  <2>3. PICK s \in Seq(Chars) : s = Written(vs)
    BY <1>a
  <2>4. step[v][s] = Joined(Separated(s), Quoted(v))
    BY <1>e
  <2>5. Separated(s) \in Seq(Chars) /\ Quoted(v) \in Seq(Chars)
    BY <1>b, <1>q
  <2>6. Joined(Separated(s), Quoted(v)) \in Seq(Chars)
    BY <2>5, JoinedSeq
  <2> QED  BY <2>2, <2>3, <2>4, <2>6
<1>P. PICK P : P = {vs \in Seq(Seq(Bare)) : Written(vs) \in Seq(Chars)}
  OBVIOUS
<1>1. Written(<<>>) = <<>>
  BY <1>w, OverEmpty
<1>2. <<>> \in P
  <2>1. <<>> \in Seq(Seq(Bare)) /\ <<>> \in Seq(Chars)
    OBVIOUS
  <2>2. Written(<<>>) \in Seq(Chars)
    BY <1>1, <2>1
  <2> QED  BY <1>P, <2>1, <2>2
<1>3. ASSUME NEW vs \in P \cap Seq(Seq(Bare)), NEW v \in Seq(Bare)
      PROVE  Append(vs, v) \in P
  <2>1. Written(vs) \in Seq(Chars) /\ Append(vs, v) \in Seq(Seq(Bare))
    BY <1>P, AppendSound
  <2>2. Written(Append(vs, v)) \in Seq(Chars)
    BY <1>a, <2>1
  <2> QED  BY <1>P, <2>1, <2>2
<1>4. Seq(Seq(Bare)) \subseteq P
  <2>1. \A vs \in P \cap Seq(Seq(Bare)), v \in Seq(Bare) : Append(vs, v) \in P
    BY <1>3
  <2> QED  BY <1>2, <2>1, ListRule
<1>5. Written(values) \in Seq(Chars)
  BY <1>P, <1>4
<1>6. Separated(Written(values)) \in Seq(Chars)
  BY <1>b, <1>5
<1>7. \A v \in Seq(Bare) : Written(Append(values, v)) = Joined(Separated(Written(values)), Quoted(v))
  BY <1>a, <1>5
<1> QED  BY <1>1, <1>5, <1>6, <1>7

\* What is written holds no comment (stripComment).
LEMMA StripWritten ==
  ASSUME NEW values \in Seq(Seq(Bare))
  PROVE  OverList(Strip, Stripped(<<>>, "plain"), Written(values)) = Stripped(Written(values), "plain")
<1>x. PICK x : x = Stripped(<<>>, "plain")
  OBVIOUS
<1>P. PICK P : P = {vs \in Seq(Seq(Bare)) : OverList(Strip, x, Written(vs)) = Stripped(Written(vs), "plain")}
  OBVIOUS
<1>e. <<>> \in Seq(Seq(Bare))
  OBVIOUS
<1>1. <<>> \in P
  <2>1. Written(<<>>) = <<>>
    BY <1>e, WrittenIs
  <2>2. OverList(Strip, x, <<>>) = x
    BY OverEmpty
  <2> QED  BY <1>x, <1>P, <1>e, <2>1, <2>2
<1>2. ASSUME NEW vs \in P \cap Seq(Seq(Bare)), NEW v \in Seq(Bare)
      PROVE  Append(vs, v) \in P
  <2>1. Append(vs, v) \in Seq(Seq(Bare))
    BY AppendSound
  <2>2. PICK w \in Seq(Chars) : w = Written(vs)
    BY WrittenIs
  <2>3. PICK b \in Seq(Chars) : b = Separated(w)
    BY <2>2, WrittenIs
  <2>4. OverList(Strip, x, w) = Stripped(w, "plain")
    BY <1>P, <2>2
  <2>5. OverList(Strip, x, b) = Stripped(b, "plain")
    <3>1. CASE w = <<>>
      BY <2>3, <2>4, <3>1 DEF Separated
    <3>2. CASE w # <<>>
      <4>1. b = Append(w, Comma)
        BY <2>3, <3>2 DEF Separated
      <4>2. OverList(Strip, x, Append(w, Comma)) = Strip[Comma][OverList(Strip, x, w)]
        BY CharsAre, OverAppend
      <4>3. Strip[Comma][Stripped(w, "plain")] = Stripped(With(w, Comma), "plain")
        BY CharsAre, StripIs
      <4> QED  BY <2>4, <4>1, <4>2, <4>3 DEF With
    <3> QED  BY <3>1, <3>2
  <2>6. PICK q \in Seq(Chars) : q = Quoted(v)
    <3>1. v \in Seq(Chars)
      BY CharsAre
    <3>2. Quoted(v) \in Seq(Chars)
      BY <3>1, OverQuoted
    <3> QED  BY <3>2
  <2>7. OverList(Strip, x, Joined(b, q)) = OverList(Strip, OverList(Strip, x, b), q)
    BY OverJoined
  <2>8. OverList(Strip, Stripped(b, "plain"), q) = Stripped(Joined(b, q), "plain")
    BY <2>6, StripQuoted
  <2>9. Written(Append(vs, v)) = Joined(b, q)
    BY <2>2, <2>3, <2>6, WrittenIs
  <2> QED  BY <1>P, <2>1, <2>5, <2>7, <2>8, <2>9
<1>3. Seq(Seq(Bare)) \subseteq P
  <2>1. \A vs \in P \cap Seq(Seq(Bare)), v \in Seq(Bare) : Append(vs, v) \in P
    BY <1>2
  <2> QED  BY <1>1, <2>1, ListRule
<1> QED  BY <1>x, <1>P, <1>3

\* A comment is left out to its end (stripComment).
LEMMA StripBehind ==
  ASSUME NEW out \in Seq(Chars), NEW comment \in Seq(Chars), comment # <<>> => comment[1] = Hash
  PROVE  OverList(Strip, Stripped(out, "plain"), comment).out = out
<1>x. PICK x : x = Stripped(out, "plain")
  OBVIOUS
<1>P. PICK P : P = {u \in Seq(Chars) : u # <<>> /\ u[1] = Hash => OverList(Strip, x, u) = Stripped(out, "done")}
  OBVIOUS
<1>1. <<>> \in P
  BY <1>P
<1>2. ASSUME NEW u \in P \cap Seq(Chars), NEW e \in Chars
      PROVE  Append(u, e) \in P
  <2>1. Append(u, e) \in Seq(Chars)
    BY AppendSound
  <2>2. OverList(Strip, x, Append(u, e)) = Strip[e][OverList(Strip, x, u)]
    BY OverAppend
  <2>3. CASE u = <<>>
    <3>1. Append(u, e)[1] = e
      BY <2>3
    <3>2. OverList(Strip, x, u) = x
      BY <2>3, OverEmpty
    <3>3. e = Hash => Strip[e][Stripped(out, "plain")] = Stripped(out, "done")
      BY StripIs
    <3> QED  BY <1>x, <1>P, <2>1, <2>2, <3>1, <3>2, <3>3
  <2>4. CASE u # <<>>
    <3>1. Append(u, e)[1] = u[1]
      BY <2>4
    <3>2. u[1] = Hash => OverList(Strip, x, u) = Stripped(out, "done")
      BY <1>P, <2>4
    <3>3. Strip[e][Stripped(out, "done")] = Stripped(out, "done")
      BY StripIs
    <3> QED  BY <1>P, <2>1, <2>2, <3>1, <3>2, <3>3
  <2> QED  BY <2>3, <2>4
<1>3. Seq(Chars) \subseteq P
  <2>1. \A u \in P \cap Seq(Chars), e \in Chars : Append(u, e) \in P
    BY <1>2
  <2> QED  BY <1>1, <2>1, ListRule
<1>4. CASE comment = <<>>
  <2>1. OverList(Strip, x, comment) = x
    BY <1>4, OverEmpty
  <2> QED  BY <1>x, <2>1 DEF Stripped
<1>5. CASE comment # <<>>
  <2>1. OverList(Strip, x, comment) = Stripped(out, "done")
    BY <1>P, <1>3, <1>5
  <2> QED  BY <1>x, <2>1 DEF Stripped
<1> QED  BY <1>4, <1>5

LEMMA StripsComment ==
  ASSUME NEW values \in Seq(Seq(Bare)), NEW comment \in Seq(Chars), comment # <<>> => comment[1] = Hash
  PROVE  stripComment(Written(values) \o comment) = Written(values)
<1>1. PICK w \in Seq(Chars) : w = Written(values)
  BY WrittenIs
<1>2. PICK x : x = Stripped(<<>>, "plain")
  OBVIOUS
<1>3. OverList(Strip, x, Joined(w, comment)) = OverList(Strip, OverList(Strip, x, w), comment)
  BY OverJoined
<1>4. OverList(Strip, x, w) = Stripped(w, "plain")
  BY <1>1, <1>2, StripWritten
<1>5. OverList(Strip, Stripped(w, "plain"), comment).out = w
  BY StripBehind
<1>6. stripComment(Joined(w, comment)) = OverList(Strip, x, Joined(w, comment)).out
  BY <1>2 DEF stripComment, Strip, Stripped
<1> QED  BY <1>1, <1>3, <1>4, <1>5, <1>6 DEF Joined

\* A quoted value is not split (splitTopLevel).
LEMMA SplitInside ==
  ASSUME NEW done \in Seq(Seq(Chars)), NEW part \in Seq(Chars), NEW v \in Seq(Bare)
  PROVE  OverList(Split, Parts(done, part, "quoted"), v) = Parts(done, Joined(part, v), "quoted")
<1>x. PICK x : x = Parts(done, part, "quoted")
  OBVIOUS
<1>P. PICK P : P = {u \in Seq(Bare) : OverList(Split, x, u) = Parts(done, Joined(part, u), "quoted")}
  OBVIOUS
<1>1. <<>> \in P
  <2>1. Joined(part, <<>>) = part /\ <<>> \in Seq(Bare)
    BY JoinedEmpty
  <2>2. OverList(Split, x, <<>>) = x
    BY OverEmpty
  <2> QED  BY <1>x, <1>P, <2>1, <2>2
<1>2. ASSUME NEW u \in P \cap Seq(Bare), NEW e \in Bare
      PROVE  Append(u, e) \in P
  <2>1. u \in Seq(Chars) /\ e \in Chars /\ e # Quote /\ e # Escape
    BY CharsAre
  <2>2. Joined(part, u) \in Seq(Chars) /\ With(Joined(part, u), e) = Joined(part, With(u, e))
    BY <2>1, JoinedSeq, JoinedWith
  <2>3. OverList(Split, x, Append(u, e)) = Split[e][OverList(Split, x, u)]
    BY OverAppend
  <2>4. OverList(Split, x, u) = Parts(done, Joined(part, u), "quoted")
    BY <1>P
  <2>5. Split[e][Parts(done, Joined(part, u), "quoted")] = Parts(done, With(Joined(part, u), e), "quoted")
    BY <2>1, <2>2, SplitIs
  <2>6. Append(u, e) \in Seq(Bare)
    BY AppendSound
  <2>7. With(u, e) = Append(u, e)
    BY DEF With
  <2>8. OverList(Split, x, Append(u, e)) = Parts(done, Joined(part, Append(u, e)), "quoted")
    BY <2>2, <2>3, <2>4, <2>5, <2>7
  <2> QED  BY <1>P, <2>6, <2>8
<1>3. Seq(Bare) \subseteq P
  <2>1. \A u \in P \cap Seq(Bare), e \in Bare : Append(u, e) \in P
    BY <1>2
  <2> QED  BY <1>1, <2>1, ListRule
<1> QED  BY <1>x, <1>P, <1>3

LEMMA SplitQuoted ==
  ASSUME NEW done \in Seq(Seq(Chars)), NEW v \in Seq(Bare)
  PROVE  OverList(Split, Parts(done, <<>>, "plain"), Quoted(v)) = Parts(done, Quoted(v), "plain")
<1>1. PICK vv \in Seq(Chars) : vv = v
  <2>1. v \in Seq(Chars)
    BY CharsAre
  <2> QED  BY <2>1
<1>2. PICK q \in Seq(Chars) : q = <<Quote>>
  <2>1. <<Quote>> \in Seq(Chars)
    BY CharsAre
  <2> QED  BY <2>1
<1>n. PICK none \in Seq(Chars) : none = <<>>
  <2>1. <<>> \in Seq(Chars)
    OBVIOUS
  <2> QED  BY <2>1
<1>3. /\ OverList(Split, Parts(done, none, "plain"), Quoted(v)) =
             Split[Quote][OverList(Split, Split[Quote][Parts(done, none, "plain")], v)]
      /\ Quoted(v) = With(Joined(q, v), Quote)
      /\ Joined(q, v) \in Seq(Chars)
  <2>1. /\ OverList(Split, Parts(done, none, "plain"), Quoted(vv)) =
               Split[Quote][OverList(Split, Split[Quote][Parts(done, none, "plain")], vv)]
        /\ Quoted(vv) = With(Joined(<<Quote>>, vv), Quote)
        /\ Joined(<<Quote>>, vv) \in Seq(Chars)
    <3>1. PICK x : x = Parts(done, none, "plain")
      OBVIOUS
    <3>2. OverList(Split, x, Quoted(vv)) = Split[Quote][OverList(Split, Split[Quote][x], vv)]
      BY OverQuoted
    <3>3. Quoted(vv) = With(Joined(<<Quote>>, vv), Quote) /\ Joined(<<Quote>>, vv) \in Seq(Chars)
      BY OverQuoted
    <3> QED  BY <3>1, <3>2, <3>3
  <2> QED  BY <1>1, <1>2, <2>1
<1>4. With(none, Quote) = q
  BY <1>2, <1>n DEF With
<1>5. Split[Quote][Parts(done, none, "plain")] = Parts(done, q, "quoted")
  BY <1>4, CharsAre, SplitIs
<1>6. OverList(Split, Parts(done, q, "quoted"), v) = Parts(done, Joined(q, v), "quoted")
  BY SplitInside
<1>7. Split[Quote][Parts(done, Joined(q, v), "quoted")] = Parts(done, With(Joined(q, v), Quote), "plain")
  BY <1>3, CharsAre, SplitIs
<1> QED  BY <1>n, <1>3, <1>5, <1>6, <1>7

\* The values as they are written, a part each.
AllQuoted(values) == [i \in 1..Len(values) |-> Quoted(values[i])]
LEMMA AllQuotedIs ==
  ASSUME NEW values \in Seq(Seq(Bare)), NEW v \in Seq(Bare)
  PROVE  /\ AllQuoted(values) \in Seq(Seq(Chars))
         /\ AllQuoted(Append(values, v)) = Append(AllQuoted(values), Quoted(v))
<1>n. PICK n \in Nat : n = Len(values)
  OBVIOUS
<1>1. \A u \in Seq(Bare) : Quoted(u) \in Seq(Chars)
  <2> TAKE u \in Seq(Bare)
  <2>1. u \in Seq(Chars)
    BY CharsAre
  <2> QED  BY <2>1, OverQuoted
<1>2. PICK all : all = AllQuoted(values)
  OBVIOUS
<1>3. all \in Seq(Seq(Chars)) /\ Len(all) = n /\ all = [i \in 1..n |-> Quoted(values[i])]
  <2>1. all = [i \in 1..n |-> Quoted(values[i])]
    BY <1>n, <1>2 DEF AllQuoted
  <2>2. \A i \in 1..n : values[i] \in Seq(Bare)
    BY <1>n
  <2>3. all \in [1..n -> Seq(Chars)]
    BY <1>1, <2>1, <2>2
  <2>4. all \in Seq(Seq(Chars))
    BY <2>3
  <2> QED  BY <2>1, <2>3, <2>4
<1>4. PICK more : more = Append(values, v)
  OBVIOUS
<1>5. Len(more) = n + 1 /\ more[n + 1] = v /\ \A i \in 1..n : more[i] = values[i]
  BY <1>n, <1>4
<1>6. AllQuoted(more) = [i \in 1..(n + 1) |-> Quoted(more[i])]
  BY <1>5 DEF AllQuoted
<1>7. Append(all, Quoted(v)) = [i \in 1..(n + 1) |-> IF i = n + 1 THEN Quoted(v) ELSE all[i]]
  BY <1>1, <1>3
<1>8. \A i \in 1..(n + 1) : Quoted(more[i]) = IF i = n + 1 THEN Quoted(v) ELSE all[i]
  BY <1>3, <1>5
<1>9. AllQuoted(more) = Append(all, Quoted(v))
  BY <1>6, <1>7, <1>8
<1> QED  BY <1>2, <1>3, <1>4, <1>9

\* What the split of the text so far has found (splitTopLevel).
Parted(values, end) ==
    IF values = <<>> THEN end = Parts(<<>>, <<>>, "plain")
    ELSE \E done \in Seq(Seq(Chars)), part \in Seq(Chars) :
             end = Parts(done, part, "plain") /\ With(done, part) = AllQuoted(values)

LEMMA SplitWritten ==
  ASSUME NEW values \in Seq(Seq(Bare))
  PROVE  Parted(values, OverList(Split, Parts(<<>>, <<>>, "plain"), Written(values)))
<1>x. PICK x : x = Parts(<<>>, <<>>, "plain")
  OBVIOUS
<1>P. PICK P : P = {vs \in Seq(Seq(Bare)) : Parted(vs, OverList(Split, x, Written(vs)))}
  OBVIOUS
<1>e. <<>> \in Seq(Seq(Bare)) /\ <<>> \in Seq(Seq(Chars)) /\ <<>> \in Seq(Chars)
  OBVIOUS
<1>1. <<>> \in P
  <2>1. Written(<<>>) = <<>>
    BY <1>e, WrittenIs
  <2>2. OverList(Split, x, <<>>) = x
    BY OverEmpty
  <2>3. Parted(<<>>, x)
    BY <1>x DEF Parted
  <2> QED  BY <1>P, <1>e, <2>1, <2>2, <2>3
<1>2. ASSUME NEW vs \in P \cap Seq(Seq(Bare)), NEW v \in Seq(Bare)
      PROVE  Append(vs, v) \in P
  <2>1. Append(vs, v) \in Seq(Seq(Bare)) /\ Append(vs, v) # <<>>
    BY AppendSound
  <2>2. PICK w \in Seq(Chars) : w = Written(vs)
    BY WrittenIs
  <2>3. PICK b \in Seq(Chars) : b = Separated(w)
    BY <2>2, WrittenIs
  <2>4. PICK q \in Seq(Chars) : q = Quoted(v)
    <3>1. v \in Seq(Chars)
      BY CharsAre
    <3>2. Quoted(v) \in Seq(Chars)
      BY <3>1, OverQuoted
    <3> QED  BY <3>2
  <2>5. OverList(Split, x, Written(Append(vs, v))) = OverList(Split, OverList(Split, x, b), q)
    <3>1. Written(Append(vs, v)) = Joined(b, q)
      BY <2>2, <2>3, <2>4, WrittenIs
    <3>2. OverList(Split, x, Joined(b, q)) = OverList(Split, OverList(Split, x, b), q)
      BY OverJoined
    <3> QED  BY <3>1, <3>2
  <2>6. Parted(vs, OverList(Split, x, w))
    BY <1>P, <2>2
  <2>7. PICK done \in Seq(Seq(Chars)) :
            OverList(Split, x, b) = Parts(done, <<>>, "plain") /\ done = AllQuoted(vs)
    <3>1. CASE vs = <<>>
      <4>1. w = <<>>
        BY <1>e, <2>2, <3>1, WrittenIs
      <4>2. b = w
        BY <2>3, <4>1 DEF Separated
      <4>3. OverList(Split, x, b) = x
        BY <4>1, <4>2, OverEmpty
      <4>4. AllQuoted(vs) = <<>>
        BY <3>1 DEF AllQuoted
      <4> QED  BY <1>x, <1>e, <4>3, <4>4
    <3>2. CASE vs # <<>>
      <4>1. PICK d \in Seq(Seq(Chars)), part \in Seq(Chars) :
                OverList(Split, x, w) = Parts(d, part, "plain") /\ With(d, part) = AllQuoted(vs)
        BY <2>6, <3>2 DEF Parted
      <4>2. w # <<>>
        <5>1. SUFFICES ASSUME w = <<>>
                       PROVE  FALSE
          OBVIOUS
        <5>2. OverList(Split, x, w) = x
          BY <5>1, OverEmpty
        <5>3. d = <<>> /\ part = <<>>
          BY <1>x, <4>1, <5>2 DEF Parts
        <5>4. AllQuoted(vs)[1] = <<>>
          BY <4>1, <5>3 DEF With
        <5>5. AllQuoted(vs)[1] = Quoted(vs[1]) /\ vs[1] \in Seq(Bare)
          BY <3>2 DEF AllQuoted
        <5>6. vs[1] \in Seq(Chars)
          BY <5>5, CharsAre
        <5>7. Quoted(vs[1]) # <<>>
          <6>1. PICK j \in Seq(Chars) : j = Joined(<<Quote>>, vs[1]) /\ Quoted(vs[1]) = With(j, Quote)
            BY <5>6, OverQuoted
          <6>2. PICK n \in Nat : n = Len(j)
            OBVIOUS
          <6>3. PICK a : a = Append(j, Quote)
            OBVIOUS
          <6>4. Len(a) = n + 1
            BY <6>2, <6>3
          <6>5. a # <<>>
            BY <6>4
          <6> QED  BY <6>1, <6>3, <6>5 DEF With
        <5> QED  BY <5>4, <5>5, <5>7
      <4>3. b = Append(w, Comma)
        BY <2>3, <4>2 DEF Separated
      <4>4. OverList(Split, x, Append(w, Comma)) = Split[Comma][OverList(Split, x, w)]
        BY CharsAre, OverAppend
      <4>5. Split[Comma][Parts(d, part, "plain")] = Parts(With(d, part), <<>>, "plain")
        BY CharsAre, SplitIs
      <4>6. With(d, part) \in Seq(Seq(Chars))
        BY AppendSound DEF With
      <4> QED  BY <4>1, <4>3, <4>4, <4>5, <4>6
    <3> QED  BY <3>1, <3>2
  <2>8. OverList(Split, Parts(done, <<>>, "plain"), q) = Parts(done, q, "plain")
    BY <2>4, SplitQuoted
  <2>9. With(done, q) = AllQuoted(Append(vs, v))
    BY <2>4, <2>7, AllQuotedIs DEF With
  <2>10. Parted(Append(vs, v), OverList(Split, x, Written(Append(vs, v))))
    BY <2>1, <2>5, <2>7, <2>8, <2>9 DEF Parted
  <2> QED  BY <1>P, <2>1, <2>10
<1>3. Seq(Seq(Bare)) \subseteq P
  <2>1. \A vs \in P \cap Seq(Seq(Bare)), v \in Seq(Bare) : Append(vs, v) \in P
    BY <1>2
  <2> QED  BY <1>1, <2>1, ListRule
<1> QED  BY <1>x, <1>P, <1>3

\* A quoted value is read back (parseString).
LEMMA StringIsRead ==
  ASSUME NEW v \in Seq(Bare)
  PROVE  parseString(Quoted(v)).ok /\ parseString(Quoted(v)).value = v /\ Quoted(v) # <<>>
<1>n. PICK n \in Nat : n = Len(v)
  OBVIOUS
<1>1. PICK h \in Seq(Chars) : h = <<Quote>> \o v
  <2>1. v \in Seq(Chars) /\ <<Quote>> \in Seq(Chars)
    BY CharsAre
  <2>2. <<Quote>> \o v \in Seq(Chars)
    BY <2>1, CatIs
  <2> QED  BY <2>2
<1>2. Len(h) = n + 1 /\ h[1] = Quote /\ \A i \in 1..n : h[i + 1] = v[i]
  <2>1. <<Quote>> \in Seq(Chars) /\ Len(<<Quote>>) = 1 /\ <<Quote>>[1] = Quote /\ v \in Seq(Chars)
    BY CharsAre
  <2> QED  BY <1>n, <1>1, <2>1
<1>3. PICK w \in Seq(Chars) : w = Append(h, Quote) /\ w = Quoted(v)
  <2>1. Append(h, Quote) \in Seq(Chars)
    BY CharsAre, AppendSound
  <2> QED  BY <1>1, <2>1 DEF Quoted
<1>4. Len(w) = n + 2 /\ w[1] = Quote /\ w[n + 2] = Quote /\ \A i \in 1..n : w[i + 1] = v[i]
  <2>1. PICK m \in Nat : m = Len(h) /\ m = n + 1
    BY <1>2
  <2>2. Len(w) = m + 1 /\ w[m + 1] = Quote /\ \A i \in 1..m : w[i] = h[i]
    <3>1. PICK e \in Chars : e = Quote
      BY CharsAre
    <3>2. w = Append(h, e)
      BY <1>3, <3>1
    <3>3. m = Len(h)
      BY <2>1
    <3>4. Len(Append(h, e)) = m + 1 /\ Append(h, e)[m + 1] = e
      BY <3>3, AppendIs
    <3>5. \A i \in 1..m : Append(h, e)[i] = h[i]
      BY <3>3, AppendIs
    <3> QED  BY <3>1, <3>2, <3>4, <3>5
  <2> QED  BY <1>2, <2>1, <2>2
<1>5. Head(w) = Quote /\ Last(w) = Quote /\ Len(w) >= 2 /\ w # <<>>
  BY <1>4 DEF Last
<1>6. SubSeq(w, 2, Len(w) - 1) = v
  <2>1. SubSeq(w, 2, n + 1) = [i \in 1..n |-> w[i + 1]]
    BY <1>4
  <2>2. [i \in 1..n |-> w[i + 1]] = [i \in 1..n |-> v[i]]
    BY <1>4
  <2>3. v = [i \in 1..n |-> v[i]]
    BY <1>n
  <2>4. Len(w) - 1 = n + 1
    BY <1>4
  <2> QED  BY <2>1, <2>2, <2>3, <2>4
<1>7. parseString(w) = [ok |-> TRUE, value |-> v]
  BY <1>5, <1>6 DEF parseString
<1> QED  BY <1>3, <1>5, <1>7

\* A list is read as it was written (parseArray).
LEMMA ArrayIsRead ==
  ASSUME NEW values \in Seq(Seq(Bare)), NEW comment \in Seq(Chars), comment # <<>> => comment[1] = Hash
  PROVE  ArrayReads(values, comment)
<1>n. PICK n \in Nat : n = Len(values)
  OBVIOUS
<1>1. PICK w : w = Written(values)
  OBVIOUS
<1>2. stripComment(Written(values) \o comment) = w
  BY <1>1, StripsComment
<1>3. PICK end : end = OverList(Split, Parts(<<>>, <<>>, "plain"), w)
  OBVIOUS
<1>4. Parted(values, end)
  BY <1>1, <1>3, SplitWritten
<1>5. CASE w = <<>>
  <2>1. end = Parts(<<>>, <<>>, "plain")
    BY <1>3, <1>5, OverEmpty
  <2>2. values = <<>>
    <3> SUFFICES ASSUME values # <<>>
                 PROVE  FALSE
      OBVIOUS
    <3>1. PICK d \in Seq(Seq(Chars)), part \in Seq(Chars) :
              end = Parts(d, part, "plain") /\ With(d, part) = AllQuoted(values)
      BY <1>4 DEF Parted
    <3>2. d = <<>> /\ part = <<>>
      BY <2>1, <3>1 DEF Parts
    <3>3. AllQuoted(values)[1] = <<>>
      BY <3>1, <3>2 DEF With
    <3>4. AllQuoted(values)[1] = Quoted(values[1]) /\ values[1] \in Seq(Bare)
      BY DEF AllQuoted
    <3> QED  BY <3>3, <3>4, StringIsRead
  <2>3. parseArray(w).ok /\ parseArray(w).values = <<>>
    BY <1>5 DEF parseArray
  <2> QED  BY <1>2, <2>2, <2>3 DEF ArrayReads
<1>6. CASE w # <<>>
  <2>1. values # <<>>
    <3>1. <<>> \in Seq(Seq(Bare))
      OBVIOUS
    <3>2. Written(<<>>) = <<>>
      BY <3>1, WrittenIs
    <3> QED  BY <1>1, <1>6, <3>2
  <2>2. PICK d \in Seq(Seq(Chars)), part \in Seq(Chars) :
            end = Parts(d, part, "plain") /\ With(d, part) = AllQuoted(values)
    BY <1>4, <2>1 DEF Parted
  <2>3. PICK split : split = splitTopLevel(w)
    OBVIOUS
  <2>4. split = AllQuoted(values)
    <3>1. splitTopLevel(w) = Append(end.done, end.part)
      BY <1>3 DEF splitTopLevel, Split, Parts
    <3>2. end.done = d /\ end.part = part
      BY <2>2 DEF Parts
    <3> QED  BY <2>2, <2>3, <3>1, <3>2 DEF With
  <2>5. split = [i \in 1..n |-> Quoted(values[i])] /\ DOMAIN split = 1..n
    BY <1>n, <2>4 DEF AllQuoted
  <2>6. \A i \in 1..n : /\ parseString(split[i]).ok /\ parseString(split[i]).value = values[i]
                        /\ split[i] # <<>>
    <3> TAKE i \in 1..n
    <3>1. values[i] \in Seq(Bare)
      BY <1>n
    <3>2. split[i] = Quoted(values[i])
      BY <2>5
    <3> QED  BY <3>1, <3>2, StringIsRead
  <2>7. PICK T : T = Range(split) \ {<<>>}
    OBVIOUS
  <2>8. split \in Seq(T)
    <3>1. \A i \in 1..n : split[i] \in T
      BY <2>5, <2>6, <2>7 DEF Range
    <3>2. split \in [1..n -> T]
      BY <2>5, <3>1
    <3> QED  BY <3>2
  <2>9. Kept(split, T) = split
    BY <2>8, KeptAll
  <2>10. PICK r : r = parseArray(w)
    OBVIOUS
  <2>11. r = [ok |-> \A i \in DOMAIN split : parseString(split[i]).ok,
              values |-> [i \in DOMAIN split |-> parseString(split[i]).value]]
    BY <1>6, <2>3, <2>7, <2>9, <2>10, Zenon DEF parseArray
  <2>12. r.ok
    <3>1. r.ok = (\A i \in DOMAIN split : parseString(split[i]).ok)
      BY <2>11, Zenon
    <3>2. \A i \in DOMAIN split : parseString(split[i]).ok
      BY <2>5, <2>6, Zenon
    <3> QED  BY <3>1, <3>2, Zenon
  <2>13. r.values = values
    <3>1. r.values = [i \in DOMAIN split |-> parseString(split[i]).value]
      BY <2>11, Zenon
    <3>2. r.values = [i \in 1..n |-> values[i]]
      BY <2>5, <2>6, <3>1
    <3>3. values = [i \in 1..n |-> values[i]]
      BY <1>n
    <3> QED  BY <3>2, <3>3, Zenon
  <2> QED  BY <1>2, <2>10, <2>12, <2>13, Zenon DEF ArrayReads
<1> QED  BY <1>5, <1>6

\* The kinds of section (header).
LEMMA KindsApart ==
  /\ Arrays \cap Tables = {} /\ Arrays \cap OfAgent = {} /\ Tables \cap OfAgent = {}
  /\ TeamAgent \in Arrays /\ Top \notin Sections /\ OfSpawn \subseteq OfAgent
<1>1. Arrays \cap Tables = {}
  BY Zenon DEF Arrays, Tables
<1>2. Arrays \cap OfAgent = {}
  BY Zenon DEF Arrays, OfAgent, OfSpawn
<1>3. Tables \cap OfAgent = {}
  BY Zenon DEF Tables, OfAgent, OfSpawn
<1>4. TeamAgent \in Arrays
  BY Zenon DEF Arrays, TeamAgent
<1>5. Top \notin Sections
  BY Zenon DEF Sections, Tables, Arrays, OfAgent, OfSpawn, Top
<1>6. OfSpawn \subseteq OfAgent
  BY Zenon DEF OfAgent
<1> QED  BY <1>1, <1>2, <1>3, <1>4, <1>5, <1>6

\* The number of blocks opened, a line on.
LEMMA OpenedIs ==
  ASSUME NEW lines, NEW n \in Nat
  PROVE  /\ Opened(lines, n) \in Nat
         /\ Opened(lines, 0) = 0
         /\ ~Opens(lines[n + 1]) => Opened(lines, n + 1) = Opened(lines, n)
         /\ Opens(lines[n + 1]) => Opened(lines, n + 1) = Opened(lines, n) + 1
<1>1. PICK S : S = {m \in 1..n : Opens(lines[m])}
  OBVIOUS
<1>2. PICK T : T = {m \in 1..(n + 1) : Opens(lines[m])}
  OBVIOUS
<1>3. Opened(lines, n) = Cardinality(S) /\ Opened(lines, n + 1) = Cardinality(T)
  BY <1>1, <1>2 DEF Opened
<1>4. IsFiniteSet(S) /\ Cardinality(S) \in Nat /\ n + 1 \notin S
  <2>1. IsFiniteSet(1..n)
    BY FS_Interval
  <2>2. S \subseteq 1..n
    BY <1>1
  <2>3. IsFiniteSet(S)
    BY <2>1, <2>2, FS_Subset
  <2> QED  BY <2>2, <2>3, FS_CardinalityType
<1>5. Opened(lines, 0) = 0
  <2>1. {m \in 1..0 : Opens(lines[m])} = {}
    OBVIOUS
  <2> QED  BY <2>1, FS_EmptySet DEF Opened
<1>6. ~Opens(lines[n + 1]) => T = S
  BY <1>1, <1>2
<1>7. Opens(lines[n + 1]) => T = S \cup {n + 1}
  BY <1>1, <1>2
<1>8. Cardinality(S \cup {n + 1}) = Cardinality(S) + 1
  BY <1>4, FS_AddElement
<1> QED  BY <1>3, <1>4, <1>5, <1>6, <1>7, <1>8

\* The last block of a kind (lastAgent and the other tails of parse's lists).
LEMMA LastIs ==
  ASSUME NEW blocks, NEW n \in Nat, Len(blocks) = n, NEW name
  PROVE  /\ LastNamed(blocks, name) \in 0..n
         /\ LastNamed(blocks, name) # 0 => blocks[LastNamed(blocks, name)].name = name
         /\ \A j \in 1..n : blocks[j].name = name => j <= LastNamed(blocks, name)
<1>1. PICK of : of = {i \in 1..n : blocks[i].name = name}
  OBVIOUS
<1>2. LastNamed(blocks, name) = IF of = {} THEN 0 ELSE CHOOSE i \in of : \A j \in of : j <= i
  BY <1>1 DEF LastNamed
<1>3. CASE of = {}
  BY <1>1, <1>2, <1>3
<1>4. CASE of # {}
  <2>1. PICK S : S = {n - i : i \in of}
    OBVIOUS
  <2>2. S \subseteq Nat /\ S # {}
    BY <1>1, <1>4, <2>1
  <2>3. PICK a \in S : \A b \in S : a <= b
    BY <2>2, LeastOf
  <2>4. PICK i \in of : a = n - i
    BY <2>1
  <2>5. \A j \in of : j <= i
    <3> TAKE j \in of
    <3>1. n - j \in S
      BY <2>1
    <3>2. n - i <= n - j
      BY <2>3, <2>4, <3>1
    <3>3. i \in Int /\ j \in Int
      BY <1>1
    <3> QED  BY <3>2, <3>3
  <2>6. PICK l : l = CHOOSE i1 \in of : \A j \in of : j <= i1
    OBVIOUS
  <2>7. l \in of /\ \A j \in of : j <= l
    BY <2>5, <2>6
  <2>8. l = LastNamed(blocks, name)
    BY <1>2, <1>4, <2>6
  <2> QED  BY <1>1, <2>7, <2>8
<1> QED  BY <1>3, <1>4

\* Where a key is, of a block with its name and its budget (KeysBelong).
Belongs(lines, i, name, spawn, key) ==
    /\ key[1] = name => Opened(lines, key[2]) = i
    /\ key[1] \in OfAgent =>
           /\ name = TeamAgent /\ Opened(lines, key[2]) >= i
           /\ \A m \in 1..key[2] : Opens(lines[m]) /\ Opened(lines, m) > i => lines[m].name # TeamAgent
           /\ key[1] \in OfSpawn => spawn = "budget"
Belonging(lines, blocks) ==
    \A i \in 1..Len(blocks) : \A key \in blocks[i].keys :
        Belongs(lines, i, blocks[i].name, blocks[i].spawn, key)

\* The blocks are those the lines so far have opened.
Numbered(lines, k, blocks) ==
    /\ Len(blocks) = Opened(lines, k)
    /\ \A m \in 1..k :
           /\ Opened(lines, m) \in 0..Len(blocks)
           /\ Opens(lines[m]) =>
                  /\ Opened(lines, m) \in 1..Len(blocks)
                  /\ blocks[Opened(lines, m)].name = lines[m].name

\* The section of the last header is one of the last block of its kind.
Headed(section, blocks) ==
    /\ section \in Arrays => Len(blocks) > 0 /\ blocks[Len(blocks)].name = section
    /\ section \in OfAgent => LastNamed(blocks, TeamAgent) # 0
    /\ section \in OfSpawn => blocks[LastNamed(blocks, TeamAgent)].spawn = "budget"

\* What parse has after k lines.
Placed(lines, k, st) ==
    /\ st \in Files
    /\ st.fault = "none" =>
           /\ Numbered(lines, k, st.blocks)
           /\ Headed(st.section, st.blocks)
           /\ Belonging(lines, st.blocks)

\* A block edited in place (assignKey, and header of a budget).
EditedIn(lines, blocks, at, b) ==
    /\ b \in Blocks /\ b.name = blocks[at].name
    /\ blocks[at].spawn = "budget" => b.spawn = "budget"
    /\ \A key \in b.keys : key \in blocks[at].keys \/ Belongs(lines, at, b.name, b.spawn, key)

LEMMA ChangeIs ==
  ASSUME NEW blocks \in Seq(Blocks), NEW at \in 1..Len(blocks), NEW b \in Blocks
  PROVE  /\ Change(blocks, at, b) \in Seq(Blocks)
         /\ Len(Change(blocks, at, b)) = Len(blocks)
         /\ Change(blocks, at, b)[at] = b
         /\ \A i \in 1..Len(blocks) : i # at => Change(blocks, at, b)[i] = blocks[i]
<1>n. PICK n \in Nat : n = Len(blocks)
  OBVIOUS
<1>1. PICK c : c = Change(blocks, at, b)
  OBVIOUS
<1>2. c = [i \in 1..n |-> IF i = at THEN b ELSE blocks[i]]
  BY <1>n, <1>1 DEF Change
<1>3. c \in Seq(Blocks) /\ Len(c) = n
  <2>1. \A i \in 1..n : blocks[i] \in Blocks
    BY <1>n
  <2>2. c \in [1..n -> Blocks]
    BY <1>2, <2>1
  <2> QED  BY <2>2
<1>4. c[at] = b /\ \A i \in 1..n : i # at => c[i] = blocks[i]
  BY <1>n, <1>2
<1> QED  BY <1>n, <1>1, <1>3, <1>4

\* An edit leaves the blocks where they are, under their names (assignKey).
LEMMA EditKeeps ==
  ASSUME NEW lines, NEW k \in Nat, NEW blocks \in Seq(Blocks), NEW at \in 1..Len(blocks), NEW b,
         Numbered(lines, k, blocks), Belonging(lines, blocks), EditedIn(lines, blocks, at, b),
         ~Opens(lines[k + 1]), NEW c, c = Change(blocks, at, b)
  PROVE  /\ c \in Seq(Blocks)
         /\ Numbered(lines, k + 1, c)
         /\ Belonging(lines, c)
         /\ \A name : LastNamed(c, name) = LastNamed(blocks, name)
<1>n. PICK n \in Nat : n = Len(blocks)
  OBVIOUS
<1>1. b \in Blocks /\ b.name = blocks[at].name
  BY DEF EditedIn
<1>2. c \in Seq(Blocks) /\ Len(c) = n /\ c[at] = b /\ \A i \in 1..n : i # at => c[i] = blocks[i]
  BY <1>n, <1>1, ChangeIs
<1>3. \A i \in 1..n : c[i].name = blocks[i].name
  BY <1>n, <1>1, <1>2
<1>4. Opened(lines, k + 1) = Opened(lines, k) /\ Opened(lines, k) = n
  BY <1>n, OpenedIs DEF Numbered
<1>5. Numbered(lines, k + 1, c)
  <2>1. ASSUME NEW m \in 1..(k + 1)
        PROVE  /\ Opened(lines, m) \in 0..n
               /\ Opens(lines[m]) => Opened(lines, m) \in 1..n /\ c[Opened(lines, m)].name = lines[m].name
    <3>1. CASE m = k + 1
      BY <1>4, <3>1
    <3>2. CASE m # k + 1
      <4>1. m \in 1..k
        BY <3>2
      <4>2. /\ Opened(lines, m) \in 0..n
            /\ Opens(lines[m]) => Opened(lines, m) \in 1..n /\ blocks[Opened(lines, m)].name = lines[m].name
        BY <1>n, <4>1 DEF Numbered
      <4> QED  BY <1>3, <4>2
    <3> QED  BY <3>1, <3>2
  <2> QED  BY <1>2, <1>4, <2>1 DEF Numbered
<1>6. Belonging(lines, c)
  <2>1. ASSUME NEW i \in 1..n, NEW key \in c[i].keys
        PROVE  Belongs(lines, i, c[i].name, c[i].spawn, key)
    <3>1. CASE i # at
      BY <1>n, <1>2, <2>1, <3>1 DEF Belonging
    <3>2. CASE i = at /\ key \in blocks[at].keys
      <4>1. Belongs(lines, at, blocks[at].name, blocks[at].spawn, key)
        BY <1>n, <3>2 DEF Belonging
      <4>2. blocks[at].spawn = "budget" => b.spawn = "budget"
        BY DEF EditedIn
      <4>3. Belongs(lines, at, b.name, b.spawn, key)
        BY <1>1, <4>1, <4>2 DEF Belongs
      <4> QED  BY <1>2, <3>2, <4>3
    <3>3. CASE i = at /\ key \notin blocks[at].keys
      <4>1. key \in b.keys
        BY <1>2, <2>1, <3>3
      <4>2. Belongs(lines, at, b.name, b.spawn, key)
        BY <3>3, <4>1 DEF EditedIn
      <4> QED  BY <1>2, <3>3, <4>2
    <3> QED  BY <3>1, <3>2, <3>3
  <2> QED  BY <1>2, <2>1 DEF Belonging
<1>7. ASSUME NEW name
      PROVE  LastNamed(c, name) = LastNamed(blocks, name)
  <2>1. PICK of : of = {i \in 1..n : blocks[i].name = name}
    OBVIOUS
  <2>2. of = {i \in 1..n : c[i].name = name}
    BY <1>3, <2>1
  <2>3. LastNamed(blocks, name) = IF of = {} THEN 0 ELSE CHOOSE i \in of : \A j \in of : j <= i
    BY <1>n, <2>1 DEF LastNamed
  <2>4. LastNamed(c, name) = IF of = {} THEN 0 ELSE CHOOSE i \in of : \A j \in of : j <= i
    BY <1>2, <2>2 DEF LastNamed
  <2> QED  BY <2>3, <2>4
<1> QED  BY <1>2, <1>5, <1>6, <1>7

\* A line that opens no block (assignKey, and header of a table).
LEMMA StaysNumbered ==
  ASSUME NEW lines, NEW k \in Nat, NEW blocks \in Seq(Blocks), Numbered(lines, k, blocks),
         ~Opens(lines[k + 1])
  PROVE  Numbered(lines, k + 1, blocks)
<1>1. Opened(lines, k + 1) = Opened(lines, k) /\ Opened(lines, k) = Len(blocks)
  BY OpenedIs DEF Numbered
<1>2. ASSUME NEW m \in 1..(k + 1)
      PROVE  /\ Opened(lines, m) \in 0..Len(blocks)
             /\ Opens(lines[m]) =>
                   Opened(lines, m) \in 1..Len(blocks) /\ blocks[Opened(lines, m)].name = lines[m].name
  <2>1. CASE m = k + 1
    BY <1>1, <2>1
  <2>2. CASE m # k + 1
    <3>1. m \in 1..k
      BY <2>2
    <3> QED  BY <3>1 DEF Numbered
  <2> QED  BY <2>1, <2>2
<1> QED  BY <1>1, <1>2 DEF Numbered

\* A line that opens one (header).
LEMMA GrowsNumbered ==
  ASSUME NEW lines, NEW k \in Nat, NEW blocks \in Seq(Blocks), Numbered(lines, k, blocks),
         Opens(lines[k + 1]), NEW b \in Blocks, b.name = lines[k + 1].name
  PROVE  Numbered(lines, k + 1, Append(blocks, b))
<1>n. PICK n \in Nat : n = Len(blocks)
  OBVIOUS
<1>a. PICK a : a = Append(blocks, b)
  OBVIOUS
<1>1. Len(a) = n + 1 /\ a[n + 1] = b /\ \A i \in 1..n : a[i] = blocks[i]
  BY <1>n, <1>a
<1>2. Opened(lines, k + 1) = n + 1
  BY <1>n, OpenedIs DEF Numbered
<1>3. ASSUME NEW m \in 1..(k + 1)
      PROVE  /\ Opened(lines, m) \in 0..(n + 1)
             /\ Opens(lines[m]) =>
                   Opened(lines, m) \in 1..(n + 1) /\ a[Opened(lines, m)].name = lines[m].name
  <2>1. CASE m = k + 1
    BY <1>1, <1>2, <2>1
  <2>2. CASE m # k + 1
    <3>1. m \in 1..k
      BY <2>2
    <3>2. /\ Opened(lines, m) \in 0..n
          /\ Opens(lines[m]) => Opened(lines, m) \in 1..n /\ blocks[Opened(lines, m)].name = lines[m].name
      BY <1>n, <3>1 DEF Numbered
    <3> QED  BY <1>1, <3>2
  <2> QED  BY <2>1, <2>2
<1> QED  BY <1>a, <1>1, <1>2, <1>3 DEF Numbered

LEMMA FileIs ==
  /\ \A f \in {"none", "refused"}, s \in Sections \cup {Top}, bs \in Seq(Blocks) :
         [fault |-> f, section |-> s, blocks |-> bs] \in Files
  /\ \A st \in Files : /\ st.fault \in {"none", "refused"} /\ st.section \in Sections \cup {Top}
                       /\ st.blocks \in Seq(Blocks)
                       /\ st = [fault |-> st.fault, section |-> st.section, blocks |-> st.blocks]
BY DEF Files

\* A refused file stays so (parse).
LEMMA RefusedIs ==
  ASSUME NEW lines, NEW k, NEW st \in Files, NEW new, new = [st EXCEPT !.fault = "refused"]
  PROVE  Placed(lines, k, new)
<1>1. st.section \in Sections \cup {Top} /\ st.blocks \in Seq(Blocks)
      /\ st = [fault |-> st.fault, section |-> st.section, blocks |-> st.blocks]
  BY FileIs
<1>2. new = [fault |-> "refused", section |-> st.section, blocks |-> st.blocks]
  BY <1>1
<1>3. new \in Files /\ new.fault = "refused"
  BY <1>1, <1>2, FileIs
<1> QED  BY <1>3 DEF Placed

\* A header (header).
LEMMA HeaderKeeps ==
  ASSUME NEW lines, NEW k \in Nat, NEW st, Placed(lines, k, st), st.fault = "none",
         NEW line, line = lines[k + 1], line.header
  PROVE  Placed(lines, k + 1, header(st, line))
<1>0. st \in Files
  BY DEF Placed
<1>1. PICK s \in Sections \cup {Top}, bs \in Seq(Blocks) :
          st = [fault |-> "none", section |-> s, blocks |-> bs] /\ st.section = s /\ st.blocks = bs
  BY <1>0, FileIs
<1>2. Numbered(lines, k, bs) /\ Headed(s, bs) /\ Belonging(lines, bs)
  BY <1>1 DEF Placed
<1>3. PICK new : new = header(st, line)
  OBVIOUS
<1>n. PICK n \in Nat : n = Len(bs)
  OBVIOUS
<1>g. PICK agent : agent = LastNamed(bs, TeamAgent)
  OBVIOUS
<1>a. agent \in 0..n
  BY <1>n, <1>g, LastIs
<1>w. \A t \in Sections \cup {Top}, c \in Seq(Blocks) :
          /\ Numbered(lines, k + 1, c) /\ Headed(t, c) /\ Belonging(lines, c)
          /\ new = [fault |-> "none", section |-> t, blocks |-> c]
          => Placed(lines, k + 1, new)
  BY FileIs DEF Placed
<1>4. CASE line.array /\ line.name \in Arrays
  <2>1. PICK b : b = [name |-> line.name, spawn |-> "none", keys |-> {}]
    OBVIOUS
  <2>2. b \in Blocks /\ b.name = line.name /\ b.keys = {}
    BY <1>4, <2>1 DEF Blocks
  <2>3. PICK c \in Seq(Blocks) : c = Append(bs, b)
    BY <2>2, AppendSound
  <2>4. new = [fault |-> "none", section |-> line.name, blocks |-> c]
    BY <1>1, <1>3, <1>4, <2>1, <2>3 DEF header
  <2>5. Numbered(lines, k + 1, c)
    <3>1. Opens(lines[k + 1])
      BY <1>4 DEF Opens
    <3> QED  BY <1>2, <2>2, <2>3, <3>1, GrowsNumbered
  <2>6. Len(c) = n + 1 /\ c[n + 1] = b /\ \A i \in 1..n : c[i] = bs[i]
    BY <1>n, <2>2, <2>3
  <2>7. Headed(line.name, c)
    BY <1>n, <1>4, <2>2, <2>6, KindsApart DEF Headed
  <2>8. Belonging(lines, c)
    BY <1>n, <1>2, <2>2, <2>6 DEF Belonging
  <2>9. line.name \in Sections \cup {Top}
    BY <1>4 DEF Sections
  <2> QED  BY <1>3, <1>w, <2>4, <2>5, <2>7, <2>8, <2>9
<1>5. CASE ~line.array /\ line.name \in OfSpawn /\ agent # 0
  <2>0. ~Opens(lines[k + 1])
    BY <1>5 DEF Opens
  <2>1. PICK old \in Blocks : old = bs[agent]
    BY <1>n, <1>a, <1>5
  <2>2. PICK b : b = [old EXCEPT !.spawn = "budget"]
    OBVIOUS
  <2>3. b \in Blocks /\ b.name = old.name /\ b.keys = old.keys /\ b.spawn = "budget"
    BY <2>2 DEF Blocks
  <2>4. PICK c : c = Change(bs, agent, b)
    OBVIOUS
  <2>5. new = [fault |-> "none", section |-> line.name, blocks |-> c]
    <3>1. line.name \notin Arrays
      BY <1>5, KindsApart
    <3>2. new = [st EXCEPT !.section = line.name, !.blocks = c]
      BY <1>1, <1>3, <1>g, <1>5, <2>1, <2>2, <2>4, <3>1 DEF header
    <3> QED  BY <1>1, <3>2
  <2>6. EditedIn(lines, bs, agent, b)
    BY <2>1, <2>3 DEF EditedIn
  <2>7. /\ c \in Seq(Blocks) /\ Numbered(lines, k + 1, c) /\ Belonging(lines, c)
        /\ LastNamed(c, TeamAgent) = agent
    BY <1>n, <1>g, <1>a, <1>2, <1>5, <2>0, <2>4, <2>6, EditKeeps
  <2>8. c[agent] = b
    <3>1. agent \in 1..Len(bs)
      BY <1>n, <1>a, <1>5
    <3> QED  BY <2>3, <2>4, <3>1, ChangeIs
  <2>9. Headed(line.name, c)
    BY <1>5, <2>3, <2>7, <2>8, KindsApart DEF Headed
  <2>10. line.name \in Sections \cup {Top}
    BY <1>5, KindsApart DEF Sections
  <2> QED  BY <1>3, <1>w, <2>5, <2>7, <2>9, <2>10
<1>6. CASE /\ ~line.array /\ (line.name \in Tables \/ (line.name \in OfAgent /\ agent # 0))
           /\ ~(line.name \in OfSpawn /\ agent # 0)
  <2>0. ~Opens(lines[k + 1])
    BY <1>6 DEF Opens
  <2>1. new = [fault |-> "none", section |-> line.name, blocks |-> bs]
    BY <1>1, <1>3, <1>g, <1>6 DEF header
  <2>2. Numbered(lines, k + 1, bs)
    BY <1>2, <2>0, StaysNumbered
  <2>3. line.name \notin Arrays /\ line.name \notin OfSpawn /\ (line.name \in OfAgent => agent # 0)
    BY <1>6, KindsApart
  <2>4. Headed(line.name, bs)
    BY <1>g, <2>3 DEF Headed
  <2>5. line.name \in Sections \cup {Top}
    BY <1>6 DEF Sections
  <2> QED  BY <1>2, <1>3, <1>w, <2>1, <2>2, <2>4, <2>5
<1>7. CASE /\ ~(line.array /\ line.name \in Arrays)
           /\ ~(~line.array /\ line.name \in OfSpawn /\ agent # 0)
           /\ ~(~line.array /\ (line.name \in Tables \/ (line.name \in OfAgent /\ agent # 0)))
  <2>1. new = [st EXCEPT !.fault = "refused"]
    BY <1>1, <1>3, <1>g, <1>7 DEF header
  <2> QED  BY <1>0, <1>3, <2>1, RefusedIs
<1> QED  BY <1>4, <1>5, <1>6, <1>7

\* A key of the file (assignKey).
LEMMA AssignKeeps ==
  ASSUME NEW lines, NEW k \in Nat, NEW st, Placed(lines, k, st), st.fault = "none",
         NEW line, line = lines[k + 1], ~line.header
  PROVE  Placed(lines, k + 1, assignKey(st, k + 1, line))
<1>0. st \in Files
  BY DEF Placed
<1>1. PICK s \in Sections \cup {Top}, bs \in Seq(Blocks) :
          st = [fault |-> "none", section |-> s, blocks |-> bs] /\ st.section = s /\ st.blocks = bs
  BY <1>0, FileIs
<1>2. Numbered(lines, k, bs) /\ Headed(s, bs) /\ Belonging(lines, bs)
  BY <1>1 DEF Placed
<1>3. PICK new : new = assignKey(st, k + 1, line)
  OBVIOUS
<1>n. PICK n \in Nat : n = Len(bs)
  OBVIOUS
<1>g. PICK agent : agent = LastNamed(bs, TeamAgent)
  OBVIOUS
<1>o. ~Opens(lines[k + 1])
  BY DEF Opens
<1>c. Opened(lines, k + 1) = n
  BY <1>n, <1>2, <1>o, OpenedIs DEF Numbered
<1>t. PICK at : at = Target(st)
  OBVIOUS
<1>4. \/ new = [st EXCEPT !.fault = "refused"]
      \/ at = 0 /\ new = st
      \/ /\ at # 0
         /\ new = [st EXCEPT !.blocks =
                      Change(st.blocks, at,
                             [st.blocks[at] EXCEPT !.keys = st.blocks[at].keys \cup {<<st.section, k + 1>>}])]
  BY <1>3, <1>t DEF assignKey
<1>5. CASE new = [st EXCEPT !.fault = "refused"]
  BY <1>0, <1>3, <1>5, RefusedIs
<1>6. CASE at = 0 /\ new = st
  <2>1. Numbered(lines, k + 1, bs)
    BY <1>2, <1>o, StaysNumbered
  <2> QED  BY <1>0, <1>1, <1>2, <1>3, <1>6, <2>1 DEF Placed
<1>7. CASE /\ at # 0
           /\ new = [st EXCEPT !.blocks =
                        Change(st.blocks, at,
                               [st.blocks[at] EXCEPT !.keys = st.blocks[at].keys \cup {<<st.section, k + 1>>}])]
  <2>1. /\ s \in Arrays => at = LastNamed(bs, s)
        /\ s \in OfAgent => at = agent
        /\ s \in Arrays \/ s \in OfAgent
    <3>1. CASE s \in Arrays
      <4>1. at = LastNamed(bs, s)
        <5>1. st.section \in Arrays /\ st.section \notin OfAgent
          BY <1>1, <3>1, KindsApart
        <5>2. Target(st) = LastNamed(st.blocks, st.section)
          BY <5>1 DEF Target
        <5> QED  BY <1>1, <1>t, <5>2
      <4> QED  BY <3>1, <4>1, KindsApart
    <3>2. CASE s \notin Arrays /\ s \in OfAgent
      <4>1. at = agent
        BY <1>1, <1>t, <1>g, <3>2 DEF Target
      <4> QED  BY <3>2, <4>1
    <3>3. CASE s \notin Arrays /\ s \notin OfAgent
      <4>1. at = 0
        BY <1>1, <1>t, <3>3 DEF Target
      <4> QED  BY <1>7, <4>1
    <3> QED  BY <3>1, <3>2, <3>3
  <2>2. /\ at \in 1..n
        /\ s \in Arrays => at = n /\ bs[at].name = s
        /\ s \in OfAgent => /\ bs[at].name = TeamAgent
                            /\ \A j \in 1..n : bs[j].name = TeamAgent => j <= at
    <3>1. CASE s \in Arrays
      <4>1. n > 0 /\ bs[n].name = s
        BY <1>n, <1>2, <3>1 DEF Headed
      <4>2. LastNamed(bs, s) \in 0..n /\ n <= LastNamed(bs, s)
        BY <1>n, <4>1, LastIs
      <4>3. at = n
        BY <2>1, <3>1, <4>2
      <4> QED  BY <1>n, <3>1, <4>1, <4>3, KindsApart
    <3>2. CASE s \in OfAgent
      <4>1. agent \in 0..n /\ (agent # 0 => bs[agent].name = TeamAgent)
            /\ \A j \in 1..n : bs[j].name = TeamAgent => j <= agent
        BY <1>n, <1>g, LastIs
      <4>2. at = agent /\ agent # 0
        BY <1>7, <2>1, <3>2
      <4>3. s \notin Arrays
        BY <3>2, KindsApart
      <4>4. at \in 1..n
        BY <4>1, <4>2
      <4> QED  BY <4>1, <4>2, <4>3, <4>4
    <3> QED  BY <2>1, <3>1, <3>2
  <2>3. PICK old \in Blocks : old = bs[at]
    BY <1>n, <2>2
  <2>4. PICK key : key = <<s, k + 1>>
    OBVIOUS
  <2>5. key \in Sections \X Nat /\ key[1] = s /\ key[2] = k + 1
    BY <2>1, <2>4 DEF Sections
  <2>6. PICK b : b = [old EXCEPT !.keys = old.keys \cup {key}]
    OBVIOUS
  <2>7. b \in Blocks /\ b.name = old.name /\ b.keys = old.keys \cup {key} /\ b.spawn = old.spawn
    BY <2>5, <2>6 DEF Blocks
  <2>8. PICK c : c = Change(bs, at, b)
    OBVIOUS
  <2>9. new = [fault |-> "none", section |-> s, blocks |-> c]
    <3>1. new = [st EXCEPT !.blocks = c]
      BY <1>1, <1>7, <2>3, <2>4, <2>6, <2>8
    <3> QED  BY <1>1, <3>1
  <2>10. Belongs(lines, at, b.name, b.spawn, key)
    <3>1. s = b.name => at = n
      <4>1. b.name \in Arrays
        BY <2>7 DEF Blocks
      <4> QED  BY <2>2, <4>1
    <3>2. ASSUME s \in OfAgent, NEW m \in 1..(k + 1), Opens(lines[m]), Opened(lines, m) > at
          PROVE  lines[m].name # TeamAgent
      <4>1. m \in 1..k
        BY <1>o, <3>2
      <4>2. Opened(lines, m) \in 1..n /\ bs[Opened(lines, m)].name = lines[m].name
        BY <1>n, <1>2, <3>2, <4>1 DEF Numbered
      <4>3. PICK j \in 1..n : j = Opened(lines, m)
        BY <4>2
      <4>4. bs[j].name # TeamAgent
        BY <2>2, <3>2, <4>3
      <4> QED  BY <4>2, <4>3, <4>4
    <3>3. s \in OfAgent => b.name = TeamAgent /\ n >= at
      BY <2>2, <2>3, <2>7
    <3>4. s \in OfSpawn => b.spawn = "budget"
      <4> HAVE s \in OfSpawn
      <4>1. s \in OfAgent
        BY KindsApart
      <4>2. at = agent
        BY <2>1, <4>1
      <4>3. bs[agent].spawn = "budget"
        BY <1>g, <1>2 DEF Headed
      <4> QED  BY <2>3, <2>7, <4>2, <4>3
    <3>5. key[1] = b.name => Opened(lines, key[2]) = at
      BY <1>c, <2>5, <3>1
    <3>6. key[1] \in OfAgent => b.name = TeamAgent /\ Opened(lines, key[2]) >= at
      BY <1>c, <2>5, <3>3
    <3>7. key[1] \in OfAgent =>
             \A m \in 1..key[2] : Opens(lines[m]) /\ Opened(lines, m) > at => lines[m].name # TeamAgent
      BY <2>5, <3>2
    <3>8. key[1] \in OfSpawn => b.spawn = "budget"
      BY <2>5, <3>4
    <3> QED  BY <3>5, <3>6, <3>7, <3>8 DEF Belongs
  <2>11. EditedIn(lines, bs, at, b)
    BY <2>3, <2>7, <2>10 DEF EditedIn
  <2>12. at \in 1..Len(bs)
    BY <1>n, <2>2
  <2>13. /\ c \in Seq(Blocks) /\ Numbered(lines, k + 1, c) /\ Belonging(lines, c)
         /\ LastNamed(c, TeamAgent) = agent
    BY <1>g, <1>2, <1>o, <2>8, <2>11, <2>12, EditKeeps
  <2>14. Len(c) = n /\ c[at] = b /\ \A i \in 1..n : i # at => c[i] = bs[i]
    <3>1. b \in Blocks
      BY <2>7
    <3>2. Len(c) = Len(bs) /\ c[at] = b /\ \A i \in 1..Len(bs) : i # at => c[i] = bs[i]
      BY <2>8, <2>12, <3>1, ChangeIs
    <3> QED  BY <1>n, <3>2
  <2>15. \A i \in 1..n : c[i].name = bs[i].name /\ c[i].spawn = bs[i].spawn
    BY <2>3, <2>7, <2>14
  <2>16. Headed(s, c)
    <3>1. s \in Arrays => Len(c) > 0 /\ c[Len(c)].name = s
      BY <1>n, <2>2, <2>14, <2>15
    <3>2. s \in OfAgent => LastNamed(c, TeamAgent) # 0
      BY <1>g, <1>2, <2>13 DEF Headed
    <3>3. s \in OfSpawn => c[LastNamed(c, TeamAgent)].spawn = "budget"
      <4> HAVE s \in OfSpawn
      <4>1. s \in OfAgent
        BY KindsApart
      <4>2. at = agent
        BY <2>1, <4>1
      <4>3. bs[agent].spawn = "budget"
        BY <1>g, <1>2 DEF Headed
      <4>4. c[at].spawn = bs[at].spawn
        BY <2>2, <2>15
      <4> QED  BY <2>13, <4>2, <4>3, <4>4
    <3> QED  BY <3>1, <3>2, <3>3 DEF Headed
  <2>17. new \in Files /\ new.fault = "none" /\ new.section = s /\ new.blocks = c
    <3>1. "none" \in {"none", "refused"}
      OBVIOUS
    <3> QED  BY <2>9, <2>13, <3>1, FileIs
  <2> QED  BY <1>3, <2>13, <2>16, <2>17 DEF Placed
<1> QED  BY <1>4, <1>5, <1>6, <1>7

\* Every key of an accepted file is its block's (parse).
LEMMA KeysDoBelong ==
  ASSUME NEW lines, Len(lines) \in Nat
  PROVE  KeysBelong(lines)
<1>n. PICK n \in Nat : n = Len(lines)
  OBVIOUS
<1>t. PICK turn : turn = [k \in 1..n |-> [st \in Files |->
                              IF st.fault = "refused" THEN st
                              ELSE IF lines[k].header THEN header(st, lines[k])
                              ELSE assignKey(st, k, lines[k])]]
  OBVIOUS
<1>s. PICK start : start = [fault |-> "none", section |-> Top, blocks |-> <<>>]
  OBVIOUS
<1>i. PICK I : I = {x \in (0..n) \X Files : Placed(lines, x[1], x[2])}
  OBVIOUS
<1>j. \A k, st : <<k, st>> \in I => k \in 0..n /\ st \in Files /\ Placed(lines, k, st)
  BY <1>i
<1>k. \A k \in 0..n, st \in Files : Placed(lines, k, st) => <<k, st>> \in I
  BY <1>i
<1>1. <<0, start>> \in I
  <2>1. start \in Files /\ start.blocks = <<>> /\ start.section = Top
    <3>1. <<>> \in Seq(Blocks) /\ Top \in Sections \cup {Top} /\ "none" \in {"none", "refused"}
      OBVIOUS
    <3> QED  BY <1>s, <3>1, FileIs
  <2>2. Numbered(lines, 0, <<>>)
    BY OpenedIs DEF Numbered
  <2>3. Headed(Top, <<>>)
    BY KindsApart DEF Headed, Sections
  <2>4. Belonging(lines, <<>>)
    BY DEF Belonging
  <2>5. Placed(lines, 0, start)
    BY <2>1, <2>2, <2>3, <2>4 DEF Placed
  <2> QED  BY <1>k, <2>1, <2>5
<1>2. ASSUME NEW k \in 1..n, NEW st, <<k - 1, st>> \in I
      PROVE  <<k, turn[k][st]>> \in I
  <2>1. st \in Files /\ Placed(lines, k - 1, st)
    BY <1>2, <1>j
  <2>2. turn[k][st] = IF st.fault = "refused" THEN st
                      ELSE IF lines[k].header THEN header(st, lines[k])
                      ELSE assignKey(st, k, lines[k])
    BY <1>t, <2>1
  <2>3. PICK new : new = turn[k][st]
    OBVIOUS
  <2>m. PICK m \in Nat : m = k - 1 /\ m + 1 = k
    OBVIOUS
  <2>4. CASE st.fault = "refused"
    <3>1. Placed(lines, k, st)
      BY <2>1, <2>4 DEF Placed
    <3> QED  BY <1>k, <2>1, <2>2, <2>4, <3>1
  <2>5. CASE st.fault = "none" /\ lines[k].header
    <3>1. Placed(lines, m + 1, header(st, lines[m + 1]))
      BY <2>1, <2>m, <2>5, HeaderKeeps
    <3>2. new = header(st, lines[k])
      BY <2>2, <2>3, <2>5
    <3>3. Placed(lines, k, new) /\ new \in Files
      BY <2>m, <3>1, <3>2 DEF Placed
    <3> QED  BY <1>k, <2>3, <3>3
  <2>6. CASE st.fault = "none" /\ ~lines[k].header
    <3>1. Placed(lines, m + 1, assignKey(st, m + 1, lines[m + 1]))
      BY <2>1, <2>m, <2>6, AssignKeeps
    <3>2. new = assignKey(st, k, lines[k])
      BY <2>2, <2>3, <2>6
    <3>3. Placed(lines, k, new) /\ new \in Files
      BY <2>m, <3>1, <3>2 DEF Placed
    <3> QED  BY <1>k, <2>3, <3>3
  <2>7. st.fault \in {"none", "refused"}
    BY <2>1, FileIs
  <2> QED  BY <2>4, <2>5, <2>6, <2>7
<1>3. PICK p : p = parse(lines)
  OBVIOUS
<1>4. <<n, p>> \in I
  <2>1. \A k \in 1..n : \A st : <<k - 1, st>> \in I => <<k, turn[k][st]>> \in I
    BY <1>2
  <2>2. <<n, Looped(turn, start, n)>> \in I
    BY <1>1, <2>1, LoopKeeps
  <2> QED  BY <1>n, <1>t, <1>s, <1>3, <2>2 DEF parse
<1>5. Placed(lines, n, p)
  BY <1>4, <1>j
<1>6. p.fault = "none" => Belonging(lines, p.blocks) /\ DOMAIN p.blocks = 1..Len(p.blocks)
  <2>1. p.blocks \in Seq(Blocks)
    BY <1>5, FileIs DEF Placed
  <2> QED  BY <1>5, <2>1 DEF Placed
<1> QED  BY <1>3, <1>6 DEF KeysBelong, Belonging, Belongs

\* A file system whose links name paths.
Linked(fs) ==
    DOMAIN fs \subseteq Seq(STRING) /\ \A p \in DOMAIN fs : fs[p].to \in Seq(STRING)

\* A step of the walk along a path (filepath.EvalSymlinks).
LEMMA AdvanceIs ==
  ASSUME NEW fs, Linked(fs), NEW w \in Walking
  PROVE  Advance(fs, w) \in Walking
<1>1. PICK at \in Seq(STRING), todo \in Seq(STRING) :
          w = [at |-> at, todo |-> todo] /\ w.at = at /\ w.todo = todo
  BY DEF Walking
<1>2. \A a \in Seq(STRING), t \in Seq(STRING) : [at |-> a, todo |-> t] \in Walking
  BY DEF Walking
<1>3. CASE todo = <<>>
  BY <1>1, <1>3 DEF Advance
<1>4. CASE todo # <<>>
  <2>1. Head(todo) \in STRING /\ Tail(todo) \in Seq(STRING)
    BY <1>4, JoinedHead
  <2>2. PICK name \in STRING, rest \in Seq(STRING) : name = Head(todo) /\ rest = Tail(todo)
    BY <2>1
  <2>3. PICK next \in Seq(STRING) : next = Append(at, name)
    <3>1. Append(at, name) \in Seq(STRING)
      BY AppendSound
    <3> QED  BY <3>1
  <2>4. CASE name = ".."
    <3>1. at # <<>> => Front(at) \in Seq(STRING)
      BY FrontSound
    <3>2. (IF at = <<>> THEN at ELSE Front(at)) \in Seq(STRING)
      BY <3>1
    <3>3. Advance(fs, w) = [at |-> IF at = <<>> THEN at ELSE Front(at), todo |-> rest]
      BY <1>1, <1>4, <2>2, <2>4 DEF Advance
    <3> QED  BY <1>2, <3>2, <3>3
  <2>5. CASE name # ".." /\ next \notin DOMAIN fs
    <3>1. Advance(fs, w) = w
      BY <1>1, <1>4, <2>2, <2>3, <2>5 DEF Advance
    <3> QED  BY <3>1
  <2>6. CASE name # ".." /\ next \in DOMAIN fs /\ fs[next].link
    <3>1. PICK to \in Seq(STRING) : to = fs[next].to
      BY <2>6 DEF Linked
    <3>2. PICK both \in Seq(STRING) : both = to \o rest
      <4>1. to \o rest \in Seq(STRING)
        BY ConcatSound
      <4> QED  BY <4>1
    <3>3. PICK from \in Seq(STRING) : from = IF fs[next].abs THEN <<>> ELSE at
      <4>1. <<>> \in Seq(STRING)
        OBVIOUS
      <4>2. (IF fs[next].abs THEN <<>> ELSE at) \in Seq(STRING)
        BY <4>1, Zenon
      <4> QED  BY <4>2
    <3>4. Advance(fs, w) = [at |-> from, todo |-> both]
      BY <1>1, <1>4, <2>2, <2>3, <2>6, <3>1, <3>2, <3>3 DEF Advance
    <3> QED  BY <1>2, <3>4
  <2>7. CASE name # ".." /\ next \in DOMAIN fs /\ ~fs[next].link
    <3>1. Advance(fs, w) = [at |-> next, todo |-> rest]
      BY <1>1, <1>4, <2>2, <2>3, <2>7 DEF Advance
    <3> QED  BY <1>2, <3>1
  <2> QED  BY <2>4, <2>5, <2>6, <2>7
<1> QED  BY <1>3, <1>4

\* A walk ends at a path (filepath.EvalSymlinks).
LEMMA RealIs ==
  ASSUME NEW fs, Linked(fs), NEW path \in Seq(STRING)
  PROVE  Real(fs, path) \in Seq(STRING)
<1>t. PICK turn : turn = [k \in 1..20 |-> [w \in Walking |-> Advance(fs, w)]]
  OBVIOUS
<1>s. PICK start \in Walking : start = [at |-> <<>>, todo |-> path]
  <2>1. PICK none \in Seq(STRING) : none = <<>>
    <3>1. <<>> \in Seq(STRING)
      OBVIOUS
    <3> QED  BY <3>1
  <2>2. [at |-> none, todo |-> path] \in Walking
    BY DEF Walking
  <2> QED  BY <2>1, <2>2
<1>n. PICK N \in Nat : N = 20
  OBVIOUS
<1>i. PICK I : I = (0..N) \X Walking
  OBVIOUS
<1>1. <<0, start>> \in I
  BY <1>i
<1>2. ASSUME NEW k \in 1..N, NEW w, <<k - 1, w>> \in I
      PROVE  <<k, turn[k][w]>> \in I
  <2>1. w \in Walking /\ k \in 0..N
    BY <1>2, <1>i
  <2>2. turn[k][w] = Advance(fs, w)
    BY <1>t, <1>n, <2>1
  <2>3. Advance(fs, w) \in Walking
    BY <2>1, AdvanceIs
  <2> QED  BY <1>i, <2>1, <2>2, <2>3
<1>3. <<N, Looped(turn, start, N)>> \in I
  <2>1. \A k \in 1..N : \A w : <<k - 1, w>> \in I => <<k, turn[k][w]>> \in I
    BY <1>2
  <2> QED  BY <1>1, <2>1, LoopKeeps
<1>4. EvalSymlinks(fs, path) \in Walking
  BY <1>t, <1>s, <1>n, <1>i, <1>3 DEF EvalSymlinks
<1> QED  BY <1>4 DEF Real, Walking

\* A path that exists resolves to where it leads (resolvePath).
LEMMA ResolvedIs ==
  ASSUME NEW fs, Linked(fs), NEW p, NEW abs, NEW root, UsedPath(p, abs, root) \in Seq(STRING),
         Exists(fs, UsedPath(p, abs, root))
  PROVE  resolvePath(fs, p, abs, root) = Real(fs, UsedPath(p, abs, root))
<1>1. PICK path \in Seq(STRING) : path = UsedPath(p, abs, root)
  OBVIOUS
<1>2. PICK N \in Nat : N = Len(path)
  OBVIOUS
<1>3. PICK there : there = {n \in 0..N : Exists(fs, SubSeq(path, 1, n))}
  OBVIOUS
<1>4. SubSeq(path, 1, N) = path
  <2>1. SubSeq(path, 1, N) = [i \in 1..N |-> path[i]] /\ path = [i \in 1..N |-> path[i]]
    BY <1>2
  <2> QED  BY <2>1
<1>5. N \in there /\ \A j \in there : j <= N /\ j \in Nat
  <2>1. Exists(fs, SubSeq(path, 1, N))
    BY <1>1, <1>4, Zenon
  <2>2. N \in 0..N
    BY <1>2
  <2>3. N \in there
    BY <1>3, <2>1, <2>2, Zenon
  <2>4. \A j \in there : j \in 0..N
    BY <1>3, Zenon
  <2> QED  BY <2>3, <2>4
<1>6. (CHOOSE k \in there : \A j \in there : j <= k) = N
  <2>1. PICK n : n = CHOOSE k \in there : \A j \in there : j <= k
    OBVIOUS
  <2>2. n \in there /\ \A j \in there : j <= n
    BY <1>5, <2>1
  <2>3. n <= N /\ N <= n /\ n \in Nat
    BY <1>5, <2>2
  <2>4. n = N
    BY <2>3
  <2> QED  BY <2>1, <2>4
<1>7. PICK r \in Seq(STRING) : r = Real(fs, path)
  BY RealIs
<1>8. PICK e : e = SubSeq(path, N + 1, N)
  OBVIOUS
<1>9. e = <<>>
  BY <1>2, <1>8
<1>10. r \o e = r
  <2>1. Joined(r, <<>>) = r
    BY JoinedEmpty
  <2> QED  BY <1>9, <2>1 DEF Joined
<1>11. resolvePath(fs, p, abs, root) = Real(fs, SubSeq(path, 1, N)) \o SubSeq(path, N + 1, N)
  BY <1>1, <1>2, <1>3, <1>6 DEF resolvePath
<1> QED  BY <1>1, <1>4, <1>7, <1>8, <1>10, <1>11

\* A directory that the file names is where it may be, whatever links lead to it
\* (checkWorkspaceScope, checkPluginScope).
LEMMA DirectoryIsHeld ==
  ASSUME NEW fs, Linked(fs), NEW root \in Seq(STRING), NEW p \in Seq(STRING), NEW abs, NEW given
  PROVE  ScopeHeld(fs, root, p, abs, given)
<1>1. PICK path : path = UsedPath(p, abs, root)
  OBVIOUS
<1> SUFFICES ASSUME Exists(fs, path), Exists(fs, root)
             PROVE  /\ checkWorkspaceScope(fs, root, p, abs) => IsPrefix(Real(fs, root), Real(fs, path))
                    /\ checkPluginScope(fs, root, p, abs, given) =>
                           \/ IsPrefix(Real(fs, root), Real(fs, path))
                           \/ \E q \in given : Real(fs, path) = resolvePath(fs, q, TRUE, root)
  BY <1>1 DEF ScopeHeld
<1>2. path \in Seq(STRING)
  <2>1. root \o p \in Seq(STRING)
    BY ConcatSound
  <2>2. (IF abs THEN p ELSE root \o p) \in Seq(STRING)
    BY <2>1
  <2>3. path \in Seq(PlainNames)
    BY <1>1, <2>2, CleanIs DEF UsedPath
  <2> QED  BY <2>3 DEF PlainNames
<1>3. resolvePath(fs, p, abs, root) = Real(fs, path)
  BY <1>1, <1>2, ResolvedIs
<1>4. checkWorkspaceScope(fs, root, p, abs) => IsPrefix(Real(fs, root), Real(fs, path))
  BY <1>3 DEF checkWorkspaceScope, insideTree
<1>5. checkPluginScope(fs, root, p, abs, given) =>
         \/ IsPrefix(Real(fs, root), Real(fs, path))
         \/ \E q \in given : Real(fs, path) = resolvePath(fs, q, TRUE, root)
  BY <1>3, <1>4 DEF checkPluginScope
<1> QED  BY <1>4, <1>5

\* A size is the number that was written (parseBytes, parseMiB).
LEMMA SizeIsExact ==
  ASSUME NEW n \in Int, n <= MaxInt, NEW unit \in Nat \ {0}
  PROVE  SizesExact(n, unit)
<1>1. MaxInt \in Nat /\ MiB \in Nat /\ MiB >= 1 /\ unit >= 1
  BY PolicyAssumption
<1>2. ASSUME parseBytes(n, unit).ok
      PROVE  n >= 0 /\ n * unit \in Nat /\ n * unit <= MaxInt /\ parseBytes(n, unit).size = n * unit
  <2>1. n >= 0 /\ ~(unit > 1 /\ n > MaxInt \div unit)
    BY <1>2 DEF parseBytes
  <2>2. parseBytes(n, unit).size = (n * unit) % (MaxInt + 1)
    BY <2>1 DEF parseBytes
  <2>3. PICK m \in Int : m = n * unit
    OBVIOUS
  <2>4. m >= 0 /\ m <= MaxInt
    <3>1. CASE unit = 1
      BY <2>1, <2>3, <3>1
    <3>2. CASE unit > 1
      <4>1. PICK q \in Int : q = MaxInt \div unit
        BY <1>1
      <4>2. q * unit <= MaxInt
        BY <1>1, <4>1
      <4>3. n <= q
        BY <2>1, <3>2, <4>1
      <4>4. n * unit <= q * unit /\ n * unit >= 0
        BY <1>1, <2>1, <4>3
      <4> QED  BY <1>1, <2>3, <4>2, <4>4
    <3> QED  BY <1>1, <3>1, <3>2
  <2>5. m % (MaxInt + 1) = m
    BY <1>1, <2>4
  <2> QED  BY <2>1, <2>2, <2>3, <2>4, <2>5
<1>3. ASSUME parseMiB(n, unit).ok, n > 0
      PROVE  parseMiB(n, unit).size \in 1..(n * unit)
  <2>1. PICK b : b = parseBytes(n, unit)
    OBVIOUS
  <2>2. b.ok /\ b.size \notin 1..(MiB - 1) /\ parseMiB(n, unit).size = b.size \div MiB
    BY <1>3, <2>1 DEF parseMiB
  <2>3. PICK m \in Nat : m = b.size /\ m = n * unit
    BY <1>2, <2>1, <2>2
  <2>4. m >= 1
    BY <1>1, <1>3, <2>3
  <2>5. m >= MiB
    BY <1>1, <2>2, <2>3, <2>4
  <2>6. m \div MiB \in 1..m
    BY <1>1, <2>5
  <2> QED  BY <2>2, <2>3, <2>6
<1> QED  BY <1>2, <1>3 DEF SizesExact

\* A port of the file that is there is a port (parsePort).
LEMMA EndsAre ==
  ASSUME NEW f \in FileEnds, f.host # 0, f.guest # 0
  PROVE  ValidPort(f.host) /\ ValidPort(f.guest)
BY DEF FileEnds, ValidPort

\* Only a forward to each port, on either side, is listened for (resolveForwards).
LEMMA ForwardsAreHeld ==
  ASSUME NEW flags \in Seq(Ends), NEW file \in Seq(FileEnds)
  PROVE  ForwardsHeld(flags, file)
<1>1. PICK r : r = resolveForwards(flags, file)
  OBVIOUS
<1>2. PICK list : list = r.list
  OBVIOUS
<1> SUFFICES ASSUME r.ok
             PROVE  /\ \A i \in DOMAIN list : ValidPort(list[i].host) /\ ValidPort(list[i].guest)
                    /\ Cardinality({list[i].host : i \in DOMAIN list}) = Len(list)
  BY <1>1, <1>2 DEF ForwardsHeld
<1>3. /\ Len(list) \in Nat /\ DOMAIN list = 1..Len(list) /\ HostsDistinct(list)
      /\ \A i \in DOMAIN list : ValidPort(list[i].host) /\ ValidPort(list[i].guest)
  <2>1. CASE flags # <<>>
    <3>1. list = flags /\ HostsDistinct(flags)
          /\ \A i \in DOMAIN flags : ValidPort(flags[i].host) /\ ValidPort(flags[i].guest)
      BY <1>1, <1>2, <2>1 DEF resolveForwards
    <3> QED  BY <3>1
  <2>2. CASE flags = <<>>
    <3>1. list = file /\ CheckForwards(file)
      BY <1>1, <1>2, <2>2 DEF resolveForwards
    <3>2. ASSUME NEW i \in DOMAIN file
          PROVE  ValidPort(file[i].host) /\ ValidPort(file[i].guest)
      <4>1. PICK f \in FileEnds : f = file[i]
        OBVIOUS
      <4>2. f.host # 0 /\ f.guest # 0
        BY <3>1, <4>1 DEF CheckForwards
      <4> QED  BY <4>1, <4>2, EndsAre
    <3> QED  BY <3>1, <3>2 DEF CheckForwards
  <2> QED  BY <2>1, <2>2
<1>4. PICK hosts : hosts = [i \in 1..Len(list) |-> list[i].host]
  OBVIOUS
<1>5. PICK T : T = {list[i].host : i \in DOMAIN list}
  OBVIOUS
<1>6. hosts \in Bijection(1..Len(list), T)
  <2>1. hosts \in [1..Len(list) -> T]
    BY <1>3, <1>4, <1>5
  <2>2. \A h \in T : \E i \in 1..Len(list) : hosts[i] = h
    BY <1>3, <1>4, <1>5
  <2>3. \A i, j \in 1..Len(list) : hosts[i] = hosts[j] => i = j
    BY <1>3, <1>4 DEF HostsDistinct
  <2> QED  BY <2>1, <2>2, <2>3 DEF Bijection, Injection, Surjection, IsInjective
<1>7. Cardinality(T) = Len(list)
  <2>0. Len(list) \in Nat
    BY <1>3, Zenon
  <2>1. PICK n \in Nat : n = Len(list)
    BY <2>0, Zenon
  <2>2. IsFiniteSet(1..n) /\ Cardinality(1..n) = n
    BY FS_Interval
  <2>3. ExistsBijection(1..n, T)
    BY <1>6, <2>1 DEF ExistsBijection
  <2> QED  BY <2>1, <2>2, <2>3, FS_Bijection, Zenon
<1> QED  BY <1>3, <1>5, <1>7

\* What is trusted only its owner and root could have written (Trust).
LEMMA TrustIsHeld ==
  ASSUME NEW f, privateGroup(f.group) => f.group.members \subseteq {"me", "root"}
  PROVE  TrustedByCaller(f)
<1> SUFFICES ASSUME Trust(f, TRUE), NEW w \in Writers(f)
             PROVE  w \in {"me", "root"}
  BY Zenon DEF TrustedByCaller
<1>1. CASE w = f.owner
  BY <1>1, Zenon DEF Trust, trustOwner
<1>2. CASE f.link # "none" /\ w = f.link
  BY <1>2, Zenon DEF Trust, trustOwner
<1>3. CASE "others write" \in f.mode
  BY <1>3, Zenon DEF Trust, writableByOthers
<1>4. CASE "group write" \in f.mode /\ w \in f.group.members
  BY <1>4, Zenon DEF Trust, writableByOthers
<1>5. \/ w = f.owner
      \/ f.link # "none" /\ w = f.link
      \/ "others write" \in f.mode
      \/ "group write" \in f.mode /\ w \in f.group.members
  BY Zenon DEF Writers
<1> QED  BY <1>1, <1>2, <1>3, <1>4, <1>5, Zenon

\* A run that ends with 0 did what it was asked (commandRunOutcome).
LEMMA OutcomeIsHeld ==
  ASSUME NEW child, NEW timedOut \in BOOLEAN, NEW recorderBroke \in BOOLEAN, NEW interrupted,
         NEW oomKilled \in BOOLEAN
  PROVE  ZeroMeansDone(child, timedOut, recorderBroke, interrupted, oomKilled)
BY DEF ZeroMeansDone, commandRunOutcome

\* What the watch of a run's budgets has found after k ticks (watchBudgets).
Ticked(idle, size, active, k, st) ==
    /\ st.size = IF k = 0 THEN -1 ELSE size[k]
    /\ st.change \in 0..k
    /\ k > 0 => st.change >= 1 /\ active[k] <= st.change
    /\ \A u \in 1..k : u > st.change => ~Busy(size, u)
    /\ k > 0 => Busy(size, st.change) \/ \E j \in 1..k : active[j] = st.change
Watched(max, idle, size, active, k, st) ==
    /\ st \in Watching
    /\ st.fired = "none" =>
           /\ max > 0 => k < max
           /\ \A t \in 1..k : ~Quiet(idle, size, active, t)
           /\ idle > 0 => Ticked(idle, size, active, k, st)
    /\ st.fired # "none" =>
           /\ st.at \in 1..k /\ (max > 0 => st.at <= max)
           /\ \A t \in 1..(st.at - 1) : ~Quiet(idle, size, active, t)
    /\ st.fired = "idle_timeout" => Quiet(idle, size, active, st.at)

\* When the record last grew or the proxy was last active, after a tick.
LastStir(size, active, k, st) ==
    LET change == IF size[k] # st.size THEN k ELSE st.change
    IN  IF active[k] > change THEN active[k] ELSE change

\* A tick that finds neither (watchBudgets).
LEMMA StirIs ==
  ASSUME NEW idle \in Nat, idle > 0, NEW n \in Nat, NEW size \in [1..n -> Nat],
         NEW active \in [1..n -> Nat],
         \A t \in 1..n : active[t] <= t /\ \A u \in 1..t : active[u] <= active[t],
         NEW k \in 1..n, NEW st, Ticked(idle, size, active, k - 1, st),
         NEW last, last = LastStir(size, active, k, st)
  PROVE  /\ last \in 1..k /\ active[k] <= last
         /\ \A u \in 1..k : u > last => ~Busy(size, u)
         /\ Busy(size, last) \/ \E j \in 1..k : active[j] = last
         /\ k - last >= idle <=> Quiet(idle, size, active, k)
<1>k. k \in Nat /\ k >= 1 /\ k <= n
  OBVIOUS
<1>a. active[k] \in Nat /\ active[k] <= k /\ size[k] \in Nat
  OBVIOUS
<1>c. /\ st.size = IF k = 1 THEN -1 ELSE size[k - 1]
      /\ st.change \in 0..(k - 1)
      /\ k > 1 => st.change >= 1
      /\ \A u \in 1..(k - 1) : u > st.change => ~Busy(size, u)
      /\ k > 1 => Busy(size, st.change) \/ \E j \in 1..(k - 1) : active[j] = st.change
  BY DEF Ticked
<1>1. CASE size[k] # st.size
  <2>1. last = k
    BY <1>a, <1>1 DEF LastStir
  <2>2. Busy(size, k)
    BY <1>1, <1>c DEF Busy
  <2>3. k - last >= idle <=> FALSE
    BY <2>1
  <2>4. ~Quiet(idle, size, active, k)
    <3>1. k \in (k - idle + 1)..k
      OBVIOUS
    <3> QED  BY <2>2, <3>1 DEF Quiet
  <2> QED  BY <1>a, <2>1, <2>2, <2>3, <2>4
<1>2. CASE size[k] = st.size
  <2>1. k > 1 /\ ~Busy(size, k)
    <3>1. k # 1
      BY <1>a, <1>c, <1>2
    <3> QED  BY <1>c, <1>2, <3>1 DEF Busy
  <2>2. PICK c \in Nat : c = st.change /\ 1 <= c /\ c <= k - 1
    BY <1>c, <2>1
  <2>3. last = IF active[k] > c THEN active[k] ELSE c
    BY <1>2, <2>2 DEF LastStir
  <2>4. last \in 1..k /\ active[k] <= last /\ c <= last
    <3>1. PICK a \in Nat : a = active[k] /\ a <= k
      BY <1>a
    <3>2. last = IF a > c THEN a ELSE c
      BY <2>3, <3>1
    <3>3. last \in 1..k /\ a <= last /\ c <= last
      <4>1. CASE a > c
        BY <1>k, <2>2, <3>1, <3>2, <4>1
      <4>2. CASE a <= c
        BY <1>k, <2>2, <3>1, <3>2, <4>2
      <4> QED  BY <2>2, <3>1, <4>1, <4>2
    <3> QED  BY <3>1, <3>3
  <2>5. \A u \in 1..k : u > last => ~Busy(size, u)
    <3> TAKE u \in 1..k
    <3> HAVE u > last
    <3>1. CASE u = k
      BY <2>1, <3>1
    <3>2. CASE u # k
      <4>1. u \in 1..(k - 1) /\ u > c
        BY <1>k, <2>2, <2>4, <3>2
      <4> QED  BY <1>c, <2>2, <4>1
    <3> QED  BY <3>1, <3>2
  <2>6. Busy(size, last) \/ \E j \in 1..k : active[j] = last
    <3>1. CASE last = active[k]
      BY <3>1
    <3>2. CASE last = c
      <4>1. CASE Busy(size, c)
        BY <3>2, <4>1
      <4>2. CASE \E j \in 1..(k - 1) : active[j] = c
        BY <3>2, <4>2
      <4> QED  BY <1>c, <2>1, <2>2, <4>1, <4>2
    <3> QED  BY <2>3, <3>1, <3>2
  <2>7. k - last >= idle => Quiet(idle, size, active, k)
    <3> HAVE k - last >= idle
    <3>1. k - idle >= 1
      BY <2>4
    <3>2. ASSUME NEW u \in (k - idle + 1)..k
          PROVE  ~Busy(size, u) /\ active[k] < u
      <4>1. u \in 1..k /\ u > last
        BY <2>4, <3>1
      <4>2. active[k] < u
        BY <1>a, <2>4, <4>1
      <4> QED  BY <2>5, <4>1, <4>2
    <3> QED  BY <3>1, <3>2 DEF Quiet
  <2>8. Quiet(idle, size, active, k) => k - last >= idle
    <3> SUFFICES ASSUME Quiet(idle, size, active, k), last > k - idle
                 PROVE  FALSE
      BY <2>4
    <3>1. last \in (k - idle + 1)..k
      BY <2>4
    <3>2. ~Busy(size, last) /\ active[k] < last
      BY <3>1 DEF Quiet
    <3>3. PICK j \in 1..k : active[j] = last
      BY <2>6, <3>2
    <3>4. active[j] <= active[k]
      OBVIOUS
    <3> QED  BY <1>a, <2>4, <3>2, <3>3, <3>4
  <2> QED  BY <2>4, <2>5, <2>6, <2>7, <2>8
<1> QED  BY <1>1, <1>2

\* A tick of the watch (watchBudgets).
LEMMA TickKeeps ==
  ASSUME NEW max \in Nat, NEW idle \in Nat, NEW n \in Nat, NEW size \in [1..n -> Nat],
         NEW active \in [1..n -> Nat],
         \A t \in 1..n : active[t] <= t /\ \A u \in 1..t : active[u] <= active[t],
         NEW k \in 1..n, NEW st, Watched(max, idle, size, active, k - 1, st)
  PROVE  Watched(max, idle, size, active, k, Tick(max, idle, size, active, k, st))
<1>k. k \in Nat /\ k >= 1 /\ k <= n
  OBVIOUS
<1>1. PICK z \in Int, c \in Nat, f \in {"none", "max_runtime", "idle_timeout"}, p \in Nat :
          st = [size |-> z, change |-> c, fired |-> f, at |-> p]
  BY DEF Watched, Watching
<1>2. \A a \in Int, b \in Nat, g \in {"none", "max_runtime", "idle_timeout"}, d \in Nat :
          [size |-> a, change |-> b, fired |-> g, at |-> d] \in Watching
  BY DEF Watching
<1>3. PICK new : new = Tick(max, idle, size, active, k, st)
  OBVIOUS
<1>4. PICK last : last = LastStir(size, active, k, st)
  OBVIOUS
<1>5. CASE f # "none"
  <2>1. new = st
    BY <1>1, <1>3, <1>5 DEF Tick
  <2>2. st.fired = f /\ st.at = p
    BY <1>1
  <2>3. p \in 1..k /\ (max > 0 => p <= max) /\ \A t \in 1..(p - 1) : ~Quiet(idle, size, active, t)
    BY <1>k, <1>5, <2>2 DEF Watched
  <2>4. f = "idle_timeout" => Quiet(idle, size, active, p)
    BY <2>2 DEF Watched
  <2>5. st \in Watching
    BY DEF Watched
  <2> QED  BY <1>3, <1>5, <2>1, <2>2, <2>3, <2>4, <2>5 DEF Watched
<1>6. CASE f = "none" /\ max > 0 /\ k >= max
  <2>1. new = [size |-> z, change |-> c, fired |-> "max_runtime", at |-> k]
    BY <1>1, <1>3, <1>6 DEF Tick
  <2>2. k - 1 < max /\ \A t \in 1..(k - 1) : ~Quiet(idle, size, active, t)
    BY <1>1, <1>6 DEF Watched
  <2>3. k = max
    BY <1>k, <1>6, <2>2
  <2>4. new \in Watching
    BY <1>2, <2>1
  <2>5. new.fired = "max_runtime" /\ new.at = k
    BY <2>1
  <2> QED  BY <1>k, <1>3, <2>2, <2>3, <2>4, <2>5 DEF Watched
<1>7. CASE f = "none" /\ (max > 0 => k < max) /\ idle = 0
  <2>1. new = st
    BY <1>k, <1>1, <1>3, <1>7 DEF Tick
  <2>2. \A t \in 1..k : ~Quiet(idle, size, active, t)
    BY <1>7 DEF Quiet
  <2>3. st.fired = "none" /\ st \in Watching
    BY <1>1, <1>7 DEF Watched
  <2> QED  BY <1>3, <1>7, <2>1, <2>2, <2>3 DEF Watched
<1>8. CASE f = "none" /\ (max > 0 => k < max) /\ idle > 0
  <2>1. PICK g : g = IF k - last >= idle THEN "idle_timeout" ELSE "none"
    OBVIOUS
  <2>2. new = [size |-> size[k], change |-> last, at |-> k, fired |-> g]
    BY <1>k, <1>1, <1>3, <1>4, <1>8, <2>1 DEF Tick, LastStir
  <2>3. Ticked(idle, size, active, k - 1, st) /\ \A t \in 1..(k - 1) : ~Quiet(idle, size, active, t)
    BY <1>1, <1>8 DEF Watched
  <2>4. /\ last \in 1..k /\ active[k] <= last
        /\ \A u \in 1..k : u > last => ~Busy(size, u)
        /\ Busy(size, last) \/ \E j \in 1..k : active[j] = last
        /\ k - last >= idle <=> Quiet(idle, size, active, k)
    BY <1>4, <1>8, <2>3, StirIs
  <2>5. new.size = size[k] /\ new.change = last /\ new.at = k /\ new.fired = g
    BY <2>2
  <2>6. new \in Watching
    <3>1. size[k] \in Int /\ last \in Nat /\ k \in Nat
      BY <1>k, <2>4
    <3>2. g \in {"none", "max_runtime", "idle_timeout"}
      BY <2>1
    <3>3. new = [size |-> size[k], change |-> last, fired |-> g, at |-> k]
      BY <2>2
    <3> QED  BY <1>2, <3>1, <3>2, <3>3
  <2>7. CASE k - last >= idle
    <3>1. g = "idle_timeout" /\ Quiet(idle, size, active, k)
      BY <2>1, <2>4, <2>7
    <3> QED  BY <1>k, <1>3, <1>8, <2>3, <2>5, <2>6, <3>1 DEF Watched
  <2>8. CASE ~(k - last >= idle)
    <3>1. g = "none" /\ ~Quiet(idle, size, active, k)
      BY <2>1, <2>4, <2>8
    <3>2. \A t \in 1..k : ~Quiet(idle, size, active, t)
      <4> TAKE t \in 1..k
      <4>1. CASE t = k
        BY <3>1, <4>1
      <4>2. CASE t # k
        <5>1. t \in 1..(k - 1)
          BY <1>k, <4>2
        <5> QED  BY <2>3, <5>1
      <4> QED  BY <4>1, <4>2
    <3>3. Ticked(idle, size, active, k, new)
      <4>1. new.size = IF k = 0 THEN -1 ELSE size[k]
        BY <1>k, <2>5
      <4>2. new.change \in 0..k /\ (k > 0 => new.change >= 1 /\ active[k] <= new.change)
        BY <1>k, <2>4, <2>5
      <4>3. \A u \in 1..k : u > new.change => ~Busy(size, u)
        BY <2>4, <2>5
      <4>4. Busy(size, new.change) \/ \E j \in 1..k : active[j] = new.change
        BY <2>4, <2>5
      <4> QED  BY <4>1, <4>2, <4>3, <4>4 DEF Ticked
    <3>4. new.fired = "none"
      BY <2>5, <3>1
    <3> QED  BY <1>3, <1>8, <2>6, <3>2, <3>3, <3>4 DEF Watched
  <2> QED  BY <2>7, <2>8
<1> QED  BY <1>k, <1>5, <1>6, <1>7, <1>8

\* A run is ended in time, and only when it was idle (watchBudgets).
LEMMA BudgetIsKept ==
  ASSUME NEW max \in Nat, NEW idle \in Nat, NEW size \in Seq(Nat),
         NEW active \in [1..Len(size) -> Nat],
         \A t \in 1..Len(size) : active[t] <= t /\ \A u \in 1..t : active[u] <= active[t]
  PROVE  BudgetsKept(max, idle, size, active)
<1>n. PICK n \in Nat : n = Len(size)
  OBVIOUS
<1>z. size \in [1..n -> Nat] /\ active \in [1..n -> Nat] /\ DOMAIN size = 1..n
  BY <1>n
<1>m. \A t \in 1..n : active[t] <= t /\ \A u \in 1..t : active[u] <= active[t]
  BY <1>n
<1>t. PICK turn : turn = [t \in 1..n |-> [st \in Watching |-> Tick(max, idle, size, active, t, st)]]
  OBVIOUS
<1>s. PICK start : start = [size |-> -1, change |-> 0, fired |-> "none", at |-> 0]
  OBVIOUS
<1>i. PICK I : I = {k \in (0..n) \X Watching : Watched(max, idle, size, active, k[1], k[2])}
  OBVIOUS
<1>j. \A k, st : <<k, st>> \in I => k \in 0..n /\ st \in Watching /\ Watched(max, idle, size, active, k, st)
  BY <1>i
<1>k. \A k \in 0..n, st \in Watching : Watched(max, idle, size, active, k, st) => <<k, st>> \in I
  BY <1>i
<1>1. <<0, start>> \in I
  <2>1. start \in Watching
    BY <1>s DEF Watching
  <2>2. Watched(max, idle, size, active, 0, start)
    BY <1>s, <2>1 DEF Watched, Ticked
  <2> QED  BY <1>k, <2>1, <2>2
<1>2. ASSUME NEW k \in 1..n, NEW st, <<k - 1, st>> \in I
      PROVE  <<k, turn[k][st]>> \in I
  <2>1. st \in Watching /\ Watched(max, idle, size, active, k - 1, st)
    BY <1>2, <1>j
  <2>2. turn[k][st] = Tick(max, idle, size, active, k, st)
    BY <1>t, <2>1
  <2>3. Watched(max, idle, size, active, k, turn[k][st])
    BY <1>z, <1>m, <2>1, <2>2, TickKeeps
  <2>4. turn[k][st] \in Watching
    BY <2>3 DEF Watched
  <2> QED  BY <1>k, <2>3, <2>4
<1>3. PICK w : w = watchBudgets(max, idle, size, active)
  OBVIOUS
<1>4. <<n, w>> \in I
  <2>1. \A k \in 1..n : \A st : <<k - 1, st>> \in I => <<k, turn[k][st]>> \in I
    BY <1>2
  <2>2. <<n, Looped(turn, start, n)>> \in I
    BY <1>1, <2>1, LoopKeeps
  <2> QED  BY <1>n, <1>t, <1>s, <1>3, <2>2 DEF watchBudgets
<1>5. Watched(max, idle, size, active, n, w)
  BY <1>4, <1>j
<1>6. max > 0 /\ n >= max => w.fired # "none" /\ w.at <= max
  BY <1>5 DEF Watched
<1>7. w.fired = "idle_timeout" => Quiet(idle, size, active, w.at)
  BY <1>5 DEF Watched
<1>8. ASSUME NEW t \in 1..n, Quiet(idle, size, active, t)
      PROVE  w.fired # "none" /\ w.at <= t
  <2>1. w.fired # "none"
    BY <1>5, <1>8 DEF Watched
  <2>2. w.at \in 1..n /\ \A u \in 1..(w.at - 1) : ~Quiet(idle, size, active, u)
    BY <1>5, <2>1 DEF Watched
  <2>3. PICK a \in Nat : a = w.at
    BY <2>2
  <2>4. ~(t < a)
    BY <1>8, <2>2, <2>3
  <2> QED  BY <2>1, <2>3, <2>4
<1> QED  BY <1>n, <1>z, <1>3, <1>6, <1>7, <1>8 DEF BudgetsKept

\* For every size of number and of the machine's limits: a policy file is read as it was
\* written, believed only from its owner, and reaches nothing outside its own tree, its
\* budgets end a run when they say, and a run that ends with 0 was done (parseArray, parse,
\* parseBytes, Trust, checkPluginScope, resolveForwards, watchBudgets, commandRunOutcome).
THEOREM PolicyIsHeld == PolicyInput(item) => PolicyHeld
<1> SUFFICES ASSUME PolicyInput(item)
             PROVE  PolicyHeld
  OBVIOUS
<1>1. item.kind = "array" => ArrayReads(item.values, item.comment)
  <2> SUFFICES ASSUME item.kind = "array"
               PROVE  ArrayReads(item.values, item.comment)
    OBVIOUS
  <2>1. /\ item.values \in Seq(Seq(Bare)) /\ item.comment \in Seq(Chars)
        /\ item.comment # <<>> => item.comment[1] = Hash
    BY DEF PolicyInput
  <2> QED  BY <2>1, ArrayIsRead
<1>2. item.kind = "sections" => KeysBelong(item.lines)
  <2> SUFFICES ASSUME item.kind = "sections"
               PROVE  KeysBelong(item.lines)
    OBVIOUS
  <2>1. item.lines \in Seq(FileLine)
    BY DEF PolicyInput
  <2>2. Len(item.lines) \in Nat
    BY <2>1
  <2> QED  BY <2>2, KeysDoBelong
<1>3. item.kind = "bytes" => SizesExact(item.n, item.unit)
  <2> SUFFICES ASSUME item.kind = "bytes"
               PROVE  SizesExact(item.n, item.unit)
    OBVIOUS
  <2>1. item.n \in Int /\ item.n <= MaxInt /\ item.unit \in Nat \ {0}
    BY DEF PolicyInput
  <2> QED  BY <2>1, SizeIsExact
<1>4. item.kind = "trust" => TrustedByCaller(item.file)
  <2> SUFFICES ASSUME item.kind = "trust"
               PROVE  TrustedByCaller(item.file)
    OBVIOUS
  <2>1. privateGroup(item.file.group) => item.file.group.members \subseteq {"me", "root"}
    BY DEF PolicyInput
  <2> QED  BY <2>1, TrustIsHeld
<1>5. item.kind = "directory" => ScopeHeld(item.fs, item.root, item.path, item.abs, item.named)
  <2> SUFFICES ASSUME item.kind = "directory"
               PROVE  ScopeHeld(item.fs, item.root, item.path, item.abs, item.named)
    OBVIOUS
  <2>1. Linked(item.fs) /\ item.root \in Seq(STRING) /\ item.path \in Seq(STRING)
    BY DEF PolicyInput, Linked
  <2> QED  BY <2>1, DirectoryIsHeld
<1>6. item.kind = "forwards" => ForwardsHeld(item.flags, item.file)
  <2> SUFFICES ASSUME item.kind = "forwards"
               PROVE  ForwardsHeld(item.flags, item.file)
    OBVIOUS
  <2>1. item.flags \in Seq(Ends) /\ item.file \in Seq(FileEnds)
    BY DEF PolicyInput
  <2> QED  BY <2>1, ForwardsAreHeld
<1>7. item.kind = "budget" => BudgetsKept(item.max, item.idle, item.size, item.active)
  <2> SUFFICES ASSUME item.kind = "budget"
               PROVE  BudgetsKept(item.max, item.idle, item.size, item.active)
    OBVIOUS
  <2>1. /\ item.max \in Nat /\ item.idle \in Nat /\ item.size \in Seq(Nat)
        /\ item.active \in [1..Len(item.size) -> Nat]
        /\ \A t \in 1..Len(item.size) :
               item.active[t] <= t /\ \A u \in 1..t : item.active[u] <= item.active[t]
    BY DEF PolicyInput
  <2> QED  BY <2>1, BudgetIsKept
<1>8. item.kind = "outcome" =>
          ZeroMeansDone(item.child, item.flags[1], item.flags[2], item.flags[3], item.flags[4])
  <2> SUFFICES ASSUME item.kind = "outcome"
               PROVE  ZeroMeansDone(item.child, item.flags[1], item.flags[2], item.flags[3], item.flags[4])
    OBVIOUS
  <2>1. item.flags \in [1..4 -> BOOLEAN]
    BY DEF PolicyInput
  <2>2. item.flags[1] \in BOOLEAN /\ item.flags[2] \in BOOLEAN /\ item.flags[4] \in BOOLEAN
    BY <2>1
  <2> QED  BY <2>2, OutcomeIsHeld
<1> QED  BY <1>1, <1>2, <1>3, <1>4, <1>5, <1>6, <1>7, <1>8 DEF PolicyHeld

====
