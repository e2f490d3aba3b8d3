-------------------------- MODULE TeamBrokerProofs --------------------------
(***************************************************************************)
(* Theorems about the two halves of a team, TeamBroker and TeamStore, for  *)
(* every team, every set of requests, every capacity and every rule.       *)
(***************************************************************************)
EXTENDS TeamBroker, TeamStore, ListProofs

\* The state a broker is made in has the types (New, NewTopology).
LEMMA TypeInit == Init => TypeOK /\ SpawnInv
<1> SUFFICES ASSUME Init PROVE TypeOK /\ SpawnInv
  OBVIOUS
<1>1. TypeTeam
  BY TeamAssumption DEF Init, TypeTeam, Names, Workers
<1>2. TypeMail
  BY TeamAssumption DEF Init, TypeMail
<1>3. TypeCalls
  BY DEF Init, TypeCalls, NoCall, Ops, Outcomes, Places
<1>4. SpawnInv
  BY DEF Init, SpawnInv, NoCall, Spawning
<1> QED  BY <1>1, <1>2, <1>3, <1>4 DEF TypeOK

\* No step breaks a type.
LEMMA TypeNext == TypeOK /\ SpawnInv /\ [Next]_vars => TypeOK' /\ SpawnInv'
<1> SUFFICES ASSUME TypeOK, SpawnInv, [Next]_vars PROVE TypeOK' /\ SpawnInv'
  OBVIOUS
<1> USE DEF topology, mail, asks, spawns, host, answers
<1>1. ASSUME NEW c \in Calls, NEW n \in Names, NEW to \in Names, BeginSend(c, n, to)
      PROVE  TypeOK' /\ SpawnInv'
  <2>1. TypeTeam'
    BY <1>1 DEF TypeOK, TypeTeam, BeginSend, Begin
  <2>2. TypeMail'
    BY <1>1 DEF TypeOK, TypeMail, BeginSend, Begin
  <2>3. TypeCalls'
    BY <1>1 DEF TypeOK, TypeCalls, Ops, Outcomes, Places, BeginSend, Begin
  <2>4. SpawnInv'
    BY <1>1 DEF TypeOK, TypeCalls, SpawnInv, Spawning, BeginSend, Begin
  <2> QED  BY <2>1, <2>2, <2>3, <2>4 DEF TypeOK
<1>2. ASSUME NEW c \in Calls, NEW n \in Names, NEW to \in Names, BeginAsk(c, n, to)
      PROVE  TypeOK' /\ SpawnInv'
  <2>1. TypeTeam'
    BY <1>2 DEF TypeOK, TypeTeam, BeginAsk, Begin
  <2>2. TypeMail'
    BY <1>2 DEF TypeOK, TypeMail, BeginAsk, Begin
  <2>3. TypeCalls'
    BY <1>2 DEF TypeOK, TypeCalls, Ops, Outcomes, Places, BeginAsk, Begin
  <2>4. SpawnInv'
    BY <1>2 DEF TypeOK, TypeCalls, SpawnInv, Spawning, BeginAsk, Begin
  <2> QED  BY <2>1, <2>2, <2>3, <2>4 DEF TypeOK
<1>3. ASSUME NEW c \in Calls, NEW n \in Names, BeginRecv(c, n)
      PROVE  TypeOK' /\ SpawnInv'
  <2>1. TypeTeam'
    BY <1>3 DEF TypeOK, TypeTeam, BeginRecv, Begin
  <2>2. TypeMail'
    BY <1>3 DEF TypeOK, TypeMail, BeginRecv, Begin
  <2>3. TypeCalls'
    BY <1>3 DEF TypeOK, TypeCalls, Ops, Outcomes, Places, BeginRecv, Begin
  <2>4. SpawnInv'
    BY <1>3 DEF TypeOK, TypeCalls, SpawnInv, Spawning, BeginRecv, Begin
  <2> QED  BY <2>1, <2>2, <2>3, <2>4 DEF TypeOK
<1>4. ASSUME NEW c \in Calls, NEW n \in Names, RecvNobody(c, n)
      PROVE  TypeOK' /\ SpawnInv'
  <2>1. TypeTeam'
    BY <1>4 DEF TypeOK, TypeTeam, RecvNobody, Return, Callers
  <2>2. TypeMail'
    BY <1>4 DEF TypeOK, TypeMail, RecvNobody, Return, Callers
  <2>3. TypeCalls'
    BY <1>4 DEF TypeOK, TypeCalls, Ops, Outcomes, Places, RecvNobody, Return, Callers
  <2>4. SpawnInv'
    BY <1>4 DEF TypeOK, TypeCalls, SpawnInv, Spawning, RecvNobody, Return, Callers
  <2> QED  BY <2>1, <2>2, <2>3, <2>4 DEF TypeOK
<1>5. ASSUME NEW c \in Calls, NEW n \in Names, NEW t \in seen \cup {None},
             BeginReply(c, n, t)
      PROVE  TypeOK' /\ SpawnInv'
  <2>1. TypeTeam'
    BY <1>5 DEF TypeOK, TypeTeam, BeginReply, Begin, Decide
  <2>2. TypeMail'
    BY <1>5 DEF TypeOK, TypeMail, BeginReply, Begin, Decide
  <2>3. TypeCalls'
    <3>1. t \in Calls \cup {None}
      BY DEF TypeOK, TypeMail
    <3>2. call' \in [Calls -> [op : Ops, by : Names \cup {None}, to : Names \cup {None},
                               tag : Calls \cup {None}]]
      BY <1>5, <3>1 DEF TypeOK, TypeCalls, Ops, BeginReply, Begin
    <3> QED  BY <1>5, <3>2 DEF TypeOK, TypeCalls, Outcomes, Places, BeginReply, Begin, Decide
  <2>4. SpawnInv'
    BY <1>5 DEF TypeOK, TypeCalls, SpawnInv, Spawning, BeginReply, Begin, Decide
  <2> QED  BY <2>1, <2>2, <2>3, <2>4 DEF TypeOK
<1>6. ASSUME NEW c \in Calls, NEW n \in Names, Spawn(c, n)
      PROVE  TypeOK' /\ SpawnInv'
  <2>0. spawnSeq + 1 \in 0..MaxSpawns /\ spawnSeq + 1 \in Workers /\ spawnSeq + 1 \in Names
    BY <1>6, TeamAssumption DEF TypeOK, TypeTeam, Workers, Names, Spawn, Minted
  <2>1. TypeTeam'
    BY <1>6, <2>0 DEF TypeOK, TypeTeam, Spawn, Begin, Decide, Minted
  <2>2. TypeMail'
    BY <1>6 DEF TypeOK, TypeMail, Spawn, Begin, Decide, Minted
  <2>3. TypeCalls'
    BY <1>6, <2>0 DEF TypeOK, TypeCalls, Ops, Outcomes, Places, Spawn, Begin, Decide, Minted
  <2>4. SpawnInv'
    BY <1>6, <2>0 DEF TypeOK, TypeCalls, SpawnInv, Spawning, Spawn, Begin, Decide, Minted
  <2> QED  BY <2>1, <2>2, <2>3, <2>4 DEF TypeOK
<1>7. ASSUME NEW c \in Calls, NEW n \in Names, NEW x \in BOOLEAN, SpawnRefused(c, n, x)
      PROVE  TypeOK' /\ SpawnInv'
  <2>1. TypeTeam'
    BY <1>7 DEF TypeOK, TypeTeam, SpawnRefused, Begin, Decide
  <2>2. TypeMail'
    BY <1>7 DEF TypeOK, TypeMail, SpawnRefused, Begin, Decide
  <2>0. SpawnRefusal(n, x) \in Outcomes /\ SpawnRefusal(n, x) # "delivered"
    BY DEF SpawnRefusal, Outcomes
  <2>3. TypeCalls'
    BY <1>7, <2>0 DEF TypeOK, TypeCalls, Ops, Places, SpawnRefused, Begin, Decide
  <2>4. SpawnInv'
    BY <1>7, <2>0 DEF TypeOK, TypeCalls, SpawnInv, Spawning, SpawnRefused, Begin, Decide
  <2> QED  BY <2>1, <2>2, <2>3, <2>4 DEF TypeOK
<1>8. ASSUME NEW c \in Calls, Exists(c)
      PROVE  TypeOK' /\ SpawnInv'
  <2>1. TypeTeam'
    BY <1>8 DEF TypeOK, TypeTeam, Exists, Goto, Decide
  <2>2. TypeMail'
    BY <1>8 DEF TypeOK, TypeMail, Exists, Goto, Decide
  <2>3. TypeCalls'
    BY <1>8 DEF TypeOK, TypeCalls, Ops, Outcomes, Places, Exists, Goto, Decide
  <2>4. SpawnInv'
    BY <1>8 DEF TypeOK, TypeCalls, SpawnInv, Spawning, Exists, Goto, Decide
  <2> QED  BY <2>1, <2>2, <2>3, <2>4 DEF TypeOK
<1>9. ASSUME NEW c \in Calls, Allows(c)
      PROVE  TypeOK' /\ SpawnInv'
  <2>1. TypeTeam'
    BY <1>9 DEF TypeOK, TypeTeam, Allows, Goto, Decide
  <2>2. TypeMail'
    BY <1>9 DEF TypeOK, TypeMail, Allows, Goto, Decide
  <2>3. TypeCalls'
    BY <1>9 DEF TypeOK, TypeCalls, Ops, Outcomes, Places, Allows, Goto, Decide
  <2>4. SpawnInv'
    BY <1>9 DEF TypeOK, TypeCalls, SpawnInv, Spawning, Allows, Goto, Decide
  <2> QED  BY <2>1, <2>2, <2>3, <2>4 DEF TypeOK
<1>10. ASSUME NEW c \in Calls, Lookup(c)
      PROVE  TypeOK' /\ SpawnInv'
  <2>1. TypeTeam'
    BY <1>10 DEF TypeOK, TypeTeam, Lookup, Goto, Decide
  <2>2. TypeMail'
    BY <1>10 DEF TypeOK, TypeMail, Lookup, Goto, Decide
  <2>3. TypeCalls'
    BY <1>10 DEF TypeOK, TypeCalls, Ops, Outcomes, Places, Lookup, Goto, Decide
  <2>4. SpawnInv'
    BY <1>10 DEF TypeOK, TypeCalls, SpawnInv, Spawning, Lookup, Goto, Decide
  <2> QED  BY <2>1, <2>2, <2>3, <2>4 DEF TypeOK
<1>11. ASSUME NEW c \in Calls, Enqueue(c)
      PROVE  TypeOK' /\ SpawnInv'
  <2>1. TypeTeam'
    BY <1>11 DEF TypeOK, TypeTeam, Enqueue, Goto, Decide
  <2>2. TypeMail'
    <3>1. CASE Len(queue[call[c].to]) < Mailbox
      <4>1. queue' = [queue EXCEPT ![call[c].to] = Append(@, c)]
        BY <1>11, <3>1 DEF Enqueue
      <4>2. \A n \in Names : Len(queue[n]) \in Nat /\ queue[n] \in Seq(Calls)
        BY DEF TypeOK, TypeMail
      <4>3. ASSUME NEW n \in Names
            PROVE  queue'[n] \in Seq(Calls) /\ Len(queue'[n]) <= Mailbox
        <5>1. CASE n = call[c].to
          <6>1. queue'[n] = Append(queue[n], c)
            BY <4>1, <5>1 DEF TypeOK, TypeMail
          <6>2. Len(queue'[n]) = Len(queue[n]) + 1 /\ queue'[n] \in Seq(Calls)
            BY <4>2, <6>1
          <6> QED  BY <3>1, <4>2, <5>1, <6>2, TeamAssumption
        <5>2. CASE n # call[c].to
          BY <4>1, <5>2 DEF TypeOK, TypeMail
        <5> QED  BY <5>1, <5>2
      <4>4. queue' \in [Names -> Seq(Calls)]
        BY <4>1, <4>3 DEF TypeOK, TypeMail
      <4> QED  BY <1>11, <4>3, <4>4 DEF TypeOK, TypeMail, Enqueue
    <3>2. CASE ~(Len(queue[call[c].to]) < Mailbox)
      BY <1>11, <3>2 DEF TypeOK, TypeMail, Enqueue
    <3> QED  BY <3>1, <3>2
  <2>3. TypeCalls'
    BY <1>11 DEF TypeOK, TypeCalls, Ops, Outcomes, Places, Enqueue, Goto, Decide
  <2>4. SpawnInv'
    BY <1>11 DEF TypeOK, TypeCalls, SpawnInv, Spawning, Enqueue, Goto, Decide
  <2> QED  BY <2>1, <2>2, <2>3, <2>4 DEF TypeOK
<1>12. ASSUME NEW c \in Calls, Record(c)
      PROVE  TypeOK' /\ SpawnInv'
  <2>1. TypeTeam'
    BY <1>12 DEF TypeOK, TypeTeam, Record, Goto, AfterRecord
  <2>2. TypeMail'
    BY <1>12 DEF TypeOK, TypeMail, Record, Goto, AfterRecord
  <2>3. TypeCalls'
    BY <1>12 DEF TypeOK, TypeCalls, Ops, Outcomes, Places, Record, Goto, AfterRecord
  <2>4. SpawnInv'
    BY <1>12 DEF TypeOK, TypeCalls, SpawnInv, Spawning, Record, Goto, AfterRecord
  <2> QED  BY <2>1, <2>2, <2>3, <2>4 DEF TypeOK
<1>13. ASSUME NEW c \in Calls, AskAnswered(c)
      PROVE  TypeOK' /\ SpawnInv'
  <2>1. TypeTeam'
    BY <1>13 DEF TypeOK, TypeTeam, AskAnswered, Goto, TakeAnswer, Decide
  <2>2. TypeMail'
    BY <1>13 DEF TypeOK, TypeMail, AskAnswered, Goto, TakeAnswer, Decide
  <2>3. TypeCalls'
    BY <1>13 DEF TypeOK, TypeMail, TypeCalls, Ops, Outcomes, Places, AskAnswered, Goto, TakeAnswer, Decide
  <2>4. SpawnInv'
    BY <1>13 DEF TypeOK, TypeCalls, SpawnInv, Spawning, AskAnswered, Goto, TakeAnswer, Decide
  <2> QED  BY <2>1, <2>2, <2>3, <2>4 DEF TypeOK
<1>14. ASSUME NEW c \in Calls, AskTimesOut(c)
      PROVE  TypeOK' /\ SpawnInv'
  <2>1. TypeTeam'
    BY <1>14 DEF TypeOK, TypeTeam, AskTimesOut, Goto, TakeAnswer, Decide
  <2>2. TypeMail'
    BY <1>14 DEF TypeOK, TypeMail, AskTimesOut, Goto, TakeAnswer, Decide
  <2>3. TypeCalls'
    BY ZenonT(60), <1>14 DEF TypeOK, TypeMail, TypeCalls, Ops, Outcomes, Places, AskTimesOut, Goto, TakeAnswer, Decide
  <2>4. SpawnInv'
    BY <1>14 DEF TypeOK, TypeCalls, SpawnInv, Spawning, AskTimesOut, Goto, TakeAnswer, Decide
  <2> QED  BY <2>1, <2>2, <2>3, <2>4 DEF TypeOK
<1>15. ASSUME NEW c \in Calls, Undo(c)
      PROVE  TypeOK' /\ SpawnInv'
  <2>1. TypeTeam'
    BY <1>15 DEF TypeOK, TypeTeam, Undo, Return
  <2>2. TypeMail'
    BY <1>15 DEF TypeOK, TypeMail, Undo, Return
  <2>3. TypeCalls'
    BY <1>15 DEF TypeOK, TypeCalls, Ops, Outcomes, Places, Undo, Return
  <2>4. SpawnInv'
    BY <1>15 DEF TypeOK, TypeCalls, SpawnInv, Spawning, Undo, Return
  <2> QED  BY <2>1, <2>2, <2>3, <2>4 DEF TypeOK
<1>16. ASSUME NEW c \in Calls, Receive(c)
      PROVE  TypeOK' /\ SpawnInv'
  <2>1. TypeTeam'
    BY <1>16 DEF TypeOK, TypeTeam, Receive, Return
  <2>0. /\ Head(queue[call[c].by]) \in Calls /\ Tail(queue[call[c].by]) \in Seq(Calls)
        /\ Len(Tail(queue[call[c].by])) <= Mailbox
    <3>0. call[c].by \in Names /\ queue[call[c].by] # <<>>
      BY <1>16 DEF TypeOK, TypeCalls, Receive
    <3>1. queue[call[c].by] \in Seq(Calls) /\ Len(queue[call[c].by]) <= Mailbox
      BY <3>0 DEF TypeOK, TypeMail
    <3>2. Len(Tail(queue[call[c].by])) = Len(queue[call[c].by]) - 1
      BY <3>0, <3>1
    <3> QED  BY <3>0, <3>1, <3>2, TeamAssumption
  <2>2. TypeMail'
    BY <1>16, <2>0 DEF TypeOK, TypeMail, TypeCalls, Receive, Return
  <2>3. TypeCalls'
    BY <1>16, <2>0 DEF TypeOK, TypeCalls, Ops, Outcomes, Places, Receive, Return
  <2>4. SpawnInv'
    BY <1>16 DEF TypeOK, TypeCalls, SpawnInv, Spawning, Receive, Return
  <2> QED  BY <2>1, <2>2, <2>3, <2>4 DEF TypeOK
<1>17. ASSUME NEW c \in Calls, RecvTimesOut(c)
      PROVE  TypeOK' /\ SpawnInv'
  <2>1. TypeTeam'
    BY <1>17 DEF TypeOK, TypeTeam, RecvTimesOut, Return
  <2>2. TypeMail'
    BY <1>17 DEF TypeOK, TypeMail, RecvTimesOut, Return
  <2>3. TypeCalls'
    BY <1>17 DEF TypeOK, TypeCalls, Ops, Outcomes, Places, RecvTimesOut, Return
  <2>4. SpawnInv'
    BY <1>17 DEF TypeOK, TypeCalls, SpawnInv, Spawning, RecvTimesOut, Return
  <2> QED  BY <2>1, <2>2, <2>3, <2>4 DEF TypeOK
<1>18. ASSUME NEW c \in Calls, Claim(c)
      PROVE  TypeOK' /\ SpawnInv'
  <2>1. TypeTeam'
    BY <1>18 DEF TypeOK, TypeTeam, Claim, Goto, Decide
  <2>2. TypeMail'
    BY <1>18 DEF TypeOK, TypeMail, Claim, Goto, Decide
  <2>3. TypeCalls'
    BY <1>18 DEF TypeOK, TypeCalls, Ops, Outcomes, Places, Claim, Goto, Decide
  <2>4. SpawnInv'
    BY <1>18 DEF TypeOK, TypeCalls, SpawnInv, Spawning, Claim, Goto, Decide
  <2> QED  BY <2>1, <2>2, <2>3, <2>4 DEF TypeOK
<1>19. ASSUME NEW c \in Calls, Attach(c)
      PROVE  TypeOK' /\ SpawnInv'
  <2>0. call[c].to \in Workers /\ call[c].to \in Names /\ call[c].by \in Names
    BY <1>19 DEF SpawnInv, Spawning, Names, Attach, Goto
  <2>1. TypeTeam'
    BY <1>19, <2>0 DEF TypeOK, TypeTeam, Attach, Goto
  <2>2. TypeMail'
    BY <1>19 DEF TypeOK, TypeMail, Attach, Goto
  <2>3. TypeCalls'
    BY <1>19 DEF TypeOK, TypeCalls, Ops, Outcomes, Places, Attach, Goto
  <2>4. SpawnInv'
    BY <1>19 DEF TypeOK, TypeCalls, SpawnInv, Spawning, Attach, Goto
  <2> QED  BY <2>1, <2>2, <2>3, <2>4 DEF TypeOK
<1>20. ASSUME NEW c \in Calls, MachineUp(c)
      PROVE  TypeOK' /\ SpawnInv'
  <2>1. TypeTeam'
    BY <1>20 DEF TypeOK, TypeTeam, SpawnInv, Spawning, MachineUp, Goto
  <2>2. TypeMail'
    BY <1>20 DEF TypeOK, TypeMail, MachineUp, Goto
  <2>3. TypeCalls'
    BY <1>20 DEF TypeOK, TypeCalls, Ops, Outcomes, Places, MachineUp, Goto
  <2>4. SpawnInv'
    BY <1>20 DEF TypeOK, TypeCalls, SpawnInv, Spawning, MachineUp, Goto
  <2> QED  BY <2>1, <2>2, <2>3, <2>4 DEF TypeOK
<1>21. ASSUME NEW c \in Calls, BootDone(c)
      PROVE  TypeOK' /\ SpawnInv'
  <2>1. TypeTeam'
    BY <1>21 DEF TypeOK, TypeTeam, BootDone, Return
  <2>2. TypeMail'
    BY <1>21 DEF TypeOK, TypeMail, BootDone, Return
  <2>3. TypeCalls'
    BY <1>21 DEF TypeOK, TypeCalls, Ops, Outcomes, Places, BootDone, Return
  <2>4. SpawnInv'
    BY <1>21 DEF TypeOK, TypeCalls, SpawnInv, Spawning, BootDone, Return
  <2> QED  BY <2>1, <2>2, <2>3, <2>4 DEF TypeOK
<1>22. ASSUME NEW c \in Calls, BootFails(c)
      PROVE  TypeOK' /\ SpawnInv'
  <2>1. TypeTeam'
    BY <1>22 DEF TypeOK, TypeTeam, BootFails, Goto
  <2>2. TypeMail'
    BY <1>22 DEF TypeOK, TypeMail, BootFails, Goto
  <2>3. TypeCalls'
    BY <1>22 DEF TypeOK, TypeCalls, Ops, Outcomes, Places, BootFails, Goto
  <2>4. SpawnInv'
    BY <1>22 DEF TypeOK, TypeCalls, SpawnInv, Spawning, BootFails, Goto
  <2> QED  BY <2>1, <2>2, <2>3, <2>4 DEF TypeOK
<1>23. ASSUME NEW c \in Calls, GiveBack(c)
      PROVE  TypeOK' /\ SpawnInv'
  <2>1. TypeTeam'
    BY <1>23 DEF TypeOK, TypeTeam, GiveBack, Goto, FreePlace
  <2>2. TypeMail'
    BY <1>23 DEF TypeOK, TypeMail, GiveBack, Goto, FreePlace
  <2>3. TypeCalls'
    BY <1>23 DEF TypeOK, TypeCalls, Ops, Outcomes, Places, GiveBack, Goto, FreePlace
  <2>4. SpawnInv'
    BY <1>23 DEF TypeOK, TypeCalls, SpawnInv, Spawning, GiveBack, Goto, FreePlace
  <2> QED  BY <2>1, <2>2, <2>3, <2>4 DEF TypeOK
<1>24. ASSUME NEW c \in Calls, Withdraw(c)
      PROVE  TypeOK' /\ SpawnInv'
  <2>1. TypeTeam'
    BY <1>24 DEF TypeOK, TypeTeam, Withdraw, Goto, Detach, Decide
  <2>2. TypeMail'
    BY <1>24 DEF TypeOK, TypeMail, Withdraw, Goto, Detach, Decide
  <2>3. TypeCalls'
    BY <1>24 DEF TypeOK, TypeCalls, Ops, Outcomes, Places, Withdraw, Goto, Detach, Decide
  <2>4. SpawnInv'
    BY <1>24 DEF TypeOK, TypeCalls, SpawnInv, Spawning, Withdraw, Goto, Detach, Decide
  <2> QED  BY <2>1, <2>2, <2>3, <2>4 DEF TypeOK
<1>25. ASSUME NEW w \in Workers, Expire(w)
      PROVE  TypeOK' /\ SpawnInv'
  <2>1. TypeTeam'
    BY <1>25 DEF TypeOK, TypeTeam, Expire, FreePlace
  <2>2. TypeMail'
    BY <1>25 DEF TypeOK, TypeMail, Expire, FreePlace
  <2>3. TypeCalls'
    BY <1>25 DEF TypeOK, TypeCalls, Ops, Outcomes, Places, Expire, FreePlace
  <2>4. SpawnInv'
    BY <1>25 DEF TypeOK, TypeCalls, SpawnInv, Spawning, Expire, FreePlace
  <2> QED  BY <2>1, <2>2, <2>3, <2>4 DEF TypeOK
<1>26. ASSUME NEW w \in Workers, Leave(w)
      PROVE  TypeOK' /\ SpawnInv'
  <2>1. TypeTeam'
    BY <1>26 DEF TypeOK, TypeTeam, Leave, Detach
  <2>2. TypeMail'
    BY <1>26 DEF TypeOK, TypeMail, Leave, Detach
  <2>3. TypeCalls'
    BY <1>26 DEF TypeOK, TypeCalls, Ops, Outcomes, Places, Leave, Detach
  <2>4. SpawnInv'
    BY <1>26 DEF TypeOK, TypeCalls, SpawnInv, Spawning, Leave, Detach
  <2> QED  BY <2>1, <2>2, <2>3, <2>4 DEF TypeOK
<1>27. ASSUME NEW w \in Workers, StopMachine(w)
      PROVE  TypeOK' /\ SpawnInv'
  <2>1. TypeTeam'
    BY <1>27 DEF TypeOK, TypeTeam, StopMachine
  <2>2. TypeMail'
    BY <1>27 DEF TypeOK, TypeMail, StopMachine
  <2>3. TypeCalls'
    BY <1>27 DEF TypeOK, TypeCalls, Ops, Outcomes, Places, StopMachine
  <2>4. SpawnInv'
    BY <1>27 DEF TypeOK, TypeCalls, SpawnInv, Spawning, StopMachine
  <2> QED  BY <2>1, <2>2, <2>3, <2>4 DEF TypeOK
<1>28. CASE UNCHANGED vars
  BY <1>28 DEF TypeOK, TypeTeam, TypeMail, TypeCalls, SpawnInv, vars
<1> QED
  BY <1>1, <1>2, <1>3, <1>4, <1>5, <1>6, <1>7, <1>8, <1>9, <1>10,
     <1>11, <1>12, <1>13, <1>14, <1>15, <1>16, <1>17, <1>18, <1>19, <1>20,
     <1>21, <1>22, <1>23, <1>24, <1>25, <1>26, <1>27, <1>28
  DEF Next, Step, BeginCall, Lifetime

\* The maps, channels and frames of the broker hold what they are declared to,
\* and no mailbox outgrows its capacity.
THEOREM TypeCorrect == Spec => []TypeOK
<1>1. Init => TypeOK /\ SpawnInv  BY TypeInit
<1>2. TypeOK /\ SpawnInv /\ [Next]_vars => TypeOK' /\ SpawnInv'  BY TypeNext
<1> QED  BY <1>1, <1>2, PTL DEF Spec

\* Where a request is, what it is and what its caller was told agree.
LEMMA CallInit == Init => CallInv
<1> SUFFICES ASSUME Init PROVE CallInv
  OBVIOUS
<1>1. \A c \in Calls : /\ call[c] = NoCall /\ pc[c] = "new" /\ outcome[c] = "none"
                       /\ told[c] = "nothing" /\ got[c] = None
  BY Zenon DEF Init
<1>2. NoCall.op = "none"
  BY DEF NoCall
<1> QED  BY <1>1, <1>2, Zenon DEF CallInv, Delivering, Spawning

\* Every step of a request's goroutine keeps them agreeing: only Undo, Record and the
\* two timers of a wait tell a caller anything (Serve's return).
LEMMA CallNext ==
  TypeOK /\ CallInv /\ [Next]_vars => CallInv'
<1> SUFFICES ASSUME TypeOK, CallInv, [Next]_vars
             PROVE  CallInv'
  OBVIOUS
<1> USE DEF topology, mail, asks, spawns, host, answers
<1>1. ASSUME NEW c \in Calls, NEW n \in Names, NEW to \in Names, BeginSend(c, n, to)
      PROVE  CallInv'
  BY <1>1 DEF TypeOK, TypeCalls, CallInv, Delivering, Spawning, BeginSend, Begin
<1>2. ASSUME NEW c \in Calls, NEW n \in Names, NEW to \in Names, BeginAsk(c, n, to)
      PROVE  CallInv'
  BY <1>2 DEF TypeOK, TypeCalls, CallInv, Delivering, Spawning, BeginAsk, Begin
<1>3. ASSUME NEW c \in Calls, NEW n \in Names, BeginRecv(c, n)
      PROVE  CallInv'
  BY <1>3 DEF TypeOK, TypeCalls, CallInv, Delivering, Spawning, BeginRecv, Begin
<1>4. ASSUME NEW c \in Calls, NEW n \in Names, RecvNobody(c, n)
      PROVE  CallInv'
  BY <1>4 DEF TypeOK, TypeCalls, CallInv, Delivering, Spawning, RecvNobody, Return, Callers
<1>5. ASSUME NEW c \in Calls, NEW n \in Names, NEW t \in seen \cup {None},
             BeginReply(c, n, t)
      PROVE  CallInv'
  BY <1>5 DEF TypeOK, TypeCalls, CallInv, Delivering, Spawning, BeginReply, Begin, Decide
<1>6. ASSUME NEW c \in Calls, NEW n \in Names, Spawn(c, n)
      PROVE  CallInv'
  BY <1>6 DEF TypeOK, TypeCalls, CallInv, Delivering, Spawning, Spawn, Begin, Decide, Minted
<1>7. ASSUME NEW c \in Calls, NEW n \in Names, NEW x \in BOOLEAN, SpawnRefused(c, n, x)
      PROVE  CallInv'
  BY <1>7 DEF TypeOK, TypeCalls, CallInv, Delivering, Spawning, SpawnRefused, Begin, Decide
<1>8. ASSUME NEW c \in Calls, Exists(c)
      PROVE  CallInv'
  BY <1>8 DEF TypeOK, TypeCalls, CallInv, Delivering, Spawning, Exists, Goto, Decide
<1>9. ASSUME NEW c \in Calls, Allows(c)
      PROVE  CallInv'
  BY <1>9 DEF TypeOK, TypeCalls, CallInv, Delivering, Spawning, Allows, Goto, Decide
<1>10. ASSUME NEW c \in Calls, Lookup(c)
      PROVE  CallInv'
  BY <1>10 DEF TypeOK, TypeCalls, CallInv, Delivering, Spawning, Lookup, Goto, Decide
<1>11. ASSUME NEW c \in Calls, Enqueue(c)
      PROVE  CallInv'
  BY <1>11 DEF TypeOK, TypeCalls, CallInv, Delivering, Spawning, Enqueue, Goto, Decide
<1>12. ASSUME NEW c \in Calls, Record(c)
      PROVE  CallInv'
  BY <1>12 DEF TypeOK, TypeCalls, CallInv, Delivering, Spawning, Record, Goto, AfterRecord
<1>13. ASSUME NEW c \in Calls, AskAnswered(c)
      PROVE  CallInv'
  BY <1>13 DEF TypeOK, TypeCalls, CallInv, Delivering, Spawning, AskAnswered, Goto, TakeAnswer, Decide
<1>14. ASSUME NEW c \in Calls, AskTimesOut(c)
      PROVE  CallInv'
  BY <1>14 DEF TypeOK, TypeCalls, CallInv, Delivering, Spawning, AskTimesOut, Goto, TakeAnswer, Decide
<1>15. ASSUME NEW c \in Calls, Undo(c)
      PROVE  CallInv'
  BY <1>15 DEF TypeOK, TypeCalls, CallInv, Delivering, Spawning, Undo, Return
<1>16. ASSUME NEW c \in Calls, Receive(c)
      PROVE  CallInv'
  BY <1>16 DEF TypeOK, TypeCalls, CallInv, Delivering, Spawning, Receive, Return
<1>17. ASSUME NEW c \in Calls, RecvTimesOut(c)
      PROVE  CallInv'
  BY <1>17 DEF TypeOK, TypeCalls, CallInv, Delivering, Spawning, RecvTimesOut, Return
<1>18. ASSUME NEW c \in Calls, Claim(c)
      PROVE  CallInv'
  BY <1>18 DEF TypeOK, TypeCalls, CallInv, Delivering, Spawning, Claim, Goto, Decide
<1>19. ASSUME NEW c \in Calls, Attach(c)
      PROVE  CallInv'
  BY <1>19 DEF TypeOK, TypeCalls, CallInv, Delivering, Spawning, Attach, Goto
<1>20. ASSUME NEW c \in Calls, MachineUp(c)
      PROVE  CallInv'
  BY <1>20 DEF TypeOK, TypeCalls, CallInv, Delivering, Spawning, MachineUp, Goto
<1>21. ASSUME NEW c \in Calls, BootDone(c)
      PROVE  CallInv'
  BY <1>21 DEF TypeOK, TypeCalls, CallInv, Delivering, Spawning, BootDone, Return
<1>22. ASSUME NEW c \in Calls, BootFails(c)
      PROVE  CallInv'
  BY <1>22 DEF TypeOK, TypeCalls, CallInv, Delivering, Spawning, BootFails, Goto
<1>23. ASSUME NEW c \in Calls, GiveBack(c)
      PROVE  CallInv'
  BY <1>23 DEF TypeOK, TypeCalls, CallInv, Delivering, Spawning, GiveBack, Goto, FreePlace
<1>24. ASSUME NEW c \in Calls, Withdraw(c)
      PROVE  CallInv'
  BY <1>24 DEF TypeOK, TypeCalls, CallInv, Delivering, Spawning, Withdraw, Goto, Detach, Decide
<1>25. ASSUME NEW w \in Workers, Expire(w)
      PROVE  CallInv'
  BY <1>25 DEF TypeOK, TypeCalls, CallInv, Delivering, Spawning, Expire, FreePlace
<1>26. ASSUME NEW w \in Workers, Leave(w)
      PROVE  CallInv'
  BY <1>26 DEF TypeOK, TypeCalls, CallInv, Delivering, Spawning, Leave, Detach
<1>27. ASSUME NEW w \in Workers, StopMachine(w)
      PROVE  CallInv'
  BY <1>27 DEF TypeOK, TypeCalls, CallInv, Delivering, Spawning, StopMachine
<1>28. CASE UNCHANGED vars
  BY <1>28 DEF CallInv, vars
<1> QED
  BY <1>1, <1>2, <1>3, <1>4, <1>5, <1>6, <1>7, <1>8, <1>9, <1>10,
     <1>11, <1>12, <1>13, <1>14, <1>15, <1>16, <1>17, <1>18, <1>19, <1>20,
     <1>21, <1>22, <1>23, <1>24, <1>25, <1>26, <1>27, <1>28
  DEF Next, Step, BeginCall, Lifetime

\* Mailboxes hold accepted messages, and a tag is known only of an accepted question.
LEMMA MessageInit == Init => MessageInv
  BY DEF Init, MessageInv, NoCall

\* A message is in a mailbox only if deliver's send took it, and a tag is known only
\* to an agent whose Recv returned it.
LEMMA MessageNext ==
  TypeOK /\ CallInv /\ MessageInv /\ QuestionInv /\ [Next]_vars => MessageInv'
<1> SUFFICES ASSUME TypeOK, CallInv, MessageInv, QuestionInv, [Next]_vars
             PROVE  MessageInv'
  OBVIOUS
<1> USE DEF topology, mail, asks, spawns, host, answers
<1>1. ASSUME NEW c \in Calls, NEW n \in Names, NEW to \in Names, BeginSend(c, n, to)
      PROVE  MessageInv'
  BY <1>1 DEF TypeOK, TypeMail, TypeCalls, CallInv, MessageInv, Delivering, Spawning, Accepted, BeginSend, Begin
<1>2. ASSUME NEW c \in Calls, NEW n \in Names, NEW to \in Names, BeginAsk(c, n, to)
      PROVE  MessageInv'
  BY <1>2 DEF TypeOK, TypeMail, TypeCalls, CallInv, MessageInv, Delivering, Spawning, Accepted, BeginAsk, Begin
<1>3. ASSUME NEW c \in Calls, NEW n \in Names, BeginRecv(c, n)
      PROVE  MessageInv'
  BY <1>3 DEF TypeOK, TypeMail, TypeCalls, CallInv, MessageInv, Delivering, Spawning, Accepted, BeginRecv, Begin
<1>4. ASSUME NEW c \in Calls, NEW n \in Names, RecvNobody(c, n)
      PROVE  MessageInv'
  BY <1>4 DEF TypeOK, TypeMail, TypeCalls, CallInv, MessageInv, Delivering, Spawning, Accepted, RecvNobody, Return, Callers
<1>5. ASSUME NEW c \in Calls, NEW n \in Names, NEW t \in seen \cup {None},
             BeginReply(c, n, t)
      PROVE  MessageInv'
  BY <1>5 DEF TypeOK, TypeMail, TypeCalls, CallInv, MessageInv, Delivering, Spawning, Accepted, BeginReply, Begin, Decide
<1>6. ASSUME NEW c \in Calls, NEW n \in Names, Spawn(c, n)
      PROVE  MessageInv'
  BY <1>6 DEF TypeOK, TypeMail, TypeCalls, CallInv, MessageInv, Delivering, Spawning, Accepted, Spawn, Begin, Decide, Minted
<1>7. ASSUME NEW c \in Calls, NEW n \in Names, NEW x \in BOOLEAN, SpawnRefused(c, n, x)
      PROVE  MessageInv'
  BY <1>7 DEF TypeOK, TypeMail, TypeCalls, CallInv, MessageInv, Delivering, Spawning, Accepted, SpawnRefused, Begin, Decide
<1>8. ASSUME NEW c \in Calls, Exists(c)
      PROVE  MessageInv'
  <2>1. outcome[c] = "none" /\ \A m \in Calls : m # c => outcome'[m] = outcome[m]
    BY <1>8 DEF TypeOK, TypeCalls, CallInv, Delivering, Exists, Goto, Decide
  <2>2. outcome'[c] \in {"none", "no_such_agent"}
    BY <1>8, <2>1 DEF TypeOK, TypeCalls, Exists, Goto, Decide
  <2>3. UNCHANGED <<seen, call, queue>>
    BY <1>8 DEF Exists, Goto, Decide
  <2>4. \A n \in Names : \A i \in DOMAIN queue[n] : queue[n][i] \in Calls
    BY DEF TypeOK, TypeMail
  <2> QED  BY ZenonT(60), <2>1, <2>2, <2>3, <2>4 DEF TypeOK, TypeMail, MessageInv, Accepted
<1>9. ASSUME NEW c \in Calls, Allows(c)
      PROVE  MessageInv'
  <2>1. outcome[c] = "none" /\ \A m \in Calls : m # c => outcome'[m] = outcome[m]
    BY <1>9 DEF TypeOK, TypeCalls, CallInv, Delivering, Allows, Goto, Decide
  <2>2. outcome'[c] \in {"none", "no_edge"}
    BY <1>9, <2>1 DEF TypeOK, TypeCalls, Allows, Goto, Decide
  <2>3. UNCHANGED <<seen, call, queue>>
    BY <1>9 DEF Allows, Goto, Decide
  <2>4. \A n \in Names : \A i \in DOMAIN queue[n] : queue[n][i] \in Calls
    BY DEF TypeOK, TypeMail
  <2> QED  BY ZenonT(60), <2>1, <2>2, <2>3, <2>4 DEF TypeOK, TypeMail, MessageInv, Accepted
<1>10. ASSUME NEW c \in Calls, Lookup(c)
      PROVE  MessageInv'
  <2>1. outcome[c] = "none" /\ \A m \in Calls : m # c => outcome'[m] = outcome[m]
    BY <1>10 DEF TypeOK, TypeCalls, CallInv, Delivering, Lookup, Goto, Decide
  <2>2. outcome'[c] \in {"none", "unreachable"}
    BY <1>10, <2>1 DEF TypeOK, TypeCalls, Lookup, Goto, Decide
  <2>3. UNCHANGED <<seen, call, queue>>
    BY <1>10 DEF Lookup, Goto, Decide
  <2>4. \A n \in Names : \A i \in DOMAIN queue[n] : queue[n][i] \in Calls
    BY DEF TypeOK, TypeMail
  <2> QED  BY ZenonT(60), <2>1, <2>2, <2>3, <2>4 DEF TypeOK, TypeMail, MessageInv, Accepted
<1>11. ASSUME NEW c \in Calls, Enqueue(c)
      PROVE  MessageInv'
  <2>1. ASSUME NEW n \in Names, NEW i \in DOMAIN queue'[n]
        PROVE  /\ call[queue'[n][i]].op \in {"send", "ask"}
               /\ outcome'[queue'[n][i]] \in Accepted
    <3>1. queue[n] \in Seq(Calls) /\ c \in Calls  BY DEF TypeOK, TypeMail
    <3>2. \/ queue'[n] = queue[n]
          \/ queue'[n] = Append(queue[n], c) /\ outcome'[c] = "delivered"
      BY <1>11 DEF TypeOK, TypeMail, TypeCalls, Enqueue, Goto, Decide
    <3>3. \/ i \in DOMAIN queue[n] /\ queue'[n][i] = queue[n][i]
          \/ queue'[n][i] = c /\ outcome'[c] = "delivered"
      BY <3>1, <3>2
    <3>4. \A m \in Calls : m # c => outcome'[m] = outcome[m]
      BY <1>11 DEF TypeOK, TypeCalls, Enqueue, Goto, Decide
    <3>5. call[c].op \in {"send", "ask"} /\ outcome[c] = "none"
      BY <1>11 DEF CallInv, Delivering, Enqueue, Goto, Decide
    <3>6. i \in DOMAIN queue[n] => queue[n][i] \in Calls
      BY <3>1
    <3> QED  BY <3>3, <3>4, <3>5, <3>6 DEF MessageInv, Accepted
  <2>2. outcome[c] = "none" /\ \A m \in Calls : m # c => outcome'[m] = outcome[m]
    BY <1>11 DEF TypeOK, TypeCalls, CallInv, Delivering, Enqueue, Goto, Decide
  <2>3. outcome'[c] \in {"delivered", "unreachable"}
    BY <1>11 DEF TypeOK, TypeCalls, Enqueue, Goto, Decide
  <2>4. UNCHANGED <<seen, call>>
    BY <1>11 DEF Enqueue, Goto, Decide
  <2> QED  BY <2>1, <2>2, <2>3, <2>4 DEF TypeOK, TypeMail, MessageInv, Accepted
<1>12. ASSUME NEW c \in Calls, Record(c)
      PROVE  MessageInv'
  BY <1>12 DEF TypeOK, TypeMail, TypeCalls, CallInv, MessageInv, Delivering, Spawning, Accepted, Record, Goto, AfterRecord
<1>13. ASSUME NEW c \in Calls, AskAnswered(c)
      PROVE  MessageInv'
  BY <1>13 DEF TypeOK, TypeMail, TypeCalls, CallInv, MessageInv, Delivering, Spawning, Accepted, AskAnswered, Goto, TakeAnswer, Decide
<1>14. ASSUME NEW c \in Calls, AskTimesOut(c)
      PROVE  MessageInv'
  <2>1. call[c].op = "ask" /\ \A m \in Calls : m # c => outcome'[m] = outcome[m]
    BY <1>14 DEF TypeOK, TypeCalls, CallInv, AskTimesOut, Goto, TakeAnswer, Decide
  <2>2. outcome'[c] \in {"answered", "timeout"}
    BY <1>14 DEF TypeOK, TypeCalls, AskTimesOut, Goto, TakeAnswer, Decide
  <2>3. UNCHANGED <<seen, call, queue>>
    BY <1>14 DEF AskTimesOut, Goto, TakeAnswer, Decide
  <2>4. \A n \in Names : \A i \in DOMAIN queue[n] : queue[n][i] \in Calls
    BY DEF TypeOK, TypeMail
  <2> QED  BY <2>1, <2>2, <2>3, <2>4 DEF TypeOK, TypeMail, MessageInv, Accepted
<1>15. ASSUME NEW c \in Calls, Undo(c)
      PROVE  MessageInv'
  BY <1>15 DEF TypeOK, TypeMail, TypeCalls, CallInv, MessageInv, Delivering, Spawning, Accepted, Undo, Return
<1>16. ASSUME NEW c \in Calls, Receive(c)
      PROVE  MessageInv'
  BY <1>16 DEF TypeOK, TypeMail, TypeCalls, CallInv, MessageInv, Delivering, Spawning, Accepted, Receive, Return
<1>17. ASSUME NEW c \in Calls, RecvTimesOut(c)
      PROVE  MessageInv'
  BY <1>17 DEF TypeOK, TypeMail, TypeCalls, CallInv, MessageInv, Delivering, Spawning, Accepted, RecvTimesOut, Return
<1>18. ASSUME NEW c \in Calls, Claim(c)
      PROVE  MessageInv'
  <2>1. outcome[c] = "none" /\ \A m \in Calls : m # c => outcome'[m] = outcome[m]
    BY <1>18 DEF TypeOK, TypeCalls, CallInv, Claim, Goto, Decide
  <2>2. call[c].op = "reply"
    BY <1>18 DEF CallInv, Claim, Goto, Decide
  <2>3. UNCHANGED <<seen, call, queue>>
    BY <1>18 DEF Claim, Goto, Decide
  <2>4. \A n \in Names : \A i \in DOMAIN queue[n] : queue[n][i] \in Calls
    BY DEF TypeOK, TypeMail
  <2> QED  BY <2>1, <2>2, <2>3, <2>4 DEF TypeOK, TypeMail, MessageInv, Accepted
<1>19. ASSUME NEW c \in Calls, Attach(c)
      PROVE  MessageInv'
  BY <1>19 DEF TypeOK, TypeMail, TypeCalls, CallInv, MessageInv, Delivering, Spawning, Accepted, Attach, Goto
<1>20. ASSUME NEW c \in Calls, MachineUp(c)
      PROVE  MessageInv'
  BY <1>20 DEF TypeOK, TypeMail, TypeCalls, CallInv, MessageInv, Delivering, Spawning, Accepted, MachineUp, Goto
<1>21. ASSUME NEW c \in Calls, BootDone(c)
      PROVE  MessageInv'
  BY <1>21 DEF TypeOK, TypeMail, TypeCalls, CallInv, MessageInv, Delivering, Spawning, Accepted, BootDone, Return
<1>22. ASSUME NEW c \in Calls, BootFails(c)
      PROVE  MessageInv'
  BY <1>22 DEF TypeOK, TypeMail, TypeCalls, CallInv, MessageInv, Delivering, Spawning, Accepted, BootFails, Goto
<1>23. ASSUME NEW c \in Calls, GiveBack(c)
      PROVE  MessageInv'
  BY <1>23 DEF TypeOK, TypeMail, TypeCalls, CallInv, MessageInv, Delivering, Spawning, Accepted, GiveBack, Goto, FreePlace
<1>24. ASSUME NEW c \in Calls, Withdraw(c)
      PROVE  MessageInv'
  BY <1>24 DEF TypeOK, TypeMail, TypeCalls, CallInv, MessageInv, Delivering, Spawning, Accepted, Withdraw, Goto, Detach, Decide
<1>25. ASSUME NEW w \in Workers, Expire(w)
      PROVE  MessageInv'
  BY <1>25 DEF TypeOK, TypeMail, TypeCalls, CallInv, MessageInv, Delivering, Spawning, Accepted, Expire, FreePlace
<1>26. ASSUME NEW w \in Workers, Leave(w)
      PROVE  MessageInv'
  BY <1>26 DEF TypeOK, TypeMail, TypeCalls, CallInv, MessageInv, Delivering, Spawning, Accepted, Leave, Detach
<1>27. ASSUME NEW w \in Workers, StopMachine(w)
      PROVE  MessageInv'
  BY <1>27 DEF TypeOK, TypeMail, TypeCalls, CallInv, MessageInv, Delivering, Spawning, Accepted, StopMachine
<1>28. CASE UNCHANGED vars
  BY <1>28 DEF MessageInv, vars
<1> QED
  BY <1>1, <1>2, <1>3, <1>4, <1>5, <1>6, <1>7, <1>8, <1>9, <1>10,
     <1>11, <1>12, <1>13, <1>14, <1>15, <1>16, <1>17, <1>18, <1>19, <1>20,
     <1>21, <1>22, <1>23, <1>24, <1>25, <1>26, <1>27, <1>28
  DEF Next, Step, BeginCall, Lifetime

\* A question is outstanding, answered or over.
LEMMA QuestionInit == Init => QuestionInv
  BY DEF Init, QuestionInv, NoCall

\* A tag leaves pending by Reply's claim, by Ask's timer or by Ask's deferred delete,
\* and the answer is in the channel from the claim until Ask takes it.
LEMMA QuestionNext ==
  TypeOK /\ CallInv /\ MessageInv /\ QuestionInv /\ AnswerInv /\ [Next]_vars => QuestionInv'
<1> SUFFICES ASSUME TypeOK, CallInv, MessageInv, QuestionInv, AnswerInv, [Next]_vars
             PROVE  QuestionInv'
  OBVIOUS
<1> USE DEF topology, mail, asks, spawns, host, answers
<1>1. ASSUME NEW c \in Calls, NEW n \in Names, NEW to \in Names, BeginSend(c, n, to)
      PROVE  QuestionInv'
  BY <1>1 DEF TypeOK, TypeMail, TypeCalls, CallInv, MessageInv, QuestionInv, Delivering, Spawning, Accepted, BeginSend, Begin
<1>2. ASSUME NEW c \in Calls, NEW n \in Names, NEW to \in Names, BeginAsk(c, n, to)
      PROVE  QuestionInv'
  BY <1>2 DEF TypeOK, TypeMail, TypeCalls, CallInv, MessageInv, QuestionInv, Delivering, Spawning, Accepted, BeginAsk, Begin
<1>3. ASSUME NEW c \in Calls, NEW n \in Names, BeginRecv(c, n)
      PROVE  QuestionInv'
  BY <1>3 DEF TypeOK, TypeMail, TypeCalls, CallInv, MessageInv, QuestionInv, Delivering, Spawning, Accepted, BeginRecv, Begin
<1>4. ASSUME NEW c \in Calls, NEW n \in Names, RecvNobody(c, n)
      PROVE  QuestionInv'
  BY <1>4 DEF TypeOK, TypeMail, TypeCalls, CallInv, MessageInv, QuestionInv, Delivering, Spawning, Accepted, RecvNobody, Return, Callers
<1>5. ASSUME NEW c \in Calls, NEW n \in Names, NEW t \in seen \cup {None},
             BeginReply(c, n, t)
      PROVE  QuestionInv'
  BY <1>5 DEF TypeOK, TypeMail, TypeCalls, CallInv, MessageInv, QuestionInv, Delivering, Spawning, Accepted, BeginReply, Begin, Decide
<1>6. ASSUME NEW c \in Calls, NEW n \in Names, Spawn(c, n)
      PROVE  QuestionInv'
  BY <1>6 DEF TypeOK, TypeMail, TypeCalls, CallInv, MessageInv, QuestionInv, Delivering, Spawning, Accepted, Spawn, Begin, Decide, Minted
<1>7. ASSUME NEW c \in Calls, NEW n \in Names, NEW x \in BOOLEAN, SpawnRefused(c, n, x)
      PROVE  QuestionInv'
  BY <1>7 DEF TypeOK, TypeMail, TypeCalls, CallInv, MessageInv, QuestionInv, Delivering, Spawning, Accepted, SpawnRefused, Begin, Decide
<1>8. ASSUME NEW c \in Calls, Exists(c)
      PROVE  QuestionInv'
  BY <1>8 DEF TypeOK, TypeMail, TypeCalls, CallInv, MessageInv, QuestionInv, Delivering, Spawning, Accepted, Exists, Goto, Decide
<1>9. ASSUME NEW c \in Calls, Allows(c)
      PROVE  QuestionInv'
  BY <1>9 DEF TypeOK, TypeMail, TypeCalls, CallInv, MessageInv, QuestionInv, Delivering, Spawning, Accepted, Allows, Goto, Decide
<1>10. ASSUME NEW c \in Calls, Lookup(c)
      PROVE  QuestionInv'
  BY <1>10 DEF TypeOK, TypeMail, TypeCalls, CallInv, MessageInv, QuestionInv, Delivering, Spawning, Accepted, Lookup, Goto, Decide
<1>11. ASSUME NEW c \in Calls, Enqueue(c)
      PROVE  QuestionInv'
  BY <1>11 DEF TypeOK, TypeMail, TypeCalls, CallInv, MessageInv, QuestionInv, Delivering, Spawning, Accepted, Enqueue, Goto, Decide
<1>12. ASSUME NEW c \in Calls, Record(c)
      PROVE  QuestionInv'
  BY <1>12 DEF TypeOK, TypeMail, TypeCalls, CallInv, MessageInv, QuestionInv, Delivering, Spawning, Accepted, Record, Goto, AfterRecord
<1>13. ASSUME NEW c \in Calls, AskAnswered(c)
      PROVE  QuestionInv'
  BY <1>13 DEF TypeOK, TypeMail, TypeCalls, CallInv, MessageInv, QuestionInv, Delivering, Spawning, Accepted, AskAnswered, Goto, TakeAnswer, Decide
<1>14. ASSUME NEW c \in Calls, AskTimesOut(c)
      PROVE  QuestionInv'
  BY <1>14 DEF TypeOK, TypeMail, TypeCalls, CallInv, MessageInv, QuestionInv, Delivering, Spawning, Accepted, AskTimesOut, Goto, TakeAnswer, Decide
<1>15. ASSUME NEW c \in Calls, Undo(c)
      PROVE  QuestionInv'
  BY <1>15 DEF TypeOK, TypeMail, TypeCalls, CallInv, MessageInv, QuestionInv, Delivering, Spawning, Accepted, Undo, Return
<1>16. ASSUME NEW c \in Calls, Receive(c)
      PROVE  QuestionInv'
  BY <1>16 DEF TypeOK, TypeMail, TypeCalls, CallInv, MessageInv, QuestionInv, Delivering, Spawning, Accepted, Receive, Return
<1>17. ASSUME NEW c \in Calls, RecvTimesOut(c)
      PROVE  QuestionInv'
  BY <1>17 DEF TypeOK, TypeMail, TypeCalls, CallInv, MessageInv, QuestionInv, Delivering, Spawning, Accepted, RecvTimesOut, Return
<1>18. ASSUME NEW c \in Calls, Claim(c)
      PROVE  QuestionInv'
  <2> DEFINE q == call[c].tag
  <2>1. q \in Calls /\ call[c].op = "reply" /\ c \notin pending /\ reply[c] = None
    BY <1>18 DEF TypeOK, TypeCalls, CallInv, QuestionInv, Claim, Goto, Decide
  <2>2. \A m \in Calls : m # c => outcome'[m] = outcome[m] /\ pc'[m] = pc[m]
    BY <1>18 DEF TypeOK, TypeCalls, Claim, Goto, Decide
  <2>3. UNCHANGED <<call, got, told>>
    BY <1>18 DEF Claim, Goto, Decide
  <2>4. CASE q \in pending /\ call[q].to = call[c].by
    <3>1. call[q].op = "ask" /\ q # c
      BY <2>1, <2>4 DEF QuestionInv
    <3>2. q \in seen
      BY <2>1, TeamAssumption DEF MessageInv
    <3>3. outcome[q] = "delivered" /\ reply[q] = None /\ got[q] = None
      BY <2>1, <2>4, <3>1, <3>2 DEF MessageInv, QuestionInv, Accepted
    <3>4. pending' = pending \ {q} /\ reply' = [reply EXCEPT ![q] = c]
      BY <1>18, <2>4, <3>3 DEF Claim, Goto, Decide
    <3>5. reply'[q] = c /\ \A m \in Calls : m # q => reply'[m] = reply[m]
      BY <2>1, <3>4 DEF TypeOK, TypeMail
    <3>6. c # None
      BY TeamAssumption
    <3>7. ASSUME NEW m \in Calls, m # q, m # c
          PROVE  /\ outcome'[m] = outcome[m] /\ pc'[m] = pc[m] /\ reply'[m] = reply[m]
                 /\ m \in pending' <=> m \in pending
      BY <2>2, <3>4, <3>5, <3>7
    <3>8. outcome'[q] = "delivered" /\ pc'[q] = pc[q] /\ q \notin pending'
      BY <2>1, <2>2, <3>1, <3>3, <3>4
    <3>9. c \notin pending' /\ reply'[c] = None
      BY <2>1, <3>1, <3>4, <3>5
    <3> QED  BY <2>1, <2>3, <3>1, <3>3, <3>5, <3>6, <3>7, <3>8, <3>9
             DEF QuestionInv, Accepted
  <2>5. CASE ~(q \in pending /\ call[q].to = call[c].by)
    <3>1. UNCHANGED <<pending, reply>>
      BY <1>18, <2>5 DEF Claim, Goto, Decide
    <3> QED  BY <2>1, <2>2, <2>3, <3>1 DEF QuestionInv
  <2> QED  BY <2>4, <2>5
<1>19. ASSUME NEW c \in Calls, Attach(c)
      PROVE  QuestionInv'
  BY <1>19 DEF TypeOK, TypeMail, TypeCalls, CallInv, MessageInv, QuestionInv, Delivering, Spawning, Accepted, Attach, Goto
<1>20. ASSUME NEW c \in Calls, MachineUp(c)
      PROVE  QuestionInv'
  BY <1>20 DEF TypeOK, TypeMail, TypeCalls, CallInv, MessageInv, QuestionInv, Delivering, Spawning, Accepted, MachineUp, Goto
<1>21. ASSUME NEW c \in Calls, BootDone(c)
      PROVE  QuestionInv'
  BY <1>21 DEF TypeOK, TypeMail, TypeCalls, CallInv, MessageInv, QuestionInv, Delivering, Spawning, Accepted, BootDone, Return
<1>22. ASSUME NEW c \in Calls, BootFails(c)
      PROVE  QuestionInv'
  BY <1>22 DEF TypeOK, TypeMail, TypeCalls, CallInv, MessageInv, QuestionInv, Delivering, Spawning, Accepted, BootFails, Goto
<1>23. ASSUME NEW c \in Calls, GiveBack(c)
      PROVE  QuestionInv'
  BY <1>23 DEF TypeOK, TypeMail, TypeCalls, CallInv, MessageInv, QuestionInv, Delivering, Spawning, Accepted, GiveBack, Goto, FreePlace
<1>24. ASSUME NEW c \in Calls, Withdraw(c)
      PROVE  QuestionInv'
  BY <1>24 DEF TypeOK, TypeMail, TypeCalls, CallInv, MessageInv, QuestionInv, Delivering, Spawning, Accepted, Withdraw, Goto, Detach, Decide
<1>25. ASSUME NEW w \in Workers, Expire(w)
      PROVE  QuestionInv'
  BY <1>25 DEF TypeOK, TypeMail, TypeCalls, CallInv, MessageInv, QuestionInv, Delivering, Spawning, Accepted, Expire, FreePlace
<1>26. ASSUME NEW w \in Workers, Leave(w)
      PROVE  QuestionInv'
  BY <1>26 DEF TypeOK, TypeMail, TypeCalls, CallInv, MessageInv, QuestionInv, Delivering, Spawning, Accepted, Leave, Detach
<1>27. ASSUME NEW w \in Workers, StopMachine(w)
      PROVE  QuestionInv'
  BY <1>27 DEF TypeOK, TypeMail, TypeCalls, CallInv, MessageInv, QuestionInv, Delivering, Spawning, Accepted, StopMachine
<1>28. CASE UNCHANGED vars
  BY <1>28 DEF QuestionInv, vars
<1> QED
  BY <1>1, <1>2, <1>3, <1>4, <1>5, <1>6, <1>7, <1>8, <1>9, <1>10,
     <1>11, <1>12, <1>13, <1>14, <1>15, <1>16, <1>17, <1>18, <1>19, <1>20,
     <1>21, <1>22, <1>23, <1>24, <1>25, <1>26, <1>27, <1>28
  DEF Next, Step, BeginCall, Lifetime

\* Answers and accepted replies are the same.
LEMMA AnswerInit == Init => AnswerInv
  BY DEF Init, AnswerInv, NoCall

\* Only Reply's claim fills a channel, for the agent the question went to, and an
\* accepted reply stays the answer.
LEMMA AnswerNext ==
  TypeOK /\ CallInv /\ MessageInv /\ QuestionInv /\ AnswerInv /\ [Next]_vars => AnswerInv'
<1> SUFFICES ASSUME TypeOK, CallInv, MessageInv, QuestionInv, AnswerInv, [Next]_vars
             PROVE  AnswerInv'
  OBVIOUS
<1> USE DEF topology, mail, asks, spawns, host, answers
<1>1. ASSUME NEW c \in Calls, NEW n \in Names, NEW to \in Names, BeginSend(c, n, to)
      PROVE  AnswerInv'
  BY <1>1, TeamAssumption DEF TypeOK, TypeMail, TypeCalls, CallInv, MessageInv, QuestionInv, AnswerInv, AnswerTo, Delivering, Spawning, Accepted, BeginSend, Begin
<1>2. ASSUME NEW c \in Calls, NEW n \in Names, NEW to \in Names, BeginAsk(c, n, to)
      PROVE  AnswerInv'
  BY <1>2, TeamAssumption DEF TypeOK, TypeMail, TypeCalls, CallInv, MessageInv, QuestionInv, AnswerInv, AnswerTo, Delivering, Spawning, Accepted, BeginAsk, Begin
<1>3. ASSUME NEW c \in Calls, NEW n \in Names, BeginRecv(c, n)
      PROVE  AnswerInv'
  BY <1>3, TeamAssumption DEF TypeOK, TypeMail, TypeCalls, CallInv, MessageInv, QuestionInv, AnswerInv, AnswerTo, Delivering, Spawning, Accepted, BeginRecv, Begin
<1>4. ASSUME NEW c \in Calls, NEW n \in Names, RecvNobody(c, n)
      PROVE  AnswerInv'
  BY <1>4, TeamAssumption DEF TypeOK, TypeMail, TypeCalls, CallInv, MessageInv, QuestionInv, AnswerInv, AnswerTo, Delivering, Spawning, Accepted, RecvNobody, Return, Callers
<1>5. ASSUME NEW c \in Calls, NEW n \in Names, NEW t \in seen \cup {None},
             BeginReply(c, n, t)
      PROVE  AnswerInv'
  BY <1>5, TeamAssumption DEF TypeOK, TypeMail, TypeCalls, CallInv, MessageInv, QuestionInv, AnswerInv, AnswerTo, Delivering, Spawning, Accepted, BeginReply, Begin, Decide
<1>6. ASSUME NEW c \in Calls, NEW n \in Names, Spawn(c, n)
      PROVE  AnswerInv'
  BY <1>6, TeamAssumption DEF TypeOK, TypeMail, TypeCalls, CallInv, MessageInv, QuestionInv, AnswerInv, AnswerTo, Delivering, Spawning, Accepted, Spawn, Begin, Decide, Minted
<1>7. ASSUME NEW c \in Calls, NEW n \in Names, NEW x \in BOOLEAN, SpawnRefused(c, n, x)
      PROVE  AnswerInv'
  BY <1>7, TeamAssumption DEF TypeOK, TypeMail, TypeCalls, CallInv, MessageInv, QuestionInv, AnswerInv, AnswerTo, Delivering, Spawning, Accepted, SpawnRefused, Begin, Decide
<1>8. ASSUME NEW c \in Calls, Exists(c)
      PROVE  AnswerInv'
  BY <1>8, TeamAssumption DEF TypeOK, TypeMail, TypeCalls, CallInv, MessageInv, QuestionInv, AnswerInv, AnswerTo, Delivering, Spawning, Accepted, Exists, Goto, Decide
<1>9. ASSUME NEW c \in Calls, Allows(c)
      PROVE  AnswerInv'
  <2>1. call[c].op \in {"send", "ask"} /\ outcome[c] = "none"
    BY <1>9 DEF CallInv, Delivering, Allows, Goto, Decide
  <2>2. \A m \in Calls : m # c => outcome'[m] = outcome[m] /\ pc'[m] = pc[m]
    BY <1>9 DEF TypeOK, TypeCalls, Allows, Goto, Decide
  <2>3. UNCHANGED <<call, got, told, reply>>
    BY <1>9 DEF Allows, Goto, Decide
  <2>4. \A q \in Calls : AnswerTo(q) # None => AnswerTo(q) \in Calls
    BY DEF TypeOK, TypeMail, TypeCalls, AnswerTo
  <2>5. \A q : AnswerTo(q)' = AnswerTo(q)
    BY <2>3 DEF AnswerTo
  <2> QED  BY <2>1, <2>2, <2>3, <2>4, <2>5 DEF AnswerInv
<1>10. ASSUME NEW c \in Calls, Lookup(c)
      PROVE  AnswerInv'
  BY <1>10, TeamAssumption DEF TypeOK, TypeMail, TypeCalls, CallInv, MessageInv, QuestionInv, AnswerInv, AnswerTo, Delivering, Spawning, Accepted, Lookup, Goto, Decide
<1>11. ASSUME NEW c \in Calls, Enqueue(c)
      PROVE  AnswerInv'
  BY <1>11, TeamAssumption DEF TypeOK, TypeMail, TypeCalls, CallInv, MessageInv, QuestionInv, AnswerInv, AnswerTo, Delivering, Spawning, Accepted, Enqueue, Goto, Decide
<1>12. ASSUME NEW c \in Calls, Record(c)
      PROVE  AnswerInv'
  BY <1>12, TeamAssumption DEF TypeOK, TypeMail, TypeCalls, CallInv, MessageInv, QuestionInv, AnswerInv, AnswerTo, Delivering, Spawning, Accepted, Record, Goto, AfterRecord
<1>13. ASSUME NEW c \in Calls, AskAnswered(c)
      PROVE  AnswerInv'
  BY <1>13, TeamAssumption DEF TypeOK, TypeMail, TypeCalls, CallInv, MessageInv, QuestionInv, AnswerInv, AnswerTo, Delivering, Spawning, Accepted, AskAnswered, Goto, TakeAnswer, Decide
<1>14. ASSUME NEW c \in Calls, AskTimesOut(c)
      PROVE  AnswerInv'
  <2>1. call[c].op = "ask" /\ outcome[c] = "delivered" /\ got[c] = None
        /\ (c \in pending <=> reply[c] = None)
    BY <1>14 DEF CallInv, QuestionInv, Accepted, AskTimesOut, Goto, TakeAnswer, Decide
  <2>2. \A m \in Calls : m # c => outcome'[m] = outcome[m] /\ pc'[m] = pc[m]
    BY <1>14 DEF TypeOK, TypeCalls, AskTimesOut, Goto, TakeAnswer, Decide
  <2>3. UNCHANGED <<call, told>>
    BY <1>14 DEF AskTimesOut, Goto, TakeAnswer, Decide
  <2>4. \A q \in Calls : AnswerTo(q) # None => AnswerTo(q) \in Calls
    BY DEF TypeOK, TypeMail, TypeCalls, AnswerTo
  <2>5. \A q \in Calls : AnswerTo(q)' = AnswerTo(q)
    <3>1. \A q \in Calls : q # c => AnswerTo(q)' = AnswerTo(q)
      BY <1>14 DEF TypeOK, TypeMail, TypeCalls, AnswerTo, AskTimesOut, Goto, TakeAnswer, Decide
    <3>2. CASE c \in pending
      BY <1>14, <2>1, <3>1, <3>2 DEF AnswerTo, AskTimesOut, Goto, TakeAnswer, Decide
    <3>3. CASE c \notin pending
      <4>1. got'[c] = reply[c] /\ reply'[c] = None
        BY <1>14, <2>1, <3>3 DEF TypeOK, TypeMail, TypeCalls, AskTimesOut, Goto, TakeAnswer, Decide
      <4> QED  BY <2>1, <3>1, <3>3, <4>1 DEF AnswerTo
    <3> QED  BY <3>2, <3>3
  <2> QED  BY <2>1, <2>2, <2>3, <2>4, <2>5 DEF TypeOK, TypeCalls, AnswerInv
<1>15. ASSUME NEW c \in Calls, Undo(c)
      PROVE  AnswerInv'
  BY <1>15, TeamAssumption DEF TypeOK, TypeMail, TypeCalls, CallInv, MessageInv, QuestionInv, AnswerInv, AnswerTo, Delivering, Spawning, Accepted, Undo, Return
<1>16. ASSUME NEW c \in Calls, Receive(c)
      PROVE  AnswerInv'
  BY <1>16, TeamAssumption DEF TypeOK, TypeMail, TypeCalls, CallInv, MessageInv, QuestionInv, AnswerInv, AnswerTo, Delivering, Spawning, Accepted, Receive, Return
<1>17. ASSUME NEW c \in Calls, RecvTimesOut(c)
      PROVE  AnswerInv'
  BY <1>17, TeamAssumption DEF TypeOK, TypeMail, TypeCalls, CallInv, MessageInv, QuestionInv, AnswerInv, AnswerTo, Delivering, Spawning, Accepted, RecvTimesOut, Return
<1>18. ASSUME NEW c \in Calls, Claim(c)
      PROVE  AnswerInv'
  BY <1>18, TeamAssumption DEF TypeOK, TypeMail, TypeCalls, CallInv, MessageInv, QuestionInv, AnswerInv, AnswerTo, Delivering, Spawning, Accepted, Claim, Goto, Decide
<1>19. ASSUME NEW c \in Calls, Attach(c)
      PROVE  AnswerInv'
  BY <1>19, TeamAssumption DEF TypeOK, TypeMail, TypeCalls, CallInv, MessageInv, QuestionInv, AnswerInv, AnswerTo, Delivering, Spawning, Accepted, Attach, Goto
<1>20. ASSUME NEW c \in Calls, MachineUp(c)
      PROVE  AnswerInv'
  BY <1>20, TeamAssumption DEF TypeOK, TypeMail, TypeCalls, CallInv, MessageInv, QuestionInv, AnswerInv, AnswerTo, Delivering, Spawning, Accepted, MachineUp, Goto
<1>21. ASSUME NEW c \in Calls, BootDone(c)
      PROVE  AnswerInv'
  BY <1>21, TeamAssumption DEF TypeOK, TypeMail, TypeCalls, CallInv, MessageInv, QuestionInv, AnswerInv, AnswerTo, Delivering, Spawning, Accepted, BootDone, Return
<1>22. ASSUME NEW c \in Calls, BootFails(c)
      PROVE  AnswerInv'
  BY <1>22, TeamAssumption DEF TypeOK, TypeMail, TypeCalls, CallInv, MessageInv, QuestionInv, AnswerInv, AnswerTo, Delivering, Spawning, Accepted, BootFails, Goto
<1>23. ASSUME NEW c \in Calls, GiveBack(c)
      PROVE  AnswerInv'
  BY <1>23, TeamAssumption DEF TypeOK, TypeMail, TypeCalls, CallInv, MessageInv, QuestionInv, AnswerInv, AnswerTo, Delivering, Spawning, Accepted, GiveBack, Goto, FreePlace
<1>24. ASSUME NEW c \in Calls, Withdraw(c)
      PROVE  AnswerInv'
  BY <1>24, TeamAssumption DEF TypeOK, TypeMail, TypeCalls, CallInv, MessageInv, QuestionInv, AnswerInv, AnswerTo, Delivering, Spawning, Accepted, Withdraw, Goto, Detach, Decide
<1>25. ASSUME NEW w \in Workers, Expire(w)
      PROVE  AnswerInv'
  BY <1>25, TeamAssumption DEF TypeOK, TypeMail, TypeCalls, CallInv, MessageInv, QuestionInv, AnswerInv, AnswerTo, Delivering, Spawning, Accepted, Expire, FreePlace
<1>26. ASSUME NEW w \in Workers, Leave(w)
      PROVE  AnswerInv'
  BY <1>26, TeamAssumption DEF TypeOK, TypeMail, TypeCalls, CallInv, MessageInv, QuestionInv, AnswerInv, AnswerTo, Delivering, Spawning, Accepted, Leave, Detach
<1>27. ASSUME NEW w \in Workers, StopMachine(w)
      PROVE  AnswerInv'
  BY <1>27, TeamAssumption DEF TypeOK, TypeMail, TypeCalls, CallInv, MessageInv, QuestionInv, AnswerInv, AnswerTo, Delivering, Spawning, Accepted, StopMachine
<1>28. CASE UNCHANGED vars
  BY <1>28 DEF AnswerInv, AnswerTo, vars
<1> QED
  BY <1>1, <1>2, <1>3, <1>4, <1>5, <1>6, <1>7, <1>8, <1>9, <1>10,
     <1>11, <1>12, <1>13, <1>14, <1>15, <1>16, <1>17, <1>18, <1>19, <1>20,
     <1>21, <1>22, <1>23, <1>24, <1>25, <1>26, <1>27, <1>28
  DEF Next, Step, BeginCall, Lifetime

\* The transcript says of a request what became of it.
LEMMA LogInit == Init => LogInv
  BY DEF Init, LogInv, Logged

\* b.record writes the outcome the request has then, and only an accepted question's
\* outcome moves on after that.
LEMMA LogNext ==
  TypeOK /\ CallInv /\ QuestionInv /\ LogInv /\ [Next]_vars => LogInv'
<1> SUFFICES ASSUME TypeOK, CallInv, QuestionInv, LogInv, [Next]_vars
             PROVE  LogInv'
  OBVIOUS
<1> USE DEF topology, mail, asks, spawns, host, answers
<1>1. ASSUME NEW c \in Calls, NEW n \in Names, NEW to \in Names, BeginSend(c, n, to)
      PROVE  LogInv'
  BY <1>1 DEF TypeOK, TypeCalls, CallInv, LogInv, Logged, Delivering, Spawning, Accepted, BeginSend, Begin
<1>2. ASSUME NEW c \in Calls, NEW n \in Names, NEW to \in Names, BeginAsk(c, n, to)
      PROVE  LogInv'
  BY <1>2 DEF TypeOK, TypeCalls, CallInv, LogInv, Logged, Delivering, Spawning, Accepted, BeginAsk, Begin
<1>3. ASSUME NEW c \in Calls, NEW n \in Names, BeginRecv(c, n)
      PROVE  LogInv'
  BY <1>3 DEF TypeOK, TypeCalls, CallInv, LogInv, Logged, Delivering, Spawning, Accepted, BeginRecv, Begin
<1>4. ASSUME NEW c \in Calls, NEW n \in Names, RecvNobody(c, n)
      PROVE  LogInv'
  BY <1>4 DEF TypeOK, TypeCalls, CallInv, LogInv, Logged, Delivering, Spawning, Accepted, RecvNobody, Return, Callers
<1>5. ASSUME NEW c \in Calls, NEW n \in Names, NEW t \in seen \cup {None},
             BeginReply(c, n, t)
      PROVE  LogInv'
  BY <1>5 DEF TypeOK, TypeCalls, CallInv, LogInv, Logged, Delivering, Spawning, Accepted, BeginReply, Begin, Decide
<1>6. ASSUME NEW c \in Calls, NEW n \in Names, Spawn(c, n)
      PROVE  LogInv'
  BY <1>6 DEF TypeOK, TypeCalls, CallInv, LogInv, Logged, Delivering, Spawning, Accepted, Spawn, Begin, Decide, Minted
<1>7. ASSUME NEW c \in Calls, NEW n \in Names, NEW x \in BOOLEAN, SpawnRefused(c, n, x)
      PROVE  LogInv'
  BY <1>7 DEF TypeOK, TypeCalls, CallInv, LogInv, Logged, Delivering, Spawning, Accepted, SpawnRefused, Begin, Decide
<1>8. ASSUME NEW c \in Calls, Exists(c)
      PROVE  LogInv'
  BY <1>8 DEF TypeOK, TypeCalls, CallInv, LogInv, Logged, Delivering, Spawning, Accepted, Exists, Goto, Decide
<1>9. ASSUME NEW c \in Calls, Allows(c)
      PROVE  LogInv'
  BY <1>9 DEF TypeOK, TypeCalls, CallInv, LogInv, Logged, Delivering, Spawning, Accepted, Allows, Goto, Decide
<1>10. ASSUME NEW c \in Calls, Lookup(c)
      PROVE  LogInv'
  BY <1>10 DEF TypeOK, TypeCalls, CallInv, LogInv, Logged, Delivering, Spawning, Accepted, Lookup, Goto, Decide
<1>11. ASSUME NEW c \in Calls, Enqueue(c)
      PROVE  LogInv'
  BY <1>11 DEF TypeOK, TypeCalls, CallInv, LogInv, Logged, Delivering, Spawning, Accepted, Enqueue, Goto, Decide
<1>12. ASSUME NEW c \in Calls, Record(c)
      PROVE  LogInv'
  BY <1>12 DEF TypeOK, TypeCalls, CallInv, LogInv, Logged, Delivering, Spawning, Accepted, Record, Goto, AfterRecord
<1>13. ASSUME NEW c \in Calls, AskAnswered(c)
      PROVE  LogInv'
  BY <1>13 DEF TypeOK, TypeCalls, CallInv, QuestionInv, LogInv, Logged, Accepted, AskAnswered, Goto, TakeAnswer, Decide
<1>14. ASSUME NEW c \in Calls, AskTimesOut(c)
      PROVE  LogInv'
  BY <1>14 DEF TypeOK, TypeCalls, CallInv, QuestionInv, LogInv, Logged, Accepted, AskTimesOut, Goto, TakeAnswer, Decide
<1>15. ASSUME NEW c \in Calls, Undo(c)
      PROVE  LogInv'
  BY <1>15 DEF TypeOK, TypeCalls, CallInv, LogInv, Logged, Delivering, Spawning, Accepted, Undo, Return
<1>16. ASSUME NEW c \in Calls, Receive(c)
      PROVE  LogInv'
  BY <1>16 DEF TypeOK, TypeCalls, CallInv, LogInv, Logged, Delivering, Spawning, Accepted, Receive, Return
<1>17. ASSUME NEW c \in Calls, RecvTimesOut(c)
      PROVE  LogInv'
  BY <1>17 DEF TypeOK, TypeCalls, CallInv, LogInv, Logged, Delivering, Spawning, Accepted, RecvTimesOut, Return
<1>18. ASSUME NEW c \in Calls, Claim(c)
      PROVE  LogInv'
  BY <1>18 DEF TypeOK, TypeCalls, CallInv, LogInv, Logged, Delivering, Spawning, Accepted, Claim, Goto, Decide
<1>19. ASSUME NEW c \in Calls, Attach(c)
      PROVE  LogInv'
  BY <1>19 DEF TypeOK, TypeCalls, CallInv, LogInv, Logged, Delivering, Spawning, Accepted, Attach, Goto
<1>20. ASSUME NEW c \in Calls, MachineUp(c)
      PROVE  LogInv'
  BY <1>20 DEF TypeOK, TypeCalls, CallInv, LogInv, Logged, Delivering, Spawning, Accepted, MachineUp, Goto
<1>21. ASSUME NEW c \in Calls, BootDone(c)
      PROVE  LogInv'
  BY <1>21 DEF TypeOK, TypeCalls, CallInv, LogInv, Logged, Delivering, Spawning, Accepted, BootDone, Return
<1>22. ASSUME NEW c \in Calls, BootFails(c)
      PROVE  LogInv'
  BY <1>22 DEF TypeOK, TypeCalls, CallInv, LogInv, Logged, Delivering, Spawning, Accepted, BootFails, Goto
<1>23. ASSUME NEW c \in Calls, GiveBack(c)
      PROVE  LogInv'
  BY <1>23 DEF TypeOK, TypeCalls, CallInv, LogInv, Logged, Delivering, Spawning, Accepted, GiveBack, Goto, FreePlace
<1>24. ASSUME NEW c \in Calls, Withdraw(c)
      PROVE  LogInv'
  BY <1>24 DEF TypeOK, TypeCalls, CallInv, LogInv, Logged, Delivering, Spawning, Accepted, Withdraw, Goto, Detach, Decide
<1>25. ASSUME NEW w \in Workers, Expire(w)
      PROVE  LogInv'
  BY <1>25 DEF TypeOK, TypeCalls, CallInv, LogInv, Logged, Delivering, Spawning, Accepted, Expire, FreePlace
<1>26. ASSUME NEW w \in Workers, Leave(w)
      PROVE  LogInv'
  <2>1. w \notin Calls
    BY TeamAssumption DEF Workers
  <2> QED  BY <1>26, <2>1 DEF LogInv, Logged, Leave, Detach
<1>27. ASSUME NEW w \in Workers, StopMachine(w)
      PROVE  LogInv'
  BY <1>27 DEF TypeOK, TypeCalls, CallInv, LogInv, Logged, Delivering, Spawning, Accepted, StopMachine
<1>28. CASE UNCHANGED vars
  BY <1>28 DEF LogInv, Logged, vars
<1> QED
  BY <1>1, <1>2, <1>3, <1>4, <1>5, <1>6, <1>7, <1>8, <1>9, <1>10,
     <1>11, <1>12, <1>13, <1>14, <1>15, <1>16, <1>17, <1>18, <1>19, <1>20,
     <1>21, <1>22, <1>23, <1>24, <1>25, <1>26, <1>27, <1>28
  DEF Next, Step, BeginCall, Lifetime

\* All of it together, in every state of the broker.
Inductive == TypeOK /\ SpawnInv /\ CallInv /\ MessageInv /\ QuestionInv /\ AnswerInv /\ LogInv

\* It holds in every state the broker reaches.
LEMMA InductiveHolds == Spec => []Inductive
<1>1. Init => Inductive
  BY TypeInit, CallInit, MessageInit, QuestionInit, AnswerInit, LogInit DEF Inductive
<1>2. Inductive /\ [Next]_vars => Inductive'
  BY TypeNext, CallNext, MessageNext, QuestionNext, AnswerNext, LogNext DEF Inductive
<1> QED  BY <1>1, <1>2, PTL DEF Spec

\* No transcript, of any team and any number of requests, holds two answers to
\* one question, or an answer and a timeout (Reply's claim, Ask's timeout).
THEOREM OneAnswer == Spec => []OneAnswerLogged
<1>1. Inductive => OneAnswerLogged
  <2> SUFFICES ASSUME Inductive, NEW r \in Calls, call[r].op = "reply",
                      Logged(r, "delivered")
               PROVE  LET q == call[r].tag IN
                      /\ call[r].by = call[q].to
                      /\ ~Logged(q, "timeout") /\ told[q] # "timeout"
                      /\ \A r2 \in Calls \ {r} :
                           call[r2].op = "reply" /\ call[r2].tag = q
                             => ~Logged(r2, "delivered")
    BY DEF OneAnswerLogged
  <2> DEFINE q == call[r].tag
  <2>1. \A c \in Calls : call[c].op = "reply" /\ Logged(c, "delivered") =>
          outcome[c] = "delivered"
    <3>1. "delivered" \in Outcomes
      BY DEF Outcomes
    <3> QED  BY <3>1 DEF Inductive, LogInv, AnswerInv, Accepted
  <2>2. outcome[r] = "delivered" /\ q # None /\ AnswerTo(q) = r /\ call[r].by = call[q].to
    BY <2>1 DEF Inductive, AnswerInv
  <2>3. q \in Calls /\ call[q].op = "ask"
    BY <2>2 DEF Inductive, TypeOK, TypeCalls, MessageInv
  <2>4. outcome[q] # "timeout"
    <3>1. AnswerTo(q) # None
      BY <2>2, TeamAssumption
    <3> QED  BY <2>3, <3>1 DEF Inductive, QuestionInv, AnswerTo
  <2>5. ~Logged(q, "timeout")
    <3>1. "timeout" \in Outcomes
      BY DEF Outcomes
    <3> QED  BY <2>3, <2>4, <3>1 DEF Inductive, LogInv
  <2>6. told[q] # "timeout"
    BY <2>3, <2>4 DEF Inductive, CallInv, QuestionInv
  <2>7. ASSUME NEW r2 \in Calls \ {r}, call[r2].op = "reply", call[r2].tag = q,
               Logged(r2, "delivered")
        PROVE  FALSE
    BY <2>1, <2>2, <2>7 DEF Inductive, AnswerInv
  <2> QED  BY <2>2, <2>5, <2>6, <2>7
<1> QED  BY <1>1, InductiveHolds, PTL

---------------------------------------------------------------------------

FateAsIs(S)   == \A q \in S : Fate(q)' = Fate(q)
AnswerAsIs(S) == \A q \in S : AskedAnswer(q)' = AskedAnswer(q)
ToldAsIs(S)   == \A q \in S : AskedTold(q)' = AskedTold(q)
GotAsIs(S)    == \A q \in S : AskedGot(q)' = AskedGot(q)
Stay == FateAsIs(Calls) /\ AnswerAsIs(Calls) /\ ToldAsIs(Calls) /\ GotAsIs(Calls)

\* The exchange looks the same when every question of it does.
LEMMA SameExchange == Stay => UNCHANGED Asked!xvars
<1> SUFFICES ASSUME Stay PROVE UNCHANGED Asked!xvars
  OBVIOUS
<1>1. [q \in Calls |-> Fate(q)]' = [q \in Calls |-> Fate(q)]
  BY DEF Stay, FateAsIs
<1>2. [q \in Calls |-> AskedAnswer(q)]' = [q \in Calls |-> AskedAnswer(q)]
  BY DEF Stay, AnswerAsIs
<1>3. [q \in Calls |-> AskedTold(q)]' = [q \in Calls |-> AskedTold(q)]
  BY DEF Stay, ToldAsIs
<1>4. [q \in Calls |-> AskedGot(q)]' = [q \in Calls |-> AskedGot(q)]
  BY DEF Stay, GotAsIs
<1> QED  BY <1>1, <1>2, <1>3, <1>4 DEF Asked!xvars

\* An agent asks (BeginAsk: the tag is entered into pending).
LEMMA AsAsk ==
  ASSUME NEW c \in Calls, Fate(c) = "unasked", AskedTold(c) = "nothing",
         Fate(c)' = "open", FateAsIs(Calls \ {c}), AnswerAsIs(Calls), ToldAsIs(Calls),
         GotAsIs(Calls)
  PROVE  Asked!XNext
<1>1. Asked!Ask(c)
  BY DEF Asked!Ask, FateAsIs, AnswerAsIs, ToldAsIs, GotAsIs
<1> QED  BY <1>1 DEF Asked!XNext

\* A question's time is up (Ask's timer, under the broker's mutex).
LEMMA AsExpire ==
  ASSUME NEW c \in Calls, Fate(c) = "open",
         Fate(c)' = "expired", FateAsIs(Calls \ {c}), AnswerAsIs(Calls), ToldAsIs(Calls),
         GotAsIs(Calls)
  PROVE  Asked!XNext
<1>1. Asked!Expire(c)
  BY DEF Asked!Expire, Asked!Settle, FateAsIs, AnswerAsIs, ToldAsIs, GotAsIs
<1> QED  BY <1>1 DEF Asked!XNext

\* A reply claims a question (Reply, under the broker's mutex).
LEMMA AsAnswer ==
  ASSUME NEW c \in Calls, NEW q \in Calls, Fate(q) = "open", Fate(c) = "unasked",
         AskedTold(c) = "nothing", \A p \in Calls : AskedAnswer(p) # c,
         Fate(q)' = "answered", FateAsIs(Calls \ {q}),
         AskedAnswer(q)' = c, AnswerAsIs(Calls \ {q}), ToldAsIs(Calls), GotAsIs(Calls)
  PROVE  Asked!XNext
<1>1. Asked!Answer(q, c)
  BY DEF Asked!Answer, Asked!Settle, Asked!Replies, FateAsIs, AnswerAsIs, ToldAsIs, GotAsIs
<1> QED  BY <1>1 DEF Asked!XNext

\* A question that reached nobody is over when its asker hears so.
LEMMA AsUndelivered ==
  ASSUME NEW c \in Calls, Fate(c) = "open", AskedTold(c) = "nothing",
         Fate(c)' = "undelivered", FateAsIs(Calls \ {c}), AnswerAsIs(Calls),
         AskedTold(c)' = "refused", ToldAsIs(Calls \ {c}), GotAsIs(Calls)
  PROVE  Asked!XNext
<1>1. Asked!Undelivered(c)
  BY DEF Asked!Undelivered, Asked!Settle, Asked!Tell, FateAsIs, AnswerAsIs, ToldAsIs,
         GotAsIs
<1> QED  BY <1>1 DEF Asked!XNext

\* An asker is told (Ask returns the reply it took from the channel, or the timeout).
LEMMA AsTellAsker ==
  ASSUME NEW c \in Calls, FateAsIs(Calls), AnswerAsIs(Calls), AskedTold(c) = "nothing",
         ToldAsIs(Calls \ {c}),
         \/ Fate(c) = "expired" /\ AskedTold(c)' = "timeout" /\ GotAsIs(Calls)
         \/ Fate(c) = "answered" /\ AskedTold(c)' = "ok" /\ AskedGot(c)' = AskedAnswer(c)
            /\ GotAsIs(Calls \ {c})
  PROVE  Asked!XNext
<1>1. Asked!TellAsker(c)
  <2>1. CASE Fate(c) = "expired" /\ AskedTold(c)' = "timeout" /\ GotAsIs(Calls)
    BY <2>1 DEF Asked!TellAsker, Asked!Tell, FateAsIs, AnswerAsIs, ToldAsIs, GotAsIs
  <2>2. CASE Fate(c) = "answered" /\ AskedTold(c)' = "ok" /\ AskedGot(c)' = AskedAnswer(c)
             /\ GotAsIs(Calls \ {c})
    BY <2>2 DEF Asked!TellAsker, Asked!Tell, FateAsIs, AnswerAsIs, ToldAsIs, GotAsIs
  <2> QED  BY <2>1, <2>2
<1> QED  BY <1>1 DEF Asked!XNext

\* A replier is told whether its reply was taken (the end of Reply).
LEMMA AsTellReplier ==
  ASSUME NEW c \in Calls, Fate(c) = "unasked", FateAsIs(Calls), AnswerAsIs(Calls),
         AskedTold(c) = "nothing", ToldAsIs(Calls \ {c}), GotAsIs(Calls),
         \/ AskedTold(c)' = "ok" /\ \E q \in Calls : AskedAnswer(q) = c
         \/ AskedTold(c)' = "refused" /\ \A q \in Calls : AskedAnswer(q) # c
  PROVE  Asked!XNext
<1>1. Asked!TellReplier(c)
  BY DEF Asked!TellReplier, Asked!Tell, Asked!Replies, FateAsIs, AnswerAsIs, ToldAsIs,
         GotAsIs
<1> QED  BY <1>1 DEF Asked!XNext

\* Every step of the broker is a step of the exchange, or none.
LEMMA AskedNext == Inductive /\ [Next]_vars => [Asked!XNext]_(Asked!xvars)
<1> DEFINE Steps == Asked!XNext \/ Stay
<1> SUFFICES ASSUME Inductive, [Next]_vars PROVE Steps
  BY SameExchange
<1> USE DEF topology, mail, asks, spawns, host, answers
<1> USE TeamAssumption
<1>A. TypeOK /\ TypeMail /\ TypeCalls /\ CallInv /\ MessageInv /\ QuestionInv /\ AnswerInv
  BY DEF Inductive, TypeOK
<1>1. ASSUME NEW c \in Calls, NEW n \in Names, NEW to \in Names, BeginSend(c, n, to)
      PROVE  Steps
  <2>1. Stay
    BY <1>A, <1>1 DEF TypeMail, TypeCalls, CallInv, QuestionInv, Delivering, Spawning,
         Accepted, Stay, FateAsIs, AnswerAsIs, ToldAsIs, GotAsIs,
         Fate, AnswerTo, AskedAnswer, AskedTold, AskedGot,
         BeginSend, Begin
  <2> QED  BY <2>1
<1>2. ASSUME NEW c \in Calls, NEW n \in Names, NEW to \in Names, BeginAsk(c, n, to)
      PROVE  Steps
  <2>1. call[c].op = "none" /\ told[c] = "nothing" /\ reply[c] = None /\ got[c] = None
    BY <1>A, <1>2 DEF TypeMail, TypeCalls, CallInv, QuestionInv, Delivering, Spawning, Accepted, BeginAsk, Begin
  <2>2. Fate(c) = "unasked" /\ AskedTold(c) = "nothing"
    BY <2>1 DEF Fate, AskedTold
  <2>3. Fate(c)' = "open"
    BY <1>A, <1>2 DEF TypeCalls, Fate, BeginAsk, Begin
  <2>4. FateAsIs(Calls \ {c}) /\ AnswerAsIs(Calls) /\ ToldAsIs(Calls) /\ GotAsIs(Calls)
    BY <1>A, <2>1, <1>2 DEF TypeMail, TypeCalls, FateAsIs, AnswerAsIs, ToldAsIs, GotAsIs, Fate, AnswerTo, AskedAnswer, AskedTold, AskedGot, BeginAsk, Begin
  <2> QED  BY <2>2, <2>3, <2>4, AsAsk
<1>3. ASSUME NEW c \in Calls, NEW n \in Names, BeginRecv(c, n)
      PROVE  Steps
  <2>1. Stay
    BY <1>A, <1>3 DEF TypeMail, TypeCalls, CallInv, QuestionInv, Delivering, Spawning,
         Accepted, Stay, FateAsIs, AnswerAsIs, ToldAsIs, GotAsIs,
         Fate, AnswerTo, AskedAnswer, AskedTold, AskedGot,
         BeginRecv, Begin
  <2> QED  BY <2>1
<1>4. ASSUME NEW c \in Calls, NEW n \in Names, RecvNobody(c, n)
      PROVE  Steps
  <2>1. Stay
    BY <1>A, <1>4 DEF TypeMail, TypeCalls, CallInv, QuestionInv, Delivering, Spawning,
         Accepted, Stay, FateAsIs, AnswerAsIs, ToldAsIs, GotAsIs,
         Fate, AnswerTo, AskedAnswer, AskedTold, AskedGot,
         RecvNobody, Return, Callers
  <2> QED  BY <2>1
<1>5. ASSUME NEW c \in Calls, NEW n \in Names, NEW t \in seen \cup {None},
             BeginReply(c, n, t)
      PROVE  Steps
  <2>1. Stay
    BY <1>A, <1>5 DEF TypeMail, TypeCalls, CallInv, QuestionInv, Delivering, Spawning,
         Accepted, Stay, FateAsIs, AnswerAsIs, ToldAsIs, GotAsIs,
         Fate, AnswerTo, AskedAnswer, AskedTold, AskedGot,
         BeginReply, Begin, Decide
  <2> QED  BY <2>1
<1>6. ASSUME NEW c \in Calls, NEW n \in Names, Spawn(c, n)
      PROVE  Steps
  <2>1. Stay
    BY <1>A, <1>6 DEF TypeMail, TypeCalls, CallInv, QuestionInv, Delivering, Spawning,
         Accepted, Stay, FateAsIs, AnswerAsIs, ToldAsIs, GotAsIs,
         Fate, AnswerTo, AskedAnswer, AskedTold, AskedGot,
         Spawn, Begin, Decide, Minted
  <2> QED  BY <2>1
<1>7. ASSUME NEW c \in Calls, NEW n \in Names, NEW x \in BOOLEAN, SpawnRefused(c, n, x)
      PROVE  Steps
  <2>1. Stay
    BY <1>A, <1>7 DEF TypeMail, TypeCalls, CallInv, QuestionInv, Delivering, Spawning,
         Accepted, Stay, FateAsIs, AnswerAsIs, ToldAsIs, GotAsIs,
         Fate, AnswerTo, AskedAnswer, AskedTold, AskedGot,
         SpawnRefused, Begin, Decide
  <2> QED  BY <2>1
<1>8. ASSUME NEW c \in Calls, Exists(c)
      PROVE  Steps
  <2>1. Stay
    BY <1>A, <1>8 DEF TypeMail, TypeCalls, CallInv, QuestionInv, Delivering, Spawning,
         Accepted, Stay, FateAsIs, AnswerAsIs, ToldAsIs, GotAsIs,
         Fate, AnswerTo, AskedAnswer, AskedTold, AskedGot,
         Exists, Goto, Decide
  <2> QED  BY <2>1
<1>9. ASSUME NEW c \in Calls, Allows(c)
      PROVE  Steps
  <2>1. Stay
    BY <1>A, <1>9 DEF TypeMail, TypeCalls, CallInv, QuestionInv, Delivering, Spawning,
         Accepted, Stay, FateAsIs, AnswerAsIs, ToldAsIs, GotAsIs,
         Fate, AnswerTo, AskedAnswer, AskedTold, AskedGot,
         Allows, Goto, Decide
  <2> QED  BY <2>1
<1>10. ASSUME NEW c \in Calls, Lookup(c)
      PROVE  Steps
  <2>1. Stay
    BY <1>A, <1>10 DEF TypeMail, TypeCalls, CallInv, QuestionInv, Delivering, Spawning,
         Accepted, Stay, FateAsIs, AnswerAsIs, ToldAsIs, GotAsIs,
         Fate, AnswerTo, AskedAnswer, AskedTold, AskedGot,
         Lookup, Goto, Decide
  <2> QED  BY <2>1
<1>11. ASSUME NEW c \in Calls, Enqueue(c)
      PROVE  Steps
  <2>1. Stay
    BY <1>A, <1>11 DEF TypeMail, TypeCalls, CallInv, QuestionInv, Delivering, Spawning,
         Accepted, Stay, FateAsIs, AnswerAsIs, ToldAsIs, GotAsIs,
         Fate, AnswerTo, AskedAnswer, AskedTold, AskedGot,
         Enqueue, Goto, Decide
  <2> QED  BY <2>1
<1>12. ASSUME NEW c \in Calls, Record(c)
      PROVE  Steps
  <2>1. call[c].op \in {"send", "ask", "reply", "spawn"} /\ told[c] = "nothing"
    BY <1>A, <1>12 DEF CallInv, Record, Goto, TypeMail, TypeCalls, CallInv, QuestionInv, Delivering, Spawning, Accepted
  <2>2. FateAsIs(Calls) /\ AnswerAsIs(Calls) /\ ToldAsIs(Calls \ {c})
        /\ GotAsIs(Calls \ {c})
    BY <1>A, <1>12 DEF TypeMail, TypeCalls, FateAsIs, AnswerAsIs, ToldAsIs, GotAsIs, Fate, AnswerTo, AskedAnswer, AskedTold, AskedGot, Record, Goto, AfterRecord
  <2>3. call[c].op # "reply" => Stay
    <3>1. call[c].op # "reply" => told'[c] = told[c] \/ call[c].op \in {"send", "spawn"}
      BY <1>A, <2>1, <1>12 DEF TypeCalls, Record, Goto, AfterRecord
    <3>2. call' = call /\ got' = got
      BY <1>12 DEF Record
    <3> QED  BY <2>1, <2>2, <3>1, <3>2 DEF Stay, FateAsIs, AnswerAsIs, ToldAsIs, GotAsIs, AskedTold, AskedGot
  <2>4. ASSUME call[c].op = "reply" PROVE Asked!XNext
    <3>1. Fate(c) = "unasked" /\ AskedTold(c) = "nothing"
      BY <2>1, <2>4 DEF Fate, AskedTold
    <3>2. GotAsIs(Calls)
      BY <2>2, <2>4, <1>12 DEF GotAsIs, AskedGot, Record
    <3>3. AskedTold(c)' = IF outcome[c] = "delivered" THEN "ok" ELSE "refused"
      BY <1>A, <2>4, <1>12 DEF TypeCalls, AskedTold, Record, Goto, AfterRecord
    <3>4. ASSUME outcome[c] = "delivered" PROVE \E q \in Calls : AskedAnswer(q) = c
      <4> DEFINE q == call[c].tag
      <4>1. q \in Calls /\ AnswerTo(q) = c
        BY <1>A, <2>4, <3>4 DEF TypeCalls, AnswerInv
      <4>2. call[q].op = "ask"
        BY <1>A, <2>4, <4>1, TeamAssumption DEF MessageInv
      <4> QED  BY <4>1, <4>2 DEF AskedAnswer
    <3>5. ASSUME outcome[c] # "delivered" PROVE \A q \in Calls : AskedAnswer(q) # c
      BY <1>A, <3>5, TeamAssumption DEF AnswerInv, AskedAnswer
    <3> QED  BY <2>2, <3>1, <3>2, <3>3, <3>4, <3>5, AsTellReplier
  <2> QED  BY <2>3, <2>4
<1>13. ASSUME NEW c \in Calls, AskAnswered(c)
      PROVE  Steps
  <2>1. Stay
    BY <1>A, <1>13 DEF TypeMail, TypeCalls, CallInv, QuestionInv, Delivering, Spawning,
         Accepted, Stay, FateAsIs, AnswerAsIs, ToldAsIs, GotAsIs,
         Fate, AnswerTo, AskedAnswer, AskedTold, AskedGot,
         AskAnswered, Goto, TakeAnswer, Decide
  <2> QED  BY <2>1
<1>14. ASSUME NEW c \in Calls, AskTimesOut(c)
      PROVE  Steps
  <2>0. c \in pending => call[c].op = "ask" /\ reply[c] = None /\ got[c] = None
    BY <1>A DEF CallInv, QuestionInv, Accepted
  <2>1. ASSUME c \in pending PROVE Asked!XNext
    <3>1. Fate(c) = "open"
      BY <2>0, <2>1 DEF Fate
    <3>2. Fate(c)' = "expired"
      BY <1>A, <2>0, <2>1, <1>14 DEF TypeMail, TypeCalls, Fate, AnswerTo, AskTimesOut, Goto, TakeAnswer, Decide
    <3>3. FateAsIs(Calls \ {c}) /\ AnswerAsIs(Calls) /\ ToldAsIs(Calls) /\ GotAsIs(Calls)
      BY <1>A, <2>1, <1>14 DEF TypeMail, TypeCalls, FateAsIs, AnswerAsIs, ToldAsIs, GotAsIs, Fate, AnswerTo, AskedAnswer, AskedTold, AskedGot, AskTimesOut, Goto, TakeAnswer, Decide
    <3> QED  BY <3>1, <3>2, <3>3, AsExpire
  <2>2. ASSUME c \notin pending PROVE Stay
    <3>1. reply[c] # None /\ got[c] = None /\ told[c] = "nothing"
      BY <1>A, <2>2, <1>14 DEF TypeMail, TypeCalls, CallInv, QuestionInv, Delivering, Spawning, Accepted, AskTimesOut, Goto
    <3> QED
      BY <1>A, <2>2, <3>1, <1>14 DEF TypeMail, TypeCalls, Stay, FateAsIs, AnswerAsIs, ToldAsIs, GotAsIs, Fate, AnswerTo, AskedAnswer, AskedTold, AskedGot, AskTimesOut, Goto, TakeAnswer, Decide
  <2> QED  BY <2>1, <2>2
<1>15. ASSUME NEW c \in Calls, Undo(c)
      PROVE  Steps
  <2>1. call[c].op = "ask" /\ told[c] = "nothing" /\ outcome[c] # "delivered"
        /\ outcome[c] # "none"
    BY <1>A, <1>15 DEF TypeMail, TypeCalls, CallInv, QuestionInv, Delivering, Spawning, Accepted, Undo
  <2>2. FateAsIs(Calls \ {c}) /\ AnswerAsIs(Calls) /\ ToldAsIs(Calls \ {c})
        /\ GotAsIs(Calls \ {c}) /\ AskedTold(c) = "nothing" /\ AskedGot(c) = None
    BY <1>A, <2>1, <1>15 DEF TypeMail, TypeCalls, FateAsIs, AnswerAsIs, ToldAsIs, GotAsIs, Fate, AnswerTo, AskedAnswer, AskedTold, AskedGot, Undo, Return
  <2>3. ASSUME outcome[c] = "answered" PROVE Asked!XNext
    <3>1. c \notin pending /\ reply[c] = None /\ got[c] # None
      BY <1>A, <2>1, <2>3 DEF QuestionInv
    <3>2. Fate(c) = "answered" /\ Fate(c)' = "answered"
      BY <2>1, <3>1, <1>15 DEF Fate, AnswerTo, Undo
    <3>3. AskedTold(c)' = "ok" /\ AskedGot(c)' = AskedAnswer(c)
      BY <1>A, <2>1, <2>3, <3>1, <1>15 DEF TypeCalls, Fate, AnswerTo, AskedAnswer, AskedTold, AskedGot, Undo, Return
    <3>4. FateAsIs(Calls)
      BY <2>2, <3>2 DEF FateAsIs
    <3> QED  BY <2>2, <3>2, <3>3, <3>4, AsTellAsker
  <2>4. ASSUME outcome[c] = "timeout" PROVE Asked!XNext
    <3>1. c \notin pending /\ reply[c] = None /\ got[c] = None
      BY <1>A, <2>1, <2>4 DEF QuestionInv
    <3>2. Fate(c) = "expired" /\ Fate(c)' = "expired"
      BY <2>1, <2>4, <3>1, <1>15 DEF Fate, AnswerTo, Undo
    <3>3. AskedTold(c)' = "timeout" /\ AskedGot(c)' = None
      BY <1>A, <2>1, <2>4, <3>1, <1>15 DEF TypeCalls, Fate, AnswerTo, AskedAnswer, AskedTold, AskedGot, Undo, Return
    <3>4. FateAsIs(Calls) /\ GotAsIs(Calls)
      BY <2>2, <3>2, <3>3 DEF FateAsIs, GotAsIs
    <3> QED  BY <2>2, <3>2, <3>3, <3>4, AsTellAsker
  <2>5. ASSUME outcome[c] \notin {"answered", "timeout"} PROVE Asked!XNext
    <3>1. c \in pending /\ reply[c] = None /\ got[c] = None
      BY <1>A, <2>1, <2>5, <1>15 DEF QuestionInv, Accepted, Undo
    <3>2. Fate(c) = "open"
      BY <2>1, <3>1 DEF Fate
    <3>3. Fate(c)' = "undelivered"
      BY <2>1, <2>5, <3>1, <1>15 DEF Fate, AnswerTo, Undo
    <3>4. AskedTold(c)' = "refused" /\ AskedGot(c)' = None
      BY <1>A, <2>1, <2>5, <3>1, <1>15 DEF TypeCalls, Fate, AnswerTo, AskedAnswer, AskedTold, AskedGot, Undo, Return
    <3>5. GotAsIs(Calls)
      BY <2>2, <3>4 DEF GotAsIs
    <3> QED  BY <2>2, <3>2, <3>3, <3>4, <3>5, AsUndelivered
  <2> QED  BY <2>3, <2>4, <2>5
<1>16. ASSUME NEW c \in Calls, Receive(c)
      PROVE  Steps
  <2>1. Stay
    BY <1>A, <1>16 DEF TypeMail, TypeCalls, CallInv, QuestionInv, Delivering, Spawning,
         Accepted, Stay, FateAsIs, AnswerAsIs, ToldAsIs, GotAsIs,
         Fate, AnswerTo, AskedAnswer, AskedTold, AskedGot,
         Receive, Return
  <2> QED  BY <2>1
<1>17. ASSUME NEW c \in Calls, RecvTimesOut(c)
      PROVE  Steps
  <2>1. Stay
    BY <1>A, <1>17 DEF TypeMail, TypeCalls, CallInv, QuestionInv, Delivering, Spawning,
         Accepted, Stay, FateAsIs, AnswerAsIs, ToldAsIs, GotAsIs,
         Fate, AnswerTo, AskedAnswer, AskedTold, AskedGot,
         RecvTimesOut, Return
  <2> QED  BY <2>1
<1>18. ASSUME NEW c \in Calls, Claim(c)
      PROVE  Steps
  <2>0. call[c].op = "reply" /\ told[c] = "nothing" /\ outcome[c] = "none"
        /\ call[c].tag \in Calls
    BY <1>A, <1>18 DEF TypeCalls, CallInv, Claim, Goto
  <2>1. PICK q \in Calls : call[c].tag = q
    BY <2>0
  <2>2. ASSUME q \in pending, call[q].to = call[c].by PROVE Asked!XNext
    <3>1. call[q].op = "ask" /\ reply[q] = None /\ got[q] = None
      BY <1>A, <2>0, <2>1, <2>2 DEF QuestionInv, Accepted
    <3>2. Fate(q) = "open" /\ Fate(c) = "unasked" /\ AskedTold(c) = "nothing"
      BY <2>0, <2>1, <2>2, <3>1 DEF Fate, AskedTold
    <3>3. \A p \in Calls : AskedAnswer(p) # c
      BY <1>A, <2>0, <2>1, TeamAssumption DEF AnswerInv, AskedAnswer
    <3>4. pending' = pending \ {q} /\ reply' = [reply EXCEPT ![q] = c]
      BY <2>0, <2>1, <2>2, <3>1, <1>18 DEF Claim
    <3>5. c # None
      BY TeamAssumption
    <3>6. Fate(q)' = "answered" /\ AskedAnswer(q)' = c
      BY <1>A, <2>0, <2>1, <3>1, <3>4, <3>5, <1>18 DEF TypeMail, Fate, AnswerTo, AskedAnswer, AskedTold, AskedGot, Claim
    <3>7. FateAsIs(Calls \ {q}) /\ AnswerAsIs(Calls \ {q})
      <4> SUFFICES ASSUME NEW p \in Calls \ {q}
                   PROVE  Fate(p)' = Fate(p) /\ AskedAnswer(p)' = AskedAnswer(p)
        BY DEF FateAsIs, AnswerAsIs
      <4>1. UNCHANGED <<call, got>> /\ reply'[p] = reply[p] /\ (p \in pending' <=> p \in pending)
        BY <1>A, <3>4, <1>18 DEF TypeMail, Claim
      <4>2. call[p].op = "ask" => outcome'[p] = outcome[p]
        BY <1>A, <2>0, <2>1, <1>18 DEF TypeCalls, Claim, Decide
      <4> QED  BY <4>1, <4>2 DEF Fate, AnswerTo, AskedAnswer, AskedTold, AskedGot
    <3>8. ToldAsIs(Calls) /\ GotAsIs(Calls)
      BY <1>18 DEF ToldAsIs, GotAsIs, AskedTold, AskedGot, Claim
    <3> QED  BY <2>0, <2>1, <3>2, <3>3, <3>6, <3>7, <3>8, AsAnswer
  <2>3. ASSUME ~(q \in pending /\ call[q].to = call[c].by) PROVE Stay
    BY <1>A, <2>0, <2>1, <2>3, <1>18 DEF TypeMail, TypeCalls, Stay, FateAsIs, AnswerAsIs, ToldAsIs, GotAsIs, Fate, AnswerTo, AskedAnswer, AskedTold, AskedGot, Claim, Goto, Decide
  <2> QED  BY <2>2, <2>3
<1>19. ASSUME NEW c \in Calls, Attach(c)
      PROVE  Steps
  <2>1. Stay
    BY <1>A, <1>19 DEF TypeMail, TypeCalls, CallInv, QuestionInv, Delivering, Spawning,
         Accepted, Stay, FateAsIs, AnswerAsIs, ToldAsIs, GotAsIs,
         Fate, AnswerTo, AskedAnswer, AskedTold, AskedGot,
         Attach, Goto
  <2> QED  BY <2>1
<1>20. ASSUME NEW c \in Calls, MachineUp(c)
      PROVE  Steps
  <2>1. Stay
    BY <1>A, <1>20 DEF TypeMail, TypeCalls, CallInv, QuestionInv, Delivering, Spawning,
         Accepted, Stay, FateAsIs, AnswerAsIs, ToldAsIs, GotAsIs,
         Fate, AnswerTo, AskedAnswer, AskedTold, AskedGot,
         MachineUp, Goto
  <2> QED  BY <2>1
<1>21. ASSUME NEW c \in Calls, BootDone(c)
      PROVE  Steps
  <2>1. Stay
    BY <1>A, <1>21 DEF TypeMail, TypeCalls, CallInv, QuestionInv, Delivering, Spawning,
         Accepted, Stay, FateAsIs, AnswerAsIs, ToldAsIs, GotAsIs,
         Fate, AnswerTo, AskedAnswer, AskedTold, AskedGot,
         BootDone, Return
  <2> QED  BY <2>1
<1>22. ASSUME NEW c \in Calls, BootFails(c)
      PROVE  Steps
  <2>1. Stay
    BY <1>A, <1>22 DEF TypeMail, TypeCalls, CallInv, QuestionInv, Delivering, Spawning,
         Accepted, Stay, FateAsIs, AnswerAsIs, ToldAsIs, GotAsIs,
         Fate, AnswerTo, AskedAnswer, AskedTold, AskedGot,
         BootFails, Goto
  <2> QED  BY <2>1
<1>23. ASSUME NEW c \in Calls, GiveBack(c)
      PROVE  Steps
  <2>1. Stay
    BY <1>A, <1>23 DEF TypeMail, TypeCalls, CallInv, QuestionInv, Delivering, Spawning,
         Accepted, Stay, FateAsIs, AnswerAsIs, ToldAsIs, GotAsIs,
         Fate, AnswerTo, AskedAnswer, AskedTold, AskedGot,
         GiveBack, Goto, FreePlace
  <2> QED  BY <2>1
<1>24. ASSUME NEW c \in Calls, Withdraw(c)
      PROVE  Steps
  <2>1. Stay
    BY <1>A, <1>24 DEF TypeMail, TypeCalls, CallInv, QuestionInv, Delivering, Spawning,
         Accepted, Stay, FateAsIs, AnswerAsIs, ToldAsIs, GotAsIs,
         Fate, AnswerTo, AskedAnswer, AskedTold, AskedGot,
         Withdraw, Goto, Detach, Decide
  <2> QED  BY <2>1
<1>25. ASSUME NEW w \in Workers, Expire(w)
      PROVE  Steps
  <2>1. Stay
    BY <1>A, <1>25 DEF TypeMail, TypeCalls, CallInv, QuestionInv, Delivering, Spawning,
         Accepted, Stay, FateAsIs, AnswerAsIs, ToldAsIs, GotAsIs,
         Fate, AnswerTo, AskedAnswer, AskedTold, AskedGot,
         Expire, FreePlace
  <2> QED  BY <2>1
<1>26. ASSUME NEW w \in Workers, Leave(w)
      PROVE  Steps
  <2>1. Stay
    BY <1>A, <1>26 DEF TypeMail, TypeCalls, CallInv, QuestionInv, Delivering, Spawning,
         Accepted, Stay, FateAsIs, AnswerAsIs, ToldAsIs, GotAsIs,
         Fate, AnswerTo, AskedAnswer, AskedTold, AskedGot,
         Leave, Detach
  <2> QED  BY <2>1
<1>27. ASSUME NEW w \in Workers, StopMachine(w)
      PROVE  Steps
  <2>1. Stay
    BY <1>A, <1>27 DEF TypeMail, TypeCalls, CallInv, QuestionInv, Delivering, Spawning,
         Accepted, Stay, FateAsIs, AnswerAsIs, ToldAsIs, GotAsIs,
         Fate, AnswerTo, AskedAnswer, AskedTold, AskedGot,
         StopMachine
  <2> QED  BY <2>1
<1>28. CASE UNCHANGED vars
  BY <1>28 DEF Stay, FateAsIs, AnswerAsIs, ToldAsIs, GotAsIs,
         Fate, AnswerTo, AskedAnswer, AskedTold, AskedGot, vars
<1> QED
  BY <1>1, <1>2, <1>3, <1>4, <1>5, <1>6, <1>7, <1>8, <1>9, <1>10,
     <1>11, <1>12, <1>13, <1>14, <1>15, <1>16, <1>17, <1>18, <1>19, <1>20,
     <1>21, <1>22, <1>23, <1>24, <1>25, <1>26, <1>27, <1>28
  DEF Next, Step, BeginCall, Lifetime

\* Every behaviour of the broker is one of the exchange it promises: a question is
\* settled once, and everyone concerned is told how.
THEOREM BrokerImplementsExchange == Spec => Implements
<1>1. Init => Asked!XInit
  BY DEF Init, Asked!XInit, Fate, AskedAnswer, AskedTold, AskedGot, NoCall
<1>2. Inductive /\ [Next]_vars => [Asked!XNext]_(Asked!xvars)
  BY AskedNext
<1> QED  BY <1>1, <1>2, InductiveHolds, PTL DEF Spec, Implements, Asked!Spec

--------------------------------------------------------------------------------
(* More than the question-and-answer protocol: where a message may go and how   *)
(* often it arrives, and that a worker's place, mailbox, name and edge are given *)
(* and taken back together.                                                     *)

\* What a request is never changes once it was made: only the seven ways a request
\* begins write call, and only Spawn mints a name.
LEMMA CallsStay ==
  ASSUME (\E c \in Calls : Step(c)) \/ (\E w \in Workers : Lifetime(w)) \/ UNCHANGED vars
  PROVE  call' = call /\ spawnSeq' = spawnSeq
<1> USE DEF topology, mail, asks, spawns, host, answers
<1>1. ASSUME NEW c \in Calls, Step(c) PROVE call' = call /\ spawnSeq' = spawnSeq
  <2>1. Exists(c) \/ Allows(c) \/ Lookup(c) \/ Enqueue(c) \/ Record(c)
        => call' = call /\ spawnSeq' = spawnSeq
    BY DEF Exists, Allows, Lookup, Enqueue, Record
  <2>2. AskAnswered(c) \/ AskTimesOut(c) \/ Undo(c) \/ Receive(c) \/ RecvTimesOut(c)
        => call' = call /\ spawnSeq' = spawnSeq
    BY DEF AskAnswered, AskTimesOut, Undo, Receive, RecvTimesOut
  <2>3. Claim(c) \/ Attach(c) \/ MachineUp(c) \/ BootDone(c) \/ BootFails(c)
        => call' = call /\ spawnSeq' = spawnSeq
    BY DEF Claim, Attach, MachineUp, BootDone, BootFails
  <2>4. GiveBack(c) \/ Withdraw(c) => call' = call /\ spawnSeq' = spawnSeq
    BY DEF GiveBack, Withdraw
  <2> QED  BY <1>1, <2>1, <2>2, <2>3, <2>4 DEF Step
<1>2. ASSUME NEW w \in Workers, Lifetime(w) PROVE call' = call /\ spawnSeq' = spawnSeq
  BY <1>2 DEF Lifetime, Expire, Leave, StopMachine
<1>3. CASE UNCHANGED vars
  BY <1>3 DEF vars
<1> QED  BY <1>1, <1>2, <1>3

\* A request that begins as anything but a granted spawn leaves the granted ones alone.
LEMMA GrantedStay ==
  ASSUME TypeOK, CallInv, NEW c \in Calls, pc[c] = "new", NEW rec,
         call' = [call EXCEPT ![c] = rec], rec.op # "spawn" \/ rec.to = None,
         NEW d \in Calls
  PROVE  (Granted(d)' <=> Granted(d)) /\ (Granted(d) => call'[d] = call[d] /\ d # c)
  BY DEF TypeOK, TypeCalls, CallInv, Granted

\* Nothing is minted before the first spawn.
LEMMA MintedInit == Init => MintedInv
  BY DEF Init, MintedInv, Granted, NoCall

\* A name is minted by one request, of an agent with a budget (Spawn, mintName).
LEMMA MintedNext ==
  TypeOK /\ CallInv /\ MintedInv /\ [Next]_vars => MintedInv'
<1> SUFFICES ASSUME TypeOK, CallInv, MintedInv, [Next]_vars
             PROVE  MintedInv'
  OBVIOUS
<1> USE DEF topology, mail, asks, spawns, host, answers
<1>a. ASSUME spawnSeq' = spawnSeq,
             \A d \in Calls : (Granted(d)' <=> Granted(d))
                              /\ (Granted(d) => call'[d] = call[d])
      PROVE  MintedInv'
  BY <1>a DEF MintedInv
<1>b. ASSUME NEW c \in Calls, pc[c] = "new", NEW rec,
             call' = [call EXCEPT ![c] = rec], rec.op # "spawn" \/ rec.to = None,
             spawnSeq' = spawnSeq
      PROVE  MintedInv'
  BY <1>a, <1>b, GrantedStay
<1>1. ASSUME NEW c \in Calls, NEW n \in Names, NEW to \in Names, BeginSend(c, n, to)
      PROVE  MintedInv'
  BY <1>1, <1>b DEF BeginSend, Begin
<1>2. ASSUME NEW c \in Calls, NEW n \in Names, NEW to \in Names, BeginAsk(c, n, to)
      PROVE  MintedInv'
  BY <1>2, <1>b DEF BeginAsk, Begin
<1>3. ASSUME NEW c \in Calls, NEW n \in Names, BeginRecv(c, n)
      PROVE  MintedInv'
  BY <1>3, <1>b DEF BeginRecv, Begin
<1>4. ASSUME NEW c \in Calls, NEW n \in Names, RecvNobody(c, n)
      PROVE  MintedInv'
  BY <1>4, <1>b DEF RecvNobody
<1>5. ASSUME NEW c \in Calls, NEW n \in Names, NEW t \in seen \cup {None},
             BeginReply(c, n, t)
      PROVE  MintedInv'
  BY <1>5, <1>b DEF BeginReply, Begin
<1>6. ASSUME NEW c \in Calls, NEW n \in Names, Spawn(c, n)
      PROVE  MintedInv'
  <2>1. spawnSeq \in Nat /\ spawnSeq' = spawnSeq + 1 /\ spawnSeq' # None
    BY <1>6, TeamAssumption DEF TypeOK, TypeTeam, Spawn, Minted, Names, Workers
  <2>2. call' = [call EXCEPT ![c] = [op |-> "spawn", by |-> n, to |-> spawnSeq', tag |-> None]]
    BY <1>6 DEF Spawn, Begin, Minted
  <2>3. n \in Spawners
    BY <1>6 DEF Spawn, SpawnRefusal
  <2>4. ~Granted(c) /\ Granted(c)' /\ call'[c].to = spawnSeq' /\ call'[c].by = n
    BY <1>6, <2>1, <2>2 DEF TypeOK, TypeCalls, CallInv, Granted, Spawn, Begin
  <2>5. \A d \in Calls \ {c} : call'[d] = call[d] /\ (Granted(d)' <=> Granted(d))
    BY <2>2 DEF TypeOK, TypeCalls, Granted
  <2>6. ASSUME NEW d \in Calls, Granted(d)'
        PROVE  call'[d].by \in Spawners /\ call'[d].to \in 1..spawnSeq'
    BY <2>1, <2>3, <2>4, <2>5, <2>6 DEF MintedInv
  <2>7. ASSUME NEW d \in Calls, NEW e \in Calls, Granted(d)', Granted(e)',
               call'[d].to = call'[e].to
        PROVE  d = e
    BY <2>1, <2>4, <2>5, <2>7 DEF MintedInv
  <2>8. ASSUME NEW w \in 1..spawnSeq' PROVE \E d \in Calls : Granted(d)' /\ call'[d].to = w
    <3>1. CASE w = spawnSeq'
      BY <2>4, <3>1
    <3>2. CASE w \in 1..spawnSeq
      BY <2>4, <2>5, <3>2 DEF MintedInv
    <3> QED  BY <2>1, <2>8, <3>1, <3>2
  <2> QED  BY <2>6, <2>7, <2>8 DEF MintedInv
<1>7. ASSUME NEW c \in Calls, NEW n \in Names, NEW x \in BOOLEAN, SpawnRefused(c, n, x)
      PROVE  MintedInv'
  BY <1>7, <1>b DEF SpawnRefused, Begin
<1>8. ASSUME (\E c \in Calls : Step(c)) \/ (\E w \in Workers : Lifetime(w)) \/ UNCHANGED vars
      PROVE  MintedInv'
  BY <1>8, <1>a, CallsStay DEF Granted
<1> QED  BY <1>1, <1>2, <1>3, <1>4, <1>5, <1>6, <1>7, <1>8 DEF Next, BeginCall

\* Every step leaves the requests that were made as they are, and what is on the
\* record stays there.
LEMMA CallsGrow ==
  TypeOK /\ [Next]_vars =>
    \/ call' = call
    \/ \E c \in Calls : pc[c] = "new" /\ \E rec : call' = [call EXCEPT ![c] = rec]
<1> SUFFICES ASSUME TypeOK, [Next]_vars
             PROVE  \/ call' = call
                    \/ \E c \in Calls : pc[c] = "new" /\ \E rec : call' = [call EXCEPT ![c] = rec]
  OBVIOUS
<1>1. ASSUME NEW c \in Calls, NEW n \in Names, BeginCall(c, n)
      PROVE  pc[c] = "new" /\ \E rec : call' = [call EXCEPT ![c] = rec]
  BY <1>1 DEF BeginCall, BeginSend, BeginAsk, BeginRecv, RecvNobody, BeginReply, Spawn,
       SpawnRefused, Begin
<1> QED  BY <1>1, CallsStay DEF Next

\* An edge a spawn made stays one a spawn made.
LEMMA SpawnedForStays ==
  ASSUME TypeOK, CallInv, [Next]_vars, NEW s, NEW w, SpawnedFor(s, w)
  PROVE  SpawnedFor(s, w)'
<1>1. PICK d \in Calls : call[d].op = "spawn" /\ call[d].by = s /\ call[d].to = w
  BY DEF SpawnedFor
<1>2. pc[d] # "new"
  BY <1>1 DEF CallInv
<1>3. call'[d] = call[d]
  BY <1>2, CallsGrow DEF TypeOK, TypeCalls
<1> QED  BY <1>1, <1>3 DEF SpawnedFor

\* The way a message could go stays a way it could have gone: the edge of a spawn is
\* judged by the request that made it, not by what is left of it.
LEMMA ReachStays ==
  ASSUME TypeOK, CallInv, [Next]_vars, NEW n, NEW m, Reach(n, m)
  PROVE  Reach(n, m)'
  BY SpawnedForStays DEF Reach

\* The flight recorder only ever grows.
LEMMA LoggedStays ==
  ASSUME [Next]_vars, NEW d, NEW x, Logged(d, x)
  PROVE  Logged(d, x)'
<1> USE DEF topology, mail, asks, spawns, host, answers
<1> SUFFICES transcript \subseteq transcript'
  BY DEF Logged
<1>1. ASSUME NEW c \in Calls, NEW n \in Names, BeginCall(c, n) PROVE transcript' = transcript
  BY <1>1 DEF BeginCall, BeginSend, BeginAsk, BeginRecv, RecvNobody, BeginReply, Spawn,
       SpawnRefused
<1>2. ASSUME NEW c \in Calls, Step(c) PROVE transcript \subseteq transcript'
  <2>1. Exists(c) \/ Allows(c) \/ Lookup(c) \/ Enqueue(c) => transcript' = transcript
    BY DEF Exists, Allows, Lookup, Enqueue
  <2>2. AskAnswered(c) \/ AskTimesOut(c) \/ Undo(c) \/ Receive(c) \/ RecvTimesOut(c)
        => transcript' = transcript
    BY DEF AskAnswered, AskTimesOut, Undo, Receive, RecvTimesOut
  <2>3. Claim(c) \/ Attach(c) \/ MachineUp(c) \/ BootDone(c) \/ BootFails(c)
        => transcript' = transcript
    BY DEF Claim, Attach, MachineUp, BootDone, BootFails
  <2>4. GiveBack(c) \/ Withdraw(c) => transcript' = transcript
    BY DEF GiveBack, Withdraw
  <2>5. Record(c) => transcript \subseteq transcript'
    BY DEF Record
  <2> QED  BY <1>2, <2>1, <2>2, <2>3, <2>4, <2>5 DEF Step
<1>3. ASSUME NEW w \in Workers, Lifetime(w) PROVE transcript \subseteq transcript'
  BY <1>3 DEF Lifetime, Expire, Leave, StopMachine
<1>4. CASE UNCHANGED vars
  BY <1>4 DEF vars
<1> QED  BY <1>1, <1>2, <1>3, <1>4 DEF Next

\* Nobody has been given anything yet.
LEMMA GivenInit == Init => GivenInv
<1> SUFFICES ASSUME Init PROVE GivenInv
  OBVIOUS
<1>1. \A c \in Calls : call[c] = NoCall /\ pc[c] = "new" /\ outcome[c] = "none" /\ got[c] = None
  BY Zenon DEF Init
<1>2. NoCall.op = "none"
  BY DEF NoCall
<1> QED  BY <1>1, <1>2, Zenon DEF GivenInv

\* What a request is given, and what is on the record of it, follow from what it is
\* and how far it came (the order of record and the wait in Ask).
LEMMA GivenNext ==
  TypeOK /\ CallInv /\ QuestionInv /\ GivenInv /\ [Next]_vars => GivenInv'
<1> SUFFICES ASSUME TypeOK, CallInv, QuestionInv, GivenInv, [Next]_vars
             PROVE  GivenInv'
  OBVIOUS
<1> USE DEF topology, mail, asks, spawns, host, answers
<1> USE TeamAssumption, LoggedStays
<1>0. \A d \in Calls : call[d].op = "ask" /\ pc[d] = "waiting" => outcome[d] = "delivered"
  BY DEF QuestionInv
<1>a. \A d \in Calls : pc[d] = "new" => call[d].op = "none" /\ outcome[d] = "none" /\ got[d] = None
  BY DEF CallInv
<1>1. ASSUME NEW c \in Calls, NEW n \in Names, NEW to \in Names, BeginSend(c, n, to)
      PROVE  GivenInv'
  BY <1>1 DEF TypeOK, TypeCalls, TypeMail, CallInv, GivenInv, Delivering, Spawning, BeginSend, Begin
<1>2. ASSUME NEW c \in Calls, NEW n \in Names, NEW to \in Names, BeginAsk(c, n, to)
      PROVE  GivenInv'
  BY <1>2 DEF TypeOK, TypeCalls, TypeMail, CallInv, GivenInv, Delivering, Spawning, BeginAsk, Begin
<1>3. ASSUME NEW c \in Calls, NEW n \in Names, BeginRecv(c, n)
      PROVE  GivenInv'
  BY <1>3 DEF TypeOK, TypeCalls, TypeMail, CallInv, GivenInv, Delivering, Spawning, BeginRecv, Begin
<1>4. ASSUME NEW c \in Calls, NEW n \in Names, RecvNobody(c, n)
      PROVE  GivenInv'
  BY <1>4 DEF TypeOK, TypeCalls, TypeMail, CallInv, GivenInv, Delivering, Spawning, RecvNobody, Return, Callers
<1>5. ASSUME NEW c \in Calls, NEW n \in Names, NEW t \in seen \cup {None},
             BeginReply(c, n, t)
      PROVE  GivenInv'
  BY <1>5 DEF TypeOK, TypeCalls, TypeMail, CallInv, GivenInv, Delivering, Spawning, BeginReply, Begin, Decide
<1>6. ASSUME NEW c \in Calls, NEW n \in Names, Spawn(c, n)
      PROVE  GivenInv'
  BY <1>6 DEF TypeOK, TypeCalls, TypeMail, CallInv, GivenInv, Delivering, Spawning, Spawn, Begin, Decide, Minted
<1>7. ASSUME NEW c \in Calls, NEW n \in Names, NEW x \in BOOLEAN, SpawnRefused(c, n, x)
      PROVE  GivenInv'
  BY <1>7 DEF TypeOK, TypeCalls, TypeMail, CallInv, GivenInv, Delivering, Spawning, SpawnRefused, Begin, Decide
<1>8. ASSUME NEW c \in Calls, Exists(c)
      PROVE  GivenInv'
  BY <1>8 DEF TypeOK, TypeCalls, TypeMail, CallInv, GivenInv, Delivering, Spawning, Exists, Goto, Decide
<1>9. ASSUME NEW c \in Calls, Allows(c)
      PROVE  GivenInv'
  BY <1>9 DEF TypeOK, TypeCalls, TypeMail, CallInv, GivenInv, Delivering, Spawning, Allows, Goto, Decide
<1>10. ASSUME NEW c \in Calls, Lookup(c)
      PROVE  GivenInv'
  BY <1>10 DEF TypeOK, TypeCalls, TypeMail, CallInv, GivenInv, Delivering, Spawning, Lookup, Goto, Decide
<1>11. ASSUME NEW c \in Calls, Enqueue(c)
      PROVE  GivenInv'
  BY <1>11 DEF TypeOK, TypeCalls, TypeMail, CallInv, GivenInv, Delivering, Spawning, Enqueue, Goto, Decide
<1>12. ASSUME NEW c \in Calls, Record(c)
      PROVE  GivenInv'
  <2>1. outcome[c] = "delivered" => Logged(c, "delivered")'
    BY <1>12 DEF Record, Logged
  <2> QED
    BY <1>12, <2>1 DEF TypeOK, TypeCalls, GivenInv, Record, Goto, AfterRecord
<1>13. ASSUME NEW c \in Calls, AskAnswered(c)
      PROVE  GivenInv'
  BY <1>13 DEF TypeOK, TypeCalls, TypeMail, CallInv, GivenInv, Delivering, Spawning, AskAnswered, Goto, TakeAnswer, Decide
<1>14. ASSUME NEW c \in Calls, AskTimesOut(c)
      PROVE  GivenInv'
  BY <1>14 DEF TypeOK, TypeCalls, TypeMail, CallInv, GivenInv, Delivering, Spawning, AskTimesOut, Goto, TakeAnswer, Decide
<1>15. ASSUME NEW c \in Calls, Undo(c)
      PROVE  GivenInv'
  BY <1>15 DEF TypeOK, TypeCalls, TypeMail, CallInv, GivenInv, Delivering, Spawning, Undo, Return
<1>16. ASSUME NEW c \in Calls, Receive(c)
      PROVE  GivenInv'
  BY <1>16 DEF TypeOK, TypeCalls, TypeMail, CallInv, GivenInv, Delivering, Spawning, Receive, Return
<1>17. ASSUME NEW c \in Calls, RecvTimesOut(c)
      PROVE  GivenInv'
  BY <1>17 DEF TypeOK, TypeCalls, TypeMail, CallInv, GivenInv, Delivering, Spawning, RecvTimesOut, Return
<1>18. ASSUME NEW c \in Calls, Claim(c)
      PROVE  GivenInv'
  BY <1>18 DEF TypeOK, TypeCalls, TypeMail, CallInv, GivenInv, Delivering, Spawning, Claim, Goto, Decide
<1>19. ASSUME NEW c \in Calls, Attach(c)
      PROVE  GivenInv'
  BY <1>19 DEF TypeOK, TypeCalls, TypeMail, CallInv, GivenInv, Delivering, Spawning, Attach, Goto
<1>20. ASSUME NEW c \in Calls, MachineUp(c)
      PROVE  GivenInv'
  BY <1>20 DEF TypeOK, TypeCalls, TypeMail, CallInv, GivenInv, Delivering, Spawning, MachineUp, Goto
<1>21. ASSUME NEW c \in Calls, BootDone(c)
      PROVE  GivenInv'
  BY <1>21 DEF TypeOK, TypeCalls, TypeMail, CallInv, GivenInv, Delivering, Spawning, BootDone, Return
<1>22. ASSUME NEW c \in Calls, BootFails(c)
      PROVE  GivenInv'
  BY <1>22 DEF TypeOK, TypeCalls, TypeMail, CallInv, GivenInv, Delivering, Spawning, BootFails, Goto
<1>23. ASSUME NEW c \in Calls, GiveBack(c)
      PROVE  GivenInv'
  BY <1>23 DEF TypeOK, TypeCalls, TypeMail, CallInv, GivenInv, Delivering, Spawning, GiveBack, Goto, FreePlace
<1>24. ASSUME NEW c \in Calls, Withdraw(c)
      PROVE  GivenInv'
  BY <1>24 DEF TypeOK, TypeCalls, TypeMail, CallInv, GivenInv, Delivering, Spawning, Withdraw, Goto, Detach, Decide
<1>25. ASSUME NEW w \in Workers, Expire(w)
      PROVE  GivenInv'
  BY <1>25 DEF TypeOK, TypeCalls, TypeMail, CallInv, GivenInv, Delivering, Spawning, Expire, FreePlace
<1>26. ASSUME NEW w \in Workers, Leave(w)
      PROVE  GivenInv'
  BY <1>26 DEF TypeOK, TypeCalls, TypeMail, CallInv, GivenInv, Delivering, Spawning, Leave, Detach
<1>27. ASSUME NEW w \in Workers, StopMachine(w)
      PROVE  GivenInv'
  BY <1>27 DEF TypeOK, TypeCalls, TypeMail, CallInv, GivenInv, Delivering, Spawning, StopMachine
<1>28. CASE UNCHANGED vars
  BY <1>28 DEF TypeOK, TypeCalls, TypeMail, CallInv, GivenInv, Delivering, Spawning, vars
<1> QED
  BY <1>1, <1>2, <1>3, <1>4, <1>5, <1>6, <1>7, <1>8, <1>9, <1>10,
     <1>11, <1>12, <1>13, <1>14, <1>15, <1>16, <1>17, <1>18, <1>19, <1>20,
     <1>21, <1>22, <1>23, <1>24, <1>25, <1>26, <1>27, <1>28
  DEF Next, Step, BeginCall, Lifetime

\* No message has passed a test yet.
LEMMA EdgeInit == Init => EdgeInv
  BY DEF Init, EdgeInv, NoCall

\* A message passes the test of the topology only along an edge (deliver, Allows).
LEMMA EdgeNext ==
  TypeOK /\ CallInv /\ QuestionInv /\ TopologyInv /\ EdgeInv /\ [Next]_vars => EdgeInv'
<1> SUFFICES ASSUME TypeOK, CallInv, QuestionInv, TopologyInv, EdgeInv, [Next]_vars
             PROVE  EdgeInv'
  OBVIOUS
<1> USE DEF topology, mail, asks, spawns, host, answers
<1> DEFINE Past(m) == pc[m] \in {"lookup", "enqueue"} \/ outcome[m] \in Accepted
<1>a. ASSUME NEW m \in Calls, Reach(call[m].by, call[m].to), call'[m] = call[m]
      PROVE  Reach(call[m].by, call[m].to)'
  <2>1. PICK n : n = call[m].by
    OBVIOUS
  <2>2. PICK k : k = call[m].to
    OBVIOUS
  <2>3. Reach(n, k)'
    BY <1>a, <2>1, <2>2, ReachStays
  <2>4. call'[m].by = n /\ call'[m].to = k
    BY <1>a, <2>1, <2>2
  <2> QED  BY <2>3, <2>4
<1>b. ASSUME \A m \in Calls : call'[m].op \in {"send", "ask"} /\ Past(m)' =>
               call'[m] = call[m] /\ Past(m)
      PROVE  EdgeInv'
  BY <1>a, <1>b DEF EdgeInv
<1>c. \A d \in Calls : call[d].op = "ask" /\ pc[d] = "waiting" => outcome[d] = "delivered"
  BY DEF QuestionInv
<1> HIDE DEF Past
<1>1. ASSUME NEW c \in Calls, NEW n \in Names, NEW to \in Names, BeginSend(c, n, to)
      PROVE  EdgeInv'
  BY <1>1, <1>b, <1>c DEF TypeOK, TypeCalls, CallInv, Past, Accepted, Delivering, Spawning, BeginSend, Begin
<1>2. ASSUME NEW c \in Calls, NEW n \in Names, NEW to \in Names, BeginAsk(c, n, to)
      PROVE  EdgeInv'
  BY <1>2, <1>b, <1>c DEF TypeOK, TypeCalls, CallInv, Past, Accepted, Delivering, Spawning, BeginAsk, Begin
<1>3. ASSUME NEW c \in Calls, NEW n \in Names, BeginRecv(c, n)
      PROVE  EdgeInv'
  BY <1>3, <1>b, <1>c DEF TypeOK, TypeCalls, CallInv, Past, Accepted, Delivering, Spawning, BeginRecv, Begin
<1>4. ASSUME NEW c \in Calls, NEW n \in Names, RecvNobody(c, n)
      PROVE  EdgeInv'
  BY <1>4, <1>b, <1>c DEF TypeOK, TypeCalls, CallInv, Past, Accepted, Delivering, Spawning, RecvNobody, Return, Callers
<1>5. ASSUME NEW c \in Calls, NEW n \in Names, NEW t \in seen \cup {None},
             BeginReply(c, n, t)
      PROVE  EdgeInv'
  BY <1>5, <1>b, <1>c DEF TypeOK, TypeCalls, CallInv, Past, Accepted, Delivering, Spawning, BeginReply, Begin, Decide
<1>6. ASSUME NEW c \in Calls, NEW n \in Names, Spawn(c, n)
      PROVE  EdgeInv'
  BY <1>6, <1>b, <1>c DEF TypeOK, TypeCalls, CallInv, Past, Accepted, Delivering, Spawning, Spawn, Begin, Decide, Minted
<1>7. ASSUME NEW c \in Calls, NEW n \in Names, NEW x \in BOOLEAN, SpawnRefused(c, n, x)
      PROVE  EdgeInv'
  BY <1>7, <1>b, <1>c DEF TypeOK, TypeCalls, CallInv, Past, Accepted, Delivering, Spawning, SpawnRefused, Begin, Decide
<1>8. ASSUME NEW c \in Calls, Exists(c)
      PROVE  EdgeInv'
  BY <1>8, <1>b, <1>c DEF TypeOK, TypeCalls, CallInv, Past, Accepted, Delivering, Spawning, Exists, Goto, Decide
<1>9. ASSUME NEW c \in Calls, Allows(c)
      PROVE  EdgeInv'
  <2>1. CASE <<call[c].by, call[c].to>> \in allowed
    <3>0. call' = call
      BY <1>9 DEF Allows
    <3>1. Reach(call[c].by, call[c].to)
      BY <2>1 DEF TopologyInv, FixedTopology, Reach
    <3>2. Reach(call[c].by, call[c].to)'
      BY <3>0, <3>1, <1>a
    <3>3. \A m \in Calls \ {c} : call'[m] = call[m] /\ (Past(m)' => Past(m))
      BY <1>9 DEF TypeOK, TypeCalls, Past, Allows, Goto, Decide
    <3> QED  BY <1>a, <3>0, <3>2, <3>3 DEF EdgeInv, Past
  <2>2. CASE <<call[c].by, call[c].to>> \notin allowed
    BY <1>9, <2>2, <1>b DEF TypeOK, TypeCalls, Past, Accepted, Allows, Goto, Decide
  <2> QED  BY <2>1, <2>2
<1>10. ASSUME NEW c \in Calls, Lookup(c)
      PROVE  EdgeInv'
  BY <1>10, <1>b, <1>c DEF TypeOK, TypeCalls, CallInv, Past, Accepted, Delivering, Spawning, Lookup, Goto, Decide
<1>11. ASSUME NEW c \in Calls, Enqueue(c)
      PROVE  EdgeInv'
  BY <1>11, <1>b, <1>c DEF TypeOK, TypeCalls, CallInv, Past, Accepted, Delivering, Spawning, Enqueue, Goto, Decide
<1>12. ASSUME NEW c \in Calls, Record(c)
      PROVE  EdgeInv'
  BY <1>12, <1>b, <1>c DEF TypeOK, TypeCalls, CallInv, Past, Accepted, Delivering, Spawning, Record, Goto, AfterRecord
<1>13. ASSUME NEW c \in Calls, AskAnswered(c)
      PROVE  EdgeInv'
  BY <1>13, <1>b, <1>c DEF TypeOK, TypeCalls, CallInv, Past, Accepted, Delivering, Spawning, AskAnswered, Goto, TakeAnswer, Decide
<1>14. ASSUME NEW c \in Calls, AskTimesOut(c)
      PROVE  EdgeInv'
  BY <1>14, <1>b, <1>c DEF TypeOK, TypeCalls, CallInv, Past, Accepted, Delivering, Spawning, AskTimesOut, Goto, TakeAnswer, Decide
<1>15. ASSUME NEW c \in Calls, Undo(c)
      PROVE  EdgeInv'
  BY <1>15, <1>b, <1>c DEF TypeOK, TypeCalls, CallInv, Past, Accepted, Delivering, Spawning, Undo, Return
<1>16. ASSUME NEW c \in Calls, Receive(c)
      PROVE  EdgeInv'
  BY <1>16, <1>b, <1>c DEF TypeOK, TypeCalls, CallInv, Past, Accepted, Delivering, Spawning, Receive, Return
<1>17. ASSUME NEW c \in Calls, RecvTimesOut(c)
      PROVE  EdgeInv'
  BY <1>17, <1>b, <1>c DEF TypeOK, TypeCalls, CallInv, Past, Accepted, Delivering, Spawning, RecvTimesOut, Return
<1>18. ASSUME NEW c \in Calls, Claim(c)
      PROVE  EdgeInv'
  BY <1>18, <1>b, <1>c DEF TypeOK, TypeCalls, CallInv, Past, Accepted, Delivering, Spawning, Claim, Goto, Decide
<1>19. ASSUME NEW c \in Calls, Attach(c)
      PROVE  EdgeInv'
  BY <1>19, <1>b, <1>c DEF TypeOK, TypeCalls, CallInv, Past, Accepted, Delivering, Spawning, Attach, Goto
<1>20. ASSUME NEW c \in Calls, MachineUp(c)
      PROVE  EdgeInv'
  BY <1>20, <1>b, <1>c DEF TypeOK, TypeCalls, CallInv, Past, Accepted, Delivering, Spawning, MachineUp, Goto
<1>21. ASSUME NEW c \in Calls, BootDone(c)
      PROVE  EdgeInv'
  BY <1>21, <1>b, <1>c DEF TypeOK, TypeCalls, CallInv, Past, Accepted, Delivering, Spawning, BootDone, Return
<1>22. ASSUME NEW c \in Calls, BootFails(c)
      PROVE  EdgeInv'
  BY <1>22, <1>b, <1>c DEF TypeOK, TypeCalls, CallInv, Past, Accepted, Delivering, Spawning, BootFails, Goto
<1>23. ASSUME NEW c \in Calls, GiveBack(c)
      PROVE  EdgeInv'
  BY <1>23, <1>b, <1>c DEF TypeOK, TypeCalls, CallInv, Past, Accepted, Delivering, Spawning, GiveBack, Goto, FreePlace
<1>24. ASSUME NEW c \in Calls, Withdraw(c)
      PROVE  EdgeInv'
  BY <1>24, <1>b, <1>c DEF TypeOK, TypeCalls, CallInv, Past, Accepted, Delivering, Spawning, Withdraw, Goto, Detach, Decide
<1>25. ASSUME NEW w \in Workers, Expire(w)
      PROVE  EdgeInv'
  BY <1>25, <1>b, <1>c DEF TypeOK, TypeCalls, CallInv, Past, Accepted, Delivering, Spawning, Expire, FreePlace
<1>26. ASSUME NEW w \in Workers, Leave(w)
      PROVE  EdgeInv'
  BY <1>26, <1>b, <1>c DEF TypeOK, TypeCalls, CallInv, Past, Accepted, Delivering, Spawning, Leave, Detach
<1>27. ASSUME NEW w \in Workers, StopMachine(w)
      PROVE  EdgeInv'
  BY <1>27, <1>b, <1>c DEF TypeOK, TypeCalls, CallInv, Past, Accepted, Delivering, Spawning, StopMachine
<1>28. CASE UNCHANGED vars
  BY <1>28, <1>b, <1>c DEF TypeOK, TypeCalls, CallInv, Past, Accepted, Delivering, Spawning, vars
<1> QED
  BY <1>1, <1>2, <1>3, <1>4, <1>5, <1>6, <1>7, <1>8, <1>9, <1>10,
     <1>11, <1>12, <1>13, <1>14, <1>15, <1>16, <1>17, <1>18, <1>19, <1>20,
     <1>21, <1>22, <1>23, <1>24, <1>25, <1>26, <1>27, <1>28
  DEF Next, Step, BeginCall, Lifetime

\* What ties one granted spawn to its worker's place, name, mailbox and lifetime.
Tied(c) ==
  /\ call[c].to \in boxes <=> HasPlace(c)
  /\ call[c].to \in spawnedBy[call[c].by] <=> HasPlace(c)
  /\ call[c].to \in agents <=> HasName(c)
  /\ outcome[c] \in {"delivered", "despawned"}
  /\ outcome[c] = "despawned" => pc[c] \in {"record", "done"}
  /\ term[call[c].to] # "none" <=> pc[c] = "done" /\ outcome[c] = "delivered"

\* Before the first spawn there is no worker.
LEMMA WorkerInit == Init => WorkerInv
  BY SMTT(30), TeamAssumption DEF Init, WorkerInv, Granted, NoCall, Workers, Names

\* A granted spawn is that of an agent and names a worker.
LEMMA GrantedIs ==
  ASSUME TypeOK, MintedInv, NEW c \in Calls, Granted(c)
  PROVE  call[c].to \in Workers /\ call[c].to <= spawnSeq /\ call[c].by \in Agents
         /\ call[c].to \notin Agents /\ call[c].to # None
  BY TeamAssumption DEF TypeOK, TypeTeam, TypeCalls, MintedInv, Granted, Workers, Names

\* A step of a request that is no granted spawn leaves every worker tied to its own.
LEMMA WorkersStay ==
  ASSUME TypeOK, MintedInv, WorkerInv,
         UNCHANGED <<agents, boxes, spawnedBy, term, spawnSeq>>,
         \A d \in Calls : call'[d].op = "spawn" =>
           \/ call'[d] = call[d] /\ pc'[d] = pc[d] /\ outcome'[d] = outcome[d]
           \/ call'[d].to = None /\ outcome'[d] \notin {"delivered", "despawned"}
  PROVE  WorkerInv'
<1>1. ASSUME NEW d \in Calls, Granted(d)' PROVE Tied(d)'
  <2>1. Granted(d) /\ call'[d] = call[d] /\ pc'[d] = pc[d] /\ outcome'[d] = outcome[d]
    BY <1>1 DEF Granted
  <2>2. Tied(d)
    BY <2>1 DEF WorkerInv, Tied
  <2> QED  BY <2>1, <2>2 DEF Tied, HasPlace, HasName
<1>2. ASSUME NEW d \in Calls, call'[d].op = "spawn", call'[d].to = None
      PROVE  outcome'[d] \notin {"delivered", "despawned"}
  BY <1>2 DEF WorkerInv
<1>3. \A w \in Workers : w > spawnSeq' => w \notin agents' /\ w \notin boxes' /\ term'[w] = "none"
  BY DEF WorkerInv
<1>4. \A s \in Agents : spawnedBy'[s] # {} =>
        s \in Spawners /\ IsFiniteSet(spawnedBy'[s]) /\ Cardinality(spawnedBy'[s]) <= MaxLive[s]
  BY DEF WorkerInv
<1> QED  BY <1>1, <1>2, <1>3, <1>4 DEF WorkerInv, Tied

\* A step in the life of one worker leaves the others tied to theirs, and gives nobody a
\* place: names are never shared (mintName).
LEMMA OneWorker ==
  ASSUME TypeOK, MintedInv, WorkerInv, NEW c \in Calls, Granted(c),
         call' = call, spawnSeq' = spawnSeq,
         \A d \in Calls : d # c => pc'[d] = pc[d] /\ outcome'[d] = outcome[d],
         \A w \in Workers : w # call[c].to =>
           (w \in agents' <=> w \in agents) /\ (w \in boxes' <=> w \in boxes)
           /\ term'[w] = term[w],
         \A s \in Agents : spawnedBy'[s] \subseteq spawnedBy[s]
           /\ spawnedBy[s] \ {call[c].to} \subseteq spawnedBy'[s],
         Tied(c)'
  PROVE  WorkerInv'
<1>1. ASSUME NEW d \in Calls, Granted(d)' PROVE Tied(d)'
  <2>1. CASE d = c
    BY <2>1
  <2>2. CASE d # c
    <3>1. Granted(d) /\ Tied(d)
      BY <1>1 DEF Granted, WorkerInv, Tied
    <3>2. call[d].to # call[c].to
      BY <2>2, <3>1 DEF MintedInv
    <3>3. call[d].to \in Workers /\ call[d].by \in Agents
      BY <3>1, GrantedIs
    <3>4. /\ call[d].to \in agents' <=> call[d].to \in agents
          /\ call[d].to \in boxes' <=> call[d].to \in boxes
          /\ term'[call[d].to] = term[call[d].to]
          /\ call[d].to \in spawnedBy'[call[d].by] <=> call[d].to \in spawnedBy[call[d].by]
      BY <3>2, <3>3
    <3> QED  BY <2>2, <3>1, <3>4 DEF Tied, HasPlace, HasName
  <2> QED  BY <2>1, <2>2
<1>2. ASSUME NEW d \in Calls, call'[d].op = "spawn", call'[d].to = None
      PROVE  outcome'[d] \notin {"delivered", "despawned"}
  BY <1>2 DEF WorkerInv, Granted
<1>3. ASSUME NEW w \in Workers, w > spawnSeq'
      PROVE  w \notin agents' /\ w \notin boxes' /\ term'[w] = "none"
  <2>1. w # call[c].to
    BY <1>3, GrantedIs DEF TypeOK, TypeTeam, Workers
  <2> QED  BY <1>3, <2>1 DEF WorkerInv
<1>4. ASSUME NEW s \in Agents, spawnedBy'[s] # {}
      PROVE  s \in Spawners /\ IsFiniteSet(spawnedBy'[s]) /\ Cardinality(spawnedBy'[s]) <= MaxLive[s]
  <2>1. spawnedBy'[s] \subseteq spawnedBy[s] /\ spawnedBy[s] # {}
    BY <1>4
  <2>2. s \in Spawners /\ IsFiniteSet(spawnedBy[s]) /\ Cardinality(spawnedBy[s]) <= MaxLive[s]
    BY <2>1 DEF WorkerInv
  <2>3. IsFiniteSet(spawnedBy'[s]) /\ Cardinality(spawnedBy'[s]) <= Cardinality(spawnedBy[s])
        /\ Cardinality(spawnedBy'[s]) \in Nat /\ Cardinality(spawnedBy[s]) \in Nat
    BY <2>1, <2>2, FS_Subset, FS_CardinalityType
  <2>4. MaxLive[s] \in Nat
    BY <2>2, TeamAssumption
  <2> QED  BY <2>2, <2>3, <2>4
<1> QED  BY <1>1, <1>2, <1>3, <1>4 DEF WorkerInv, Tied

\* A worker's place, mailbox and name are given and taken back at the steps of its
\* request and of its lifetime that say so, and at no other (Spawn, Despawn).
LEMMA WorkerNext ==
  TypeOK /\ SpawnInv /\ CallInv /\ MintedInv /\ WorkerInv /\ [Next]_vars => WorkerInv'
<1> SUFFICES ASSUME TypeOK, SpawnInv, CallInv, MintedInv, WorkerInv, [Next]_vars
             PROVE  WorkerInv'
  OBVIOUS
<1> USE DEF topology, mail, asks, spawns, host, answers
<1>a. ASSUME UNCHANGED <<agents, boxes, spawnedBy, term, spawnSeq>>,
             \A d \in Calls : call'[d].op = "spawn" =>
               \/ call'[d] = call[d] /\ pc'[d] = pc[d] /\ outcome'[d] = outcome[d]
               \/ call'[d].to = None /\ outcome'[d] \notin {"delivered", "despawned"}
      PROVE  WorkerInv'
  BY <1>a, WorkersStay
<1>b. ASSUME NEW c \in Calls, pc[c] \in Spawning
      PROVE  Granted(c) /\ Tied(c) /\ outcome[c] = "delivered" /\ call[c].to \in Workers
             /\ call[c].by \in Agents /\ call[c].to \notin Agents
             /\ spawnedBy \in [Agents -> SUBSET Workers]
  <2>1. Granted(c)
    BY <1>b, TeamAssumption DEF CallInv, SpawnInv, Granted, Spawning, Names
  <2> QED  BY <1>b, <2>1, GrantedIs DEF CallInv, Tied, WorkerInv, TypeOK, TypeTeam
<1>c. ASSUME NEW w \in Workers, term[w] # "none"
      PROVE  \E c \in Calls : Granted(c) /\ Tied(c) /\ call[c].to = w /\ pc[c] = "done"
               /\ outcome[c] = "delivered" /\ call[c].by \in Agents
  <2>1. w \in 1..spawnSeq
    BY <1>c DEF WorkerInv, TypeOK, TypeTeam, Workers
  <2>2. PICK c \in Calls : Granted(c) /\ call[c].to = w
    BY <2>1 DEF MintedInv
  <2>3. Tied(c)
    BY <2>2 DEF WorkerInv, Tied
  <2> QED  BY <1>c, <2>2, <2>3, GrantedIs DEF Tied
<1>d. TypeTeam /\ TypeCalls
  BY DEF TypeOK
<1>1. ASSUME NEW c \in Calls, NEW n \in Names, NEW to \in Names, BeginSend(c, n, to)
      PROVE  WorkerInv'
  BY <1>1, <1>a DEF TypeOK, TypeCalls, CallInv, Delivering, Spawning, BeginSend, Begin
<1>2. ASSUME NEW c \in Calls, NEW n \in Names, NEW to \in Names, BeginAsk(c, n, to)
      PROVE  WorkerInv'
  BY <1>2, <1>a DEF TypeOK, TypeCalls, CallInv, Delivering, Spawning, BeginAsk, Begin
<1>3. ASSUME NEW c \in Calls, NEW n \in Names, BeginRecv(c, n)
      PROVE  WorkerInv'
  BY <1>3, <1>a DEF TypeOK, TypeCalls, CallInv, Delivering, Spawning, BeginRecv, Begin
<1>4. ASSUME NEW c \in Calls, NEW n \in Names, RecvNobody(c, n)
      PROVE  WorkerInv'
  BY <1>4, <1>a DEF TypeOK, TypeCalls, CallInv, Delivering, Spawning, RecvNobody, Return, Callers
<1>5. ASSUME NEW c \in Calls, NEW n \in Names, NEW t \in seen \cup {None},
             BeginReply(c, n, t)
      PROVE  WorkerInv'
  BY <1>5, <1>a DEF TypeOK, TypeCalls, CallInv, Delivering, Spawning, BeginReply, Begin, Decide
<1>6. ASSUME NEW c \in Calls, NEW n \in Names, Spawn(c, n)
      PROVE  WorkerInv'
  <2>1. spawnSeq \in Nat /\ spawnSeq' = spawnSeq + 1 /\ spawnSeq' \in Workers
    BY <1>6, <1>d DEF TypeTeam, Spawn, Minted, Workers
  <2>2. n \in Spawners /\ n \in Agents /\ ~(Cardinality(spawnedBy[n]) >= MaxLive[n])
    <3>1. n \in Spawners
      BY <1>6 DEF Spawn, SpawnRefusal
    <3>2. ~(Cardinality(spawnedBy[n]) >= MaxLive[n])
      BY <1>6, <3>1 DEF Spawn, SpawnRefusal
    <3> QED  BY <3>1, <3>2, TeamAssumption
  <2>3. boxes' = boxes \cup {spawnSeq'} /\ spawnSeq' \notin boxes /\ spawnSeq' \notin agents
        /\ agents' = agents /\ term' = term
        /\ spawnedBy' = [spawnedBy EXCEPT ![n] = @ \cup {spawnSeq'}]
    BY <1>6 DEF Spawn, Free, Minted
  <2>4. /\ call'[c] = [op |-> "spawn", by |-> n, to |-> spawnSeq', tag |-> None]
        /\ pc'[c] = "attach" /\ outcome'[c] = "delivered"
        /\ \A d \in Calls \ {c} : call'[d] = call[d] /\ pc'[d] = pc[d] /\ outcome'[d] = outcome[d]
    BY <1>6, <1>d DEF TypeCalls, Spawn, Begin, Decide, Minted
  <2>5. term[spawnSeq'] = "none"
    BY <2>1 DEF WorkerInv
  <2>6. \A s \in Agents : spawnedBy[s] \in SUBSET Workers
    BY <1>d DEF TypeTeam
  <2>7. ASSUME NEW d \in Calls, Granted(d)' PROVE Tied(d)'
    <3>1. CASE d = c
      BY <1>d, <2>2, <2>3, <2>4, <2>5, <3>1 DEF TypeTeam, Tied, HasPlace, HasName
    <3>2. CASE d # c
      <4>1. Granted(d) /\ Tied(d) /\ call'[d] = call[d] /\ pc'[d] = pc[d] /\ outcome'[d] = outcome[d]
        BY <2>4, <2>7, <3>2 DEF Granted, WorkerInv, Tied
      <4>2. call[d].to \in Workers /\ call[d].by \in Agents /\ call[d].to <= spawnSeq
        BY <4>1, GrantedIs
      <4>3. call[d].to # spawnSeq'
        BY <2>1, <4>2 DEF Workers
      <4>4. call[d].to \in spawnedBy'[call[d].by] <=> call[d].to \in spawnedBy[call[d].by]
        BY <1>d, <2>3, <4>2, <4>3 DEF TypeTeam
      <4> QED  BY <2>3, <4>1, <4>3, <4>4 DEF Tied, HasPlace, HasName
    <3> QED  BY <3>1, <3>2
  <2>8. ASSUME NEW d \in Calls, call'[d].op = "spawn", call'[d].to = None
        PROVE  outcome'[d] \notin {"delivered", "despawned"}
    <3>1. d # c
      BY <2>1, <2>4, <2>8, TeamAssumption DEF Names
    <3> QED  BY <2>4, <2>8, <3>1 DEF WorkerInv
  <2>9. ASSUME NEW w \in Workers, w > spawnSeq'
        PROVE  w \notin agents' /\ w \notin boxes' /\ term'[w] = "none"
    <3>1. w > spawnSeq /\ w # spawnSeq'
      BY <2>1, <2>9 DEF Workers
    <3> QED  BY <2>3, <3>1 DEF WorkerInv
  <2>10. ASSUME NEW s \in Agents, spawnedBy'[s] # {}
         PROVE  s \in Spawners /\ IsFiniteSet(spawnedBy'[s])
                /\ Cardinality(spawnedBy'[s]) <= MaxLive[s]
    <3>1. CASE s # n
      <4>1. spawnedBy'[s] = spawnedBy[s]
        BY <1>d, <2>3, <3>1 DEF TypeTeam
      <4> QED  BY <2>10, <4>1 DEF WorkerInv
    <3>2. CASE s = n
      <4>1. spawnedBy'[n] = spawnedBy[n] \cup {spawnSeq'}
        BY <1>d, <2>2, <2>3 DEF TypeTeam
      <4>2. IsFiniteSet(spawnedBy[n])
        <5>1. CASE spawnedBy[n] = {}
          BY <5>1, FS_EmptySet
        <5>2. CASE spawnedBy[n] # {}
          BY <2>2, <5>2 DEF WorkerInv
        <5> QED  BY <5>1, <5>2
      <4>3. IsFiniteSet(spawnedBy'[n]) /\ Cardinality(spawnedBy'[n]) <= Cardinality(spawnedBy[n]) + 1
        <5>1. IsFiniteSet(spawnedBy[n] \cup {spawnSeq'})
          BY <4>2, FS_AddElement
        <5>2. \/ Cardinality(spawnedBy[n] \cup {spawnSeq'}) = Cardinality(spawnedBy[n])
              \/ Cardinality(spawnedBy[n] \cup {spawnSeq'}) = Cardinality(spawnedBy[n]) + 1
          BY <4>2, FS_AddElement
        <5>3. Cardinality(spawnedBy[n]) \in Nat
          BY <4>2, FS_CardinalityType
        <5> QED  BY <4>1, <5>1, <5>2, <5>3
      <4>4. Cardinality(spawnedBy[n]) \in Nat /\ Cardinality(spawnedBy'[n]) \in Nat
            /\ MaxLive[n] \in Nat
        BY <2>2, <4>2, <4>3, FS_CardinalityType, TeamAssumption
      <4> QED  BY <2>2, <3>2, <4>3, <4>4
    <3> QED  BY <3>1, <3>2
  <2> QED  BY <2>7, <2>8, <2>9, <2>10 DEF WorkerInv, Tied
<1>7. ASSUME NEW c \in Calls, NEW n \in Names, NEW x \in BOOLEAN, SpawnRefused(c, n, x)
      PROVE  WorkerInv'
  <2>1. SpawnRefusal(n, x) \notin {"delivered", "despawned"}
    BY DEF SpawnRefusal
  <2> QED
    BY <1>7, <1>d, <1>a, <2>1 DEF TypeCalls, SpawnRefused, Begin, Decide
<1>8. ASSUME NEW c \in Calls, Exists(c)
      PROVE  WorkerInv'
  BY <1>8, <1>a DEF TypeOK, TypeCalls, CallInv, Delivering, Spawning, Exists, Goto, Decide
<1>9. ASSUME NEW c \in Calls, Allows(c)
      PROVE  WorkerInv'
  BY <1>9, <1>a DEF TypeOK, TypeCalls, CallInv, Delivering, Spawning, Allows, Goto, Decide
<1>10. ASSUME NEW c \in Calls, Lookup(c)
      PROVE  WorkerInv'
  BY <1>10, <1>a DEF TypeOK, TypeCalls, CallInv, Delivering, Spawning, Lookup, Goto, Decide
<1>11. ASSUME NEW c \in Calls, Enqueue(c)
      PROVE  WorkerInv'
  BY <1>11, <1>a DEF TypeOK, TypeCalls, CallInv, Delivering, Spawning, Enqueue, Goto, Decide
<1>12. ASSUME NEW c \in Calls, Record(c)
      PROVE  WorkerInv'
  <2>1. CASE Granted(c)
    <3>1. Tied(c)
      BY <2>1 DEF WorkerInv, Tied
    <3>2. call[c].op = "spawn" /\ outcome[c] # "none"
      BY <1>12, <2>1 DEF CallInv, Granted, Record, Goto
    <3>3. Tied(c)'
      BY <1>12, <1>d, <3>1, <3>2 DEF TypeCalls, Tied, HasPlace, HasName, Record, Goto, AfterRecord
    <3> QED
      BY <1>12, <1>d, <2>1, <3>3, OneWorker DEF TypeCalls, Record, Goto
  <2>2. CASE ~Granted(c)
    BY <1>12, <1>d, <1>a, <2>2 DEF WorkerInv, TypeCalls, Granted, Record, Goto
  <2> QED  BY <2>1, <2>2
<1>13. ASSUME NEW c \in Calls, AskAnswered(c)
      PROVE  WorkerInv'
  BY <1>13, <1>a DEF TypeOK, TypeCalls, CallInv, Delivering, Spawning, AskAnswered, Goto, TakeAnswer, Decide
<1>14. ASSUME NEW c \in Calls, AskTimesOut(c)
      PROVE  WorkerInv'
  BY <1>14, <1>a DEF TypeOK, TypeCalls, CallInv, Delivering, Spawning, AskTimesOut, Goto, TakeAnswer, Decide
<1>15. ASSUME NEW c \in Calls, Undo(c)
      PROVE  WorkerInv'
  BY <1>15, <1>a DEF TypeOK, TypeCalls, CallInv, Delivering, Spawning, Undo, Return
<1>16. ASSUME NEW c \in Calls, Receive(c)
      PROVE  WorkerInv'
  BY <1>16, <1>a DEF TypeOK, TypeCalls, CallInv, Delivering, Spawning, Receive, Return
<1>17. ASSUME NEW c \in Calls, RecvTimesOut(c)
      PROVE  WorkerInv'
  BY <1>17, <1>a DEF TypeOK, TypeCalls, CallInv, Delivering, Spawning, RecvTimesOut, Return
<1>18. ASSUME NEW c \in Calls, Claim(c)
      PROVE  WorkerInv'
  BY <1>18, <1>a DEF TypeOK, TypeCalls, CallInv, Delivering, Spawning, Claim, Goto, Decide
<1>19. ASSUME NEW c \in Calls, Attach(c)
      PROVE  WorkerInv'
  <2>1. Granted(c) /\ Tied(c) /\ outcome[c] = "delivered" /\ call[c].to \in Workers
        /\ call[c].by \in Agents /\ spawnedBy \in [Agents -> SUBSET Workers]
    BY <1>19, <1>b DEF Spawning, Attach, Goto
  <2>2. Tied(c)'
    BY <1>19, <1>d, <2>1 DEF TypeTeam, TypeCalls, Tied, HasPlace, HasName, Attach, Goto
  <2> QED
    BY <1>19, <1>d, <2>1, <2>2, OneWorker DEF TypeTeam, TypeCalls, Attach, Goto
<1>20. ASSUME NEW c \in Calls, MachineUp(c)
      PROVE  WorkerInv'
  <2>1. Granted(c) /\ Tied(c) /\ outcome[c] = "delivered" /\ call[c].to \in Workers
        /\ call[c].by \in Agents /\ spawnedBy \in [Agents -> SUBSET Workers]
    BY <1>20, <1>b DEF Spawning, MachineUp, Goto
  <2>2. Tied(c)'
    BY <1>20, <1>d, <2>1 DEF TypeTeam, TypeCalls, Tied, HasPlace, HasName, MachineUp, Goto
  <2> QED
    BY <1>20, <1>d, <2>1, <2>2, OneWorker DEF TypeTeam, TypeCalls, MachineUp, Goto
<1>21. ASSUME NEW c \in Calls, BootDone(c)
      PROVE  WorkerInv'
  <2>1. Granted(c) /\ Tied(c) /\ outcome[c] = "delivered" /\ call[c].to \in Workers
        /\ call[c].by \in Agents /\ spawnedBy \in [Agents -> SUBSET Workers]
    BY <1>21, <1>b DEF Spawning, BootDone, Return
  <2>2. Tied(c)'
    BY <1>21, <1>d, <2>1 DEF TypeTeam, TypeCalls, Tied, HasPlace, HasName, BootDone, Return
  <2> QED
    BY <1>21, <1>d, <2>1, <2>2, OneWorker DEF TypeTeam, TypeCalls, BootDone, Return
<1>22. ASSUME NEW c \in Calls, BootFails(c)
      PROVE  WorkerInv'
  <2>1. Granted(c) /\ Tied(c) /\ outcome[c] = "delivered" /\ call[c].to \in Workers
        /\ call[c].by \in Agents /\ spawnedBy \in [Agents -> SUBSET Workers]
    BY <1>22, <1>b DEF Spawning, BootFails
  <2>2. Tied(c)'
    BY <1>22, <1>d, <2>1 DEF TypeTeam, TypeCalls, Tied, HasPlace, HasName, BootFails
  <2> QED
    BY <1>22, <1>d, <2>1, <2>2, OneWorker DEF TypeTeam, TypeCalls, BootFails
<1>23. ASSUME NEW c \in Calls, GiveBack(c)
      PROVE  WorkerInv'
  <2>1. Granted(c) /\ Tied(c) /\ outcome[c] = "delivered" /\ call[c].to \in Workers
        /\ call[c].by \in Agents /\ spawnedBy \in [Agents -> SUBSET Workers]
    BY <1>23, <1>b DEF Spawning, GiveBack, Goto, FreePlace
  <2>2. Tied(c)'
    BY <1>23, <1>d, <2>1 DEF TypeTeam, TypeCalls, Tied, HasPlace, HasName, GiveBack, Goto, FreePlace
  <2> QED
    BY <1>23, <1>d, <2>1, <2>2, OneWorker DEF TypeTeam, TypeCalls, GiveBack, Goto, FreePlace
<1>24. ASSUME NEW c \in Calls, Withdraw(c)
      PROVE  WorkerInv'
  <2>1. Granted(c) /\ Tied(c) /\ outcome[c] = "delivered" /\ call[c].to \in Workers
        /\ call[c].by \in Agents /\ spawnedBy \in [Agents -> SUBSET Workers]
    BY <1>24, <1>b DEF Spawning, Withdraw, Goto, Detach, Decide
  <2>2. Tied(c)'
    BY <1>24, <1>d, <2>1 DEF TypeTeam, TypeCalls, Tied, HasPlace, HasName, Withdraw, Goto, Detach, Decide
  <2> QED
    BY <1>24, <1>d, <2>1, <2>2, OneWorker DEF TypeTeam, TypeCalls, Withdraw, Goto, Detach, Decide
<1>25. ASSUME NEW w \in Workers, Expire(w)
      PROVE  WorkerInv'
  <2>1. PICK c \in Calls : Granted(c) /\ Tied(c) /\ call[c].to = w /\ pc[c] = "done"
               /\ outcome[c] = "delivered" /\ call[c].by \in Agents
    BY <1>25, <1>c DEF Expire, FreePlace
  <2>2. Tied(c)'
    BY <1>25, <1>d, <2>1 DEF TypeTeam, TypeCalls, Tied, HasPlace, HasName, Expire, FreePlace
  <2> QED
    BY <1>25, <1>d, <2>1, <2>2, OneWorker DEF TypeTeam, TypeCalls, Expire, FreePlace
<1>26. ASSUME NEW w \in Workers, Leave(w)
      PROVE  WorkerInv'
  <2>1. PICK c \in Calls : Granted(c) /\ Tied(c) /\ call[c].to = w /\ pc[c] = "done"
               /\ outcome[c] = "delivered" /\ call[c].by \in Agents
    BY <1>26, <1>c DEF Leave, Detach
  <2>2. Tied(c)'
    BY <1>26, <1>d, <2>1 DEF TypeTeam, TypeCalls, Tied, HasPlace, HasName, Leave, Detach
  <2> QED
    BY <1>26, <1>d, <2>1, <2>2, OneWorker DEF TypeTeam, TypeCalls, Leave, Detach
<1>27. ASSUME NEW w \in Workers, StopMachine(w)
      PROVE  WorkerInv'
  <2>1. PICK c \in Calls : Granted(c) /\ Tied(c) /\ call[c].to = w /\ pc[c] = "done"
               /\ outcome[c] = "delivered" /\ call[c].by \in Agents
    BY <1>27, <1>c DEF StopMachine
  <2>2. Tied(c)'
    BY <1>27, <1>d, <2>1 DEF TypeTeam, TypeCalls, Tied, HasPlace, HasName, StopMachine
  <2> QED
    BY <1>27, <1>d, <2>1, <2>2, OneWorker DEF TypeTeam, TypeCalls, StopMachine
<1>28. CASE UNCHANGED vars
  BY <1>28, <1>a DEF vars
<1> QED
  BY <1>1, <1>2, <1>3, <1>4, <1>5, <1>6, <1>7, <1>8, <1>9, <1>10,
     <1>11, <1>12, <1>13, <1>14, <1>15, <1>16, <1>17, <1>18, <1>19, <1>20,
     <1>21, <1>22, <1>23, <1>24, <1>25, <1>26, <1>27, <1>28
  DEF Next, Step, BeginCall, Lifetime

\* The topology starts as the declared edges among the declared agents.
LEMMA TopologyInit == Init => TopologyInv
  BY TeamAssumption DEF Init, TopologyInv, FixedTopology

\* A name that goes takes its edges with it, and a declared agent's never goes (detach).
LEMMA DetachKeeps ==
  ASSUME TypeOK, CallInv, TopologyInv, [Next]_vars, NEW w \in Workers, Detach(w),
         boxes' = boxes
  PROVE  TopologyInv'
<1>1. w \notin Agents
  BY TeamAssumption DEF Workers
<1>2. allowed' \cap (Agents \X Agents) = Edges
  BY <1>1 DEF Detach, TopologyInv, FixedTopology
<1>3. ASSUME NEW e \in allowed' \ Edges
      PROVE  SpawnedFor(e[1], e[2])' \/ SpawnedFor(e[2], e[1])'
  BY <1>3, SpawnedForStays DEF Detach, TopologyInv, FixedTopology
<1>4. \A e \in allowed' : e[1] \in agents' /\ e[2] \in agents'
  BY DEF Detach, TopologyInv, FixedTopology
<1>5. Agents \subseteq agents' \cap boxes'
  BY <1>1 DEF Detach, TopologyInv
<1> QED  BY <1>2, <1>3, <1>4, <1>5 DEF TopologyInv, FixedTopology

\* Only a spawn and the end of its worker touch the topology, and they touch no edge
\* between declared agents (attach, detach).
LEMMA TopologyNext ==
  TypeOK /\ SpawnInv /\ CallInv /\ MintedInv /\ TopologyInv /\ [Next]_vars => TopologyInv'
<1> SUFFICES ASSUME TypeOK, SpawnInv, CallInv, MintedInv, TopologyInv, [Next]_vars
             PROVE  TopologyInv'
  OBVIOUS
<1> USE DEF topology, mail, asks, spawns, host, answers
<1>a. ASSUME agents' = agents, allowed' = allowed, Agents \subseteq boxes'
      PROVE  TopologyInv'
  <2>1. ASSUME NEW e \in allowed' \ Edges
        PROVE  SpawnedFor(e[1], e[2])' \/ SpawnedFor(e[2], e[1])'
    BY <1>a, <2>1, SpawnedForStays DEF TopologyInv, FixedTopology
  <2> QED  BY <1>a, <2>1 DEF TopologyInv, FixedTopology
<1>b. ASSUME NEW c \in Calls, pc[c] \in Spawning
      PROVE  call[c].op = "spawn" /\ call[c].to \in Workers /\ call[c].by \in Agents
             /\ call[c].to \notin Agents
  <2>1. Granted(c) /\ call[c].op = "spawn"
    BY <1>b, TeamAssumption DEF CallInv, SpawnInv, Granted, Spawning, Names
  <2> QED  BY <1>b, <2>1, GrantedIs
<1>c. \A w \in Workers : w \notin Agents
  BY TeamAssumption DEF Workers
<1>d. Agents \subseteq boxes
  BY DEF TopologyInv
<1>1. ASSUME NEW c \in Calls, NEW n \in Names, NEW to \in Names, BeginSend(c, n, to)
      PROVE  TopologyInv'
  BY <1>1, <1>a, <1>c, <1>d DEF BeginSend, Begin
<1>2. ASSUME NEW c \in Calls, NEW n \in Names, NEW to \in Names, BeginAsk(c, n, to)
      PROVE  TopologyInv'
  BY <1>2, <1>a, <1>c, <1>d DEF BeginAsk, Begin
<1>3. ASSUME NEW c \in Calls, NEW n \in Names, BeginRecv(c, n)
      PROVE  TopologyInv'
  BY <1>3, <1>a, <1>c, <1>d DEF BeginRecv, Begin
<1>4. ASSUME NEW c \in Calls, NEW n \in Names, RecvNobody(c, n)
      PROVE  TopologyInv'
  BY <1>4, <1>a, <1>c, <1>d DEF RecvNobody, Return, Callers
<1>5. ASSUME NEW c \in Calls, NEW n \in Names, NEW t \in seen \cup {None},
             BeginReply(c, n, t)
      PROVE  TopologyInv'
  BY <1>5, <1>a, <1>c, <1>d DEF BeginReply, Begin, Decide
<1>6. ASSUME NEW c \in Calls, NEW n \in Names, Spawn(c, n)
      PROVE  TopologyInv'
  BY <1>6, <1>a, <1>c, <1>d DEF Spawn, Begin, Decide, Minted
<1>7. ASSUME NEW c \in Calls, NEW n \in Names, NEW x \in BOOLEAN, SpawnRefused(c, n, x)
      PROVE  TopologyInv'
  BY <1>7, <1>a, <1>c, <1>d DEF SpawnRefused, Begin, Decide
<1>8. ASSUME NEW c \in Calls, Exists(c)
      PROVE  TopologyInv'
  BY <1>8, <1>a, <1>c, <1>d DEF Exists, Goto, Decide
<1>9. ASSUME NEW c \in Calls, Allows(c)
      PROVE  TopologyInv'
  BY <1>9, <1>a, <1>c, <1>d DEF Allows, Goto, Decide
<1>10. ASSUME NEW c \in Calls, Lookup(c)
      PROVE  TopologyInv'
  BY <1>10, <1>a, <1>c, <1>d DEF Lookup, Goto, Decide
<1>11. ASSUME NEW c \in Calls, Enqueue(c)
      PROVE  TopologyInv'
  BY <1>11, <1>a, <1>c, <1>d DEF Enqueue, Goto, Decide
<1>12. ASSUME NEW c \in Calls, Record(c)
      PROVE  TopologyInv'
  BY <1>12, <1>a, <1>c, <1>d DEF Record, Goto, AfterRecord
<1>13. ASSUME NEW c \in Calls, AskAnswered(c)
      PROVE  TopologyInv'
  BY <1>13, <1>a, <1>c, <1>d DEF AskAnswered, Goto, TakeAnswer, Decide
<1>14. ASSUME NEW c \in Calls, AskTimesOut(c)
      PROVE  TopologyInv'
  BY <1>14, <1>a, <1>c, <1>d DEF AskTimesOut, Goto, TakeAnswer, Decide
<1>15. ASSUME NEW c \in Calls, Undo(c)
      PROVE  TopologyInv'
  BY <1>15, <1>a, <1>c, <1>d DEF Undo, Return
<1>16. ASSUME NEW c \in Calls, Receive(c)
      PROVE  TopologyInv'
  BY <1>16, <1>a, <1>c, <1>d DEF Receive, Return
<1>17. ASSUME NEW c \in Calls, RecvTimesOut(c)
      PROVE  TopologyInv'
  BY <1>17, <1>a, <1>c, <1>d DEF RecvTimesOut, Return
<1>18. ASSUME NEW c \in Calls, Claim(c)
      PROVE  TopologyInv'
  BY <1>18, <1>a, <1>c, <1>d DEF Claim, Goto, Decide
<1>19. ASSUME NEW c \in Calls, Attach(c)
      PROVE  TopologyInv'
  <2>1. call[c].op = "spawn" /\ call[c].by \in Agents /\ call[c].to \in Workers /\ call[c].to \notin Agents
    BY <1>19, <1>b DEF Attach, Goto, Spawning
  <2> DEFINE w == call[c].to
             s == call[c].by
  <2>2. agents' = agents \cup {w} /\ allowed' = allowed \cup {<<s, w>>, <<w, s>>}
        /\ boxes' = boxes /\ call' = call
    BY <1>19 DEF Attach
  <2>3. SpawnedFor(s, w)
    BY <2>1 DEF SpawnedFor
  <2>4. ASSUME NEW e \in allowed' \ Edges
        PROVE  SpawnedFor(e[1], e[2])' \/ SpawnedFor(e[2], e[1])'
    <3>1. CASE e \in allowed
      BY <2>4, <3>1, SpawnedForStays DEF TopologyInv, FixedTopology
    <3>2. CASE e = <<s, w>> \/ e = <<w, s>>
      BY <2>2, <2>3, <3>2 DEF SpawnedFor
    <3> QED  BY <2>2, <2>4, <3>1, <3>2
  <2>5. allowed' \cap (Agents \X Agents) = Edges
    BY <2>1, <2>2 DEF TopologyInv, FixedTopology
  <2>6. \A e \in allowed' : e[1] \in agents' /\ e[2] \in agents'
    BY <2>1, <2>2 DEF TopologyInv, FixedTopology
  <2> QED  BY <2>2, <2>4, <2>5, <2>6 DEF TopologyInv, FixedTopology
<1>20. ASSUME NEW c \in Calls, MachineUp(c)
      PROVE  TopologyInv'
  BY <1>20, <1>a, <1>c, <1>d DEF MachineUp, Goto
<1>21. ASSUME NEW c \in Calls, BootDone(c)
      PROVE  TopologyInv'
  BY <1>21, <1>a, <1>c, <1>d DEF BootDone, Return
<1>22. ASSUME NEW c \in Calls, BootFails(c)
      PROVE  TopologyInv'
  BY <1>22, <1>a, <1>c, <1>d DEF BootFails, Goto
<1>23. ASSUME NEW c \in Calls, GiveBack(c)
      PROVE  TopologyInv'
  <2>1. call[c].to \in Workers
    BY <1>23, <1>b DEF GiveBack, Goto, Spawning
  <2> QED  BY <1>23, <1>a, <1>c, <1>d, <2>1 DEF GiveBack, FreePlace
<1>24. ASSUME NEW c \in Calls, Withdraw(c)
      PROVE  TopologyInv'
  <2>1. call[c].to \in Workers /\ Detach(call[c].to) /\ boxes' = boxes
    BY <1>24, <1>b DEF Withdraw, Goto, Spawning
  <2> QED  BY <2>1, DetachKeeps
<1>25. ASSUME NEW w \in Workers, Expire(w)
      PROVE  TopologyInv'
  BY <1>25, <1>a, <1>c, <1>d DEF Expire, FreePlace
<1>26. ASSUME NEW w \in Workers, Leave(w)
      PROVE  TopologyInv'
  BY <1>26, DetachKeeps DEF Leave
<1>27. ASSUME NEW w \in Workers, StopMachine(w)
      PROVE  TopologyInv'
  BY <1>27, <1>a, <1>c, <1>d DEF StopMachine
<1>28. CASE UNCHANGED vars
  BY <1>28, <1>a, <1>c, <1>d DEF vars
<1> QED
  BY <1>1, <1>2, <1>3, <1>4, <1>5, <1>6, <1>7, <1>8, <1>9, <1>10,
     <1>11, <1>12, <1>13, <1>14, <1>15, <1>16, <1>17, <1>18, <1>19, <1>20,
     <1>21, <1>22, <1>23, <1>24, <1>25, <1>26, <1>27, <1>28
  DEF Next, Step, BeginCall, Lifetime

\* No mailbox holds anything, and nobody was given anything.
LEMMA DeliveryInit == Init => DeliveryInv
  BY DEF Init, DeliveryInv, NoCall, Accepted

Message(m) == call[m].op \in {"send", "ask"}
Reader(r)  == call[r].op = "recv"

\* What DeliveryInv says of one place in a mailbox, of one reader and of one message.
Placed(n, i) ==
  /\ call[queue[n][i]].to = n
  /\ \A j \in DOMAIN queue[n] : queue[n][i] = queue[n][j] => i = j
Given(r) ==
  /\ Message(got[r]) /\ outcome[got[r]] \in Accepted /\ call[got[r]].to = call[r].by
  /\ \A i \in DOMAIN queue[call[r].by] : queue[call[r].by][i] # got[r]
  /\ \A r2 \in Calls : Reader(r2) /\ got[r2] = got[r] => r2 = r
Arrived(m) ==
  \/ \E i \in DOMAIN queue[call[m].to] : queue[call[m].to][i] = m
  \/ \E r \in Calls : Reader(r) /\ got[r] = m

\* DeliveryInv, place by place, reader by reader and message by message.
LEMMA DeliveryIs ==
  DeliveryInv <=>
    /\ \A n \in Names : \A i \in DOMAIN queue[n] : Placed(n, i)
    /\ \A r \in Calls : Reader(r) /\ got[r] # None => Given(r)
    /\ \A m \in Calls : Message(m) /\ outcome[m] \in Accepted => Arrived(m)
  BY DEF DeliveryInv, Placed, Given, Arrived, Reader, Message

\* The same of the state after a step.
LEMMA DeliveryPrimed ==
  DeliveryInv' <=>
    /\ \A n \in Names : \A i \in DOMAIN queue'[n] : Placed(n, i)'
    /\ \A r \in Calls : Reader(r)' /\ got'[r] # None => Given(r)'
    /\ \A m \in Calls : Message(m)' /\ outcome'[m] \in Accepted => Arrived(m)'
  BY DEF DeliveryInv, Placed, Given, Arrived, Reader, Message

\* While no mailbox, no reader and no verdict changes, every message stays where it is.
LEMMA MailStays ==
  ASSUME TypeOK, MessageInv, DeliveryInv, queue' = queue, call' = call,
         \A d \in Calls : Reader(d) => got'[d] = got[d],
         \A d \in Calls : Message(d) => (outcome'[d] \in Accepted <=> outcome[d] \in Accepted)
  PROVE  DeliveryInv'
<1>1. ASSUME NEW n \in Names, NEW i \in DOMAIN queue'[n] PROVE Placed(n, i)'
  BY <1>1, DeliveryIs DEF Placed
<1>2. ASSUME NEW r \in Calls, Reader(r)', got'[r] # None PROVE Given(r)'
  <2>1. Reader(r) /\ got'[r] = got[r] /\ got[r] \in Calls
    BY <1>2 DEF TypeOK, TypeCalls, Reader
  <2>2. Given(r)
    BY <1>2, <2>1, DeliveryIs
  <2>3. \A r2 \in Calls : Reader(r2)' <=> Reader(r2)
    BY DEF Reader
  <2> QED  BY <2>1, <2>2, <2>3 DEF Given, Message
<1>3. ASSUME NEW m \in Calls, Message(m)', outcome'[m] \in Accepted PROVE Arrived(m)'
  <2>1. Message(m) /\ outcome[m] \in Accepted
    BY <1>3 DEF Message
  <2>2. Arrived(m)
    BY <2>1, DeliveryIs
  <2> QED  BY <2>2 DEF Arrived, Reader
<1> QED  BY <1>1, <1>2, <1>3, DeliveryPrimed

\* A request that begins is in no mailbox and with no reader, and neither asks to be.
LEMMA MailFresh ==
  ASSUME TypeOK, CallInv, MessageInv, DeliveryInv, queue' = queue, got' = got,
         NEW c \in Calls, pc[c] = "new", NEW rec, call' = [call EXCEPT ![c] = rec],
         rec.op \notin {"send", "ask"} \/ outcome'[c] = "none",
         \A d \in Calls : d # c => outcome'[d] = outcome[d]
  PROVE  DeliveryInv'
<1>0. ~Message(c) /\ ~Reader(c) /\ outcome[c] = "none" /\ outcome[c] \notin Accepted /\ got[c] = None
  BY DEF CallInv, Message, Reader, Accepted
<1>1. \A n \in Names : \A i \in DOMAIN queue[n] : queue[n][i] \in Calls /\ queue[n][i] # c
  BY <1>0 DEF TypeOK, TypeMail, MessageInv
<1>2. \A r \in Calls : Reader(r) /\ got[r] # None => r # c /\ got[r] \in Calls /\ got[r] # c
  BY <1>0 DEF TypeOK, TypeCalls, DeliveryInv, Reader
<1>3. \A d \in Calls : d # c => call'[d] = call[d]
  BY DEF TypeOK, TypeCalls
<1>4. call'[c] = rec
  BY DEF TypeOK, TypeCalls
<1>5. \A n \in Names : \A i \in DOMAIN queue'[n] :
       /\ call'[queue'[n][i]].to = n
       /\ \A j \in DOMAIN queue'[n] : queue'[n][i] = queue'[n][j] => i = j
  BY <1>1, <1>3 DEF DeliveryInv
<1>6. ASSUME NEW r \in Calls, Reader(r)', got'[r] # None
      PROVE  /\ call'[r] = call[r] /\ call'[got[r]] = call[got[r]] /\ got[r] \in Calls
             /\ Message(got[r]) /\ outcome'[got[r]] \in Accepted /\ call[got[r]].to = call[r].by
             /\ \A i \in DOMAIN queue[call[r].by] : queue[call[r].by][i] # got[r]
             /\ \A r2 \in Calls : Reader(r2)' /\ got'[r2] = got[r] => r2 = r
  <2>1. r # c /\ Reader(r)
    BY <1>0, <1>3, <1>6 DEF Reader
  <2>2. \A r2 \in Calls : Reader(r2)' /\ got'[r2] = got[r] => r2 # c /\ Reader(r2)
    BY <1>0, <1>3, <1>6 DEF Reader
  <2> QED  BY <1>2, <1>3, <1>6, <2>1, <2>2 DEF DeliveryInv, Reader, Message
<1>7. ASSUME NEW m \in Calls, Message(m)', outcome'[m] \in Accepted
      PROVE  \/ \E i \in DOMAIN queue'[call'[m].to] : queue'[call'[m].to][i] = m
             \/ \E r \in Calls : Reader(r)' /\ got'[r] = m
  <2>1. m # c
    BY <1>4, <1>7 DEF Message, Accepted
  <2>2. Message(m) /\ outcome[m] \in Accepted /\ call'[m] = call[m]
    BY <1>3, <1>7, <2>1 DEF Message
  <2>3. ASSUME NEW r \in Calls, Reader(r), got[r] = m
        PROVE  Reader(r)'
    BY <1>0, <1>3, <2>3 DEF Reader
  <2> QED  BY <2>2, <2>3 DEF DeliveryInv, Reader, Message
<1>p. ASSUME NEW n \in Names, NEW i \in DOMAIN queue'[n] PROVE Placed(n, i)'
  BY <1>p, <1>5 DEF Placed
<1>g. ASSUME NEW r \in Calls, Reader(r)', got'[r] # None PROVE Given(r)'
  BY <1>g, <1>6 DEF Given, Reader, Message
<1>m. ASSUME NEW m \in Calls, Message(m)', outcome'[m] \in Accepted PROVE Arrived(m)'
  BY <1>m, <1>7 DEF Arrived, Reader, Message
<1> QED  BY <1>p, <1>g, <1>m, DeliveryPrimed

\* A message is put in the one mailbox of the agent it is for (deliver).
LEMMA MailPut ==
  ASSUME TypeOK, CallInv, MessageInv, DeliveryInv, NEW c \in Calls, Message(c),
         outcome[c] = "none", call[c].to \in Names,
         queue' = [queue EXCEPT ![call[c].to] = Append(@, c)], call' = call, got' = got,
         outcome'[c] = "delivered", \A d \in Calls : d # c => outcome'[d] = outcome[d]
  PROVE  DeliveryInv'
<1> DEFINE n0 == call[c].to
<1>0. outcome[c] \notin Accepted /\ outcome'[c] \in Accepted
  BY DEF Accepted
<1>1. \A n \in Names : queue[n] \in Seq(Calls)
  BY DEF TypeOK, TypeMail
<1>2. \A n \in Names : \A i \in DOMAIN queue[n] : queue[n][i] \in Calls /\ queue[n][i] # c
  BY <1>0, <1>1 DEF MessageInv
<1>3. \A r \in Calls : Reader(r) /\ got[r] # None => got[r] \in Calls /\ got[r] # c
  BY <1>0 DEF TypeOK, TypeCalls, DeliveryInv, Reader
<1>4. \A n \in Names : n # n0 => queue'[n] = queue[n]
  BY DEF TypeOK, TypeMail
<1>5. /\ queue'[n0] = Append(queue[n0], c)
      /\ DOMAIN queue[n0] = 1..Len(queue[n0]) /\ Len(queue[n0]) \in Nat
      /\ DOMAIN queue'[n0] = 1..(Len(queue[n0]) + 1)
      /\ \A i \in 1..Len(queue[n0]) : queue'[n0][i] = queue[n0][i]
      /\ queue'[n0][Len(queue[n0]) + 1] = c
  BY <1>1 DEF TypeOK, TypeMail
<1>6. ASSUME NEW n \in Names, NEW i \in DOMAIN queue'[n]
      PROVE  /\ call'[queue'[n][i]].to = n
             /\ \A j \in DOMAIN queue'[n] : queue'[n][i] = queue'[n][j] => i = j
  <2>1. CASE n # n0
    BY <1>4, <2>1 DEF DeliveryInv
  <2>2. CASE n = n0
    <3>1. \A k \in 1..Len(queue[n0]) : queue[n0][k] # c /\ call[queue[n0][k]].to = n0
            /\ \A j \in 1..Len(queue[n0]) : queue[n0][k] = queue[n0][j] => k = j
      BY <1>2, <1>5 DEF DeliveryInv
    <3>2. \A k \in DOMAIN queue'[n0] : k = Len(queue[n0]) + 1 \/ k \in 1..Len(queue[n0])
      BY <1>5
    <3> HIDE DEF n0
    <3>3. call'[queue'[n0][i]].to = n0
      <4>1. call[c].to = n0
        BY DEF n0
      <4> QED  BY <1>5, <2>2, <3>1, <3>2, <4>1
    <3>4. ASSUME NEW j \in DOMAIN queue'[n0], queue'[n0][i] = queue'[n0][j]
          PROVE  i = j
      BY <1>5, <2>2, <3>1, <3>2, <3>4
    <3> QED  BY <2>2, <3>3, <3>4
  <2> QED  BY <2>1, <2>2
<1>7. ASSUME NEW r \in Calls, Reader(r), got[r] # None
      PROVE  /\ Message(got[r]) /\ outcome'[got[r]] \in Accepted /\ call[got[r]].to = call[r].by
             /\ \A i \in DOMAIN queue'[call[r].by] : queue'[call[r].by][i] # got[r]
             /\ \A r2 \in Calls : Reader(r2) /\ got[r2] = got[r] => r2 = r
  <2>1. call[r].by \in Names
    BY <1>7 DEF TypeOK, TypeCalls, CallInv, Reader
  <2>2. \A i \in DOMAIN queue[call[r].by] : queue[call[r].by][i] # got[r]
    BY <1>7 DEF DeliveryInv, Reader
  <2>3. ASSUME NEW i \in DOMAIN queue'[call[r].by] PROVE queue'[call[r].by][i] # got[r]
    <3>1. CASE call[r].by # n0
      BY <1>4, <2>1, <2>2, <3>1
    <3>2. CASE call[r].by = n0
      <4>1. i = Len(queue[n0]) + 1 \/ i \in DOMAIN queue[n0]
        BY <1>5, <3>2
      <4> QED  BY <1>3, <1>5, <1>7, <2>2, <3>2, <4>1
    <3> QED  BY <3>1, <3>2
  <2>4. Message(got[r]) /\ outcome[got[r]] \in Accepted /\ call[got[r]].to = call[r].by
        /\ \A r2 \in Calls : Reader(r2) /\ got[r2] = got[r] => r2 = r
    BY <1>7 DEF DeliveryInv, Reader, Message
  <2> QED  BY <1>3, <1>7, <2>3, <2>4
<1>8. ASSUME NEW m \in Calls, Message(m), outcome'[m] \in Accepted
      PROVE  \/ \E i \in DOMAIN queue'[call[m].to] : queue'[call[m].to][i] = m
             \/ \E r \in Calls : Reader(r) /\ got[r] = m
  <2>1. CASE m = c
    <3>1. Len(queue[n0]) + 1 \in DOMAIN queue'[n0]
      BY <1>5
    <3> QED  BY <1>5, <2>1, <3>1
  <2>2. CASE m # c
    <3>1. \/ \E i \in DOMAIN queue[call[m].to] : queue[call[m].to][i] = m
          \/ \E r \in Calls : Reader(r) /\ got[r] = m
      BY <1>8, <2>2 DEF DeliveryInv, Message, Reader
    <3>2. CASE call[m].to = n0
      BY <1>5, <3>1, <3>2
    <3>3. CASE call[m].to # n0
      <4>1. queue'[call[m].to] = queue[call[m].to]
        BY <3>3 DEF TypeOK, TypeMail
      <4> QED  BY <3>1, <4>1
    <3> QED  BY <3>2, <3>3
  <2> QED  BY <2>1, <2>2
<1>p. ASSUME NEW n \in Names, NEW i \in DOMAIN queue'[n] PROVE Placed(n, i)'
  BY <1>p, <1>6 DEF Placed
<1>g. ASSUME NEW r \in Calls, Reader(r)', got'[r] # None PROVE Given(r)'
  BY <1>g, <1>7 DEF Given, Reader, Message
<1>m. ASSUME NEW m \in Calls, Message(m)', outcome'[m] \in Accepted PROVE Arrived(m)'
  BY <1>m, <1>8 DEF Arrived, Reader, Message
<1> QED  BY <1>p, <1>g, <1>m, DeliveryPrimed

\* The oldest message of a mailbox goes to one reader of its agent (Recv).
LEMMA MailTake ==
  ASSUME TypeOK, CallInv, MessageInv, DeliveryInv, NEW c \in Calls, Reader(c),
         pc[c] = "receiving", got[c] = None, queue[call[c].by] # <<>>,
         queue' = [queue EXCEPT ![call[c].by] = Tail(queue[call[c].by])],
         got' = [got EXCEPT ![c] = Head(queue[call[c].by])],
         call' = call, outcome' = outcome
  PROVE  DeliveryInv'
<1> DEFINE n0 == call[c].by
           m0 == Head(queue[n0])
<1>0. n0 \in Names
  BY DEF TypeOK, TypeCalls, CallInv, Reader
<1>1. /\ queue[n0] \in Seq(Calls) /\ DOMAIN queue[n0] = 1..Len(queue[n0])
      /\ Len(queue[n0]) \in Nat /\ Len(queue[n0]) > 0
      /\ queue'[n0] = Tail(queue[n0]) /\ DOMAIN queue'[n0] = 1..(Len(queue[n0]) - 1)
      /\ \A i \in 1..(Len(queue[n0]) - 1) : queue'[n0][i] = queue[n0][i + 1]
      /\ m0 = queue[n0][1] /\ m0 \in Calls
  BY <1>0 DEF TypeOK, TypeMail
<1>2. \A n \in Names : n # n0 => queue'[n] = queue[n]
  BY DEF TypeOK, TypeMail
<1>3. got'[c] = m0 /\ \A d \in Calls : d # c => got'[d] = got[d]
  BY DEF TypeOK, TypeCalls
<1>4. Message(m0) /\ outcome[m0] \in Accepted /\ call[m0].to = n0 /\ m0 # None
      /\ \A i \in DOMAIN queue[n0] : queue[n0][i] = m0 => i = 1
  BY <1>0, <1>1, TeamAssumption DEF MessageInv, DeliveryInv, Message
<1>5. \A r \in Calls : Reader(r) /\ got[r] # None => got[r] # m0
  BY <1>1, <1>4 DEF DeliveryInv, Reader
<1>6. \A i \in DOMAIN queue'[n0] : i + 1 \in DOMAIN queue[n0] /\ queue'[n0][i] = queue[n0][i + 1]
         /\ queue'[n0][i] # m0
  BY <1>1, <1>4
<1> HIDE DEF n0, m0
<1>7. ASSUME NEW n \in Names, NEW i \in DOMAIN queue'[n]
      PROVE  /\ call'[queue'[n][i]].to = n
             /\ \A j \in DOMAIN queue'[n] : queue'[n][i] = queue'[n][j] => i = j
  <2>1. CASE n # n0
    <3>1. queue'[n] = queue[n] /\ i \in DOMAIN queue[n]
      BY <1>2, <1>7, <2>1
    <3>2. Placed(n, i)
      BY <3>1, DeliveryIs
    <3> QED  BY <3>1, <3>2 DEF Placed
  <2>2. CASE n = n0
    <3>1. call[queue[n0][i + 1]].to = n0
      BY <1>0, <1>6, <2>2 DEF DeliveryInv
    <3>2. ASSUME NEW j \in DOMAIN queue'[n0], queue'[n0][i] = queue'[n0][j] PROVE i = j
      <4>1. queue[n0][i + 1] = queue[n0][j + 1] /\ i \in Int /\ j \in Int
        BY <1>1, <1>6, <2>2, <3>2
      <4>2. i + 1 = j + 1
        <5>1. Placed(n0, i + 1) /\ j + 1 \in DOMAIN queue[n0]
          BY <1>0, <1>6, <2>2, <3>2, DeliveryIs
        <5> QED  BY <4>1, <5>1 DEF Placed
      <4> QED  BY <4>1, <4>2
    <3> QED  BY <1>6, <2>2, <3>1, <3>2
  <2> QED  BY <2>1, <2>2
<1>8. ASSUME NEW r \in Calls, Reader(r), got'[r] # None
      PROVE  /\ Message(got'[r]) /\ outcome[got'[r]] \in Accepted /\ call[got'[r]].to = call[r].by
             /\ \A i \in DOMAIN queue'[call[r].by] : queue'[call[r].by][i] # got'[r]
             /\ \A r2 \in Calls : Reader(r2) /\ got'[r2] = got'[r] => r2 = r
  <2>1. CASE r = c
    <3>1. call[c].by = n0
      BY DEF n0
    <3>2. ASSUME NEW r2 \in Calls, Reader(r2), got'[r2] = m0 PROVE r2 = c
      BY <1>3, <1>4, <1>5, <3>2
    <3> QED  BY <1>3, <1>4, <1>6, <2>1, <3>1, <3>2
  <2>2. CASE r # c
    <3>1. got'[r] = got[r] /\ got[r] # None /\ got[r] # m0
      BY <1>3, <1>5, <1>8, <2>2
    <3>2. /\ Message(got[r]) /\ outcome[got[r]] \in Accepted /\ call[got[r]].to = call[r].by
          /\ \A i \in DOMAIN queue[call[r].by] : queue[call[r].by][i] # got[r]
          /\ \A r2 \in Calls : Reader(r2) /\ got[r2] = got[r] => r2 = r
      BY <1>8, <3>1 DEF DeliveryInv, Reader, Message
    <3>3. call[r].by \in Names
      BY <1>8 DEF TypeOK, TypeCalls, CallInv, Reader
    <3>4. \A i \in DOMAIN queue'[call[r].by] : queue'[call[r].by][i] # got[r]
      <4>1. CASE call[r].by = n0
        BY <1>6, <3>2, <4>1
      <4>2. CASE call[r].by # n0
        BY <1>2, <3>2, <3>3, <4>2
      <4> QED  BY <4>1, <4>2
    <3>5. \A r2 \in Calls : Reader(r2) /\ got'[r2] = got[r] => r2 = r
      BY <1>3, <3>1, <3>2
    <3> QED  BY <3>1, <3>2, <3>4, <3>5
  <2> QED  BY <2>1, <2>2
<1>9. ASSUME NEW m \in Calls, Message(m), outcome[m] \in Accepted
      PROVE  \/ \E i \in DOMAIN queue'[call[m].to] : queue'[call[m].to][i] = m
             \/ \E r \in Calls : Reader(r) /\ got'[r] = m
  <2>1. CASE m = m0
    BY <1>3, <2>1
  <2>2. CASE m # m0 /\ \E r \in Calls : Reader(r) /\ got[r] = m
    <3>1. PICK r \in Calls : Reader(r) /\ got[r] = m
      BY <2>2
    <3>2. r # c
      BY <3>1, <1>9, TeamAssumption
    <3> QED  BY <1>3, <3>1, <3>2
  <2>3. CASE m # m0 /\ \E i \in DOMAIN queue[call[m].to] : queue[call[m].to][i] = m
    <3>1. PICK i \in DOMAIN queue[call[m].to] : queue[call[m].to][i] = m
      BY <2>3
    <3>2. CASE call[m].to = n0
      <4>1. i \in 1..Len(queue[n0]) /\ i # 1
        BY <1>1, <1>4, <2>3, <3>1, <3>2 DEF m0
      <4>2. i - 1 \in 1..(Len(queue[n0]) - 1) /\ queue'[n0][i - 1] = queue[n0][(i - 1) + 1]
            /\ (i - 1) + 1 = i
        BY <1>1, <4>1
      <4> QED  BY <1>1, <3>1, <3>2, <4>2
    <3>3. CASE call[m].to # n0
      <4>1. queue'[call[m].to] = queue[call[m].to]
        BY <3>3 DEF TypeOK, TypeMail, n0
      <4> QED  BY <3>1, <4>1
    <3> QED  BY <3>2, <3>3
  <2> QED  BY <1>9, <2>1, <2>2, <2>3 DEF DeliveryInv, Message, Reader
<1>p. ASSUME NEW n \in Names, NEW i \in DOMAIN queue'[n] PROVE Placed(n, i)'
  BY <1>p, <1>7 DEF Placed
<1>g. ASSUME NEW r \in Calls, Reader(r)', got'[r] # None PROVE Given(r)'
  BY <1>g, <1>8 DEF Given, Reader, Message
<1>m. ASSUME NEW m \in Calls, Message(m)', outcome'[m] \in Accepted PROVE Arrived(m)'
  BY <1>m, <1>9 DEF Arrived, Reader, Message
<1> QED  BY <1>p, <1>g, <1>m, DeliveryPrimed

\* No step of any request loses an accepted message, doubles it or misplaces it: it is
\* put once (Enqueue) and taken once (Receive).
LEMMA DeliveryNext ==
  TypeOK /\ CallInv /\ MessageInv /\ QuestionInv /\ GivenInv /\ DeliveryInv /\ [Next]_vars => DeliveryInv'
<1> SUFFICES ASSUME TypeOK, CallInv, MessageInv, QuestionInv, GivenInv, DeliveryInv, [Next]_vars
             PROVE  DeliveryInv'
  OBVIOUS
<1> USE DEF topology, mail, asks, spawns, host, answers
<1>a. ASSUME queue' = queue, call' = call,
             \A d \in Calls : Reader(d) => got'[d] = got[d],
             \A d \in Calls : Message(d) =>
               (outcome'[d] \in Accepted <=> outcome[d] \in Accepted)
      PROVE  DeliveryInv'
  BY <1>a, MailStays
<1>b. ASSUME NEW c \in Calls, pc[c] = "new", NEW rec, call' = [call EXCEPT ![c] = rec],
             rec.op \notin {"send", "ask"} \/ outcome'[c] = "none", queue' = queue, got' = got,
             \A d \in Calls : d # c => outcome'[d] = outcome[d]
      PROVE  DeliveryInv'
  BY <1>b, MailFresh
<1>c. \A d \in Calls : call[d].op = "ask" /\ pc[d] = "waiting" => outcome[d] = "delivered"
  BY DEF QuestionInv
<1>d. \A d \in Calls : /\ pc[d] = "new" => outcome[d] = "none"
                       /\ pc[d] \in Delivering => Message(d) /\ outcome[d] = "none"
                       /\ pc[d] \in {"waiting", "undo"} => call[d].op = "ask"
                       /\ pc[d] = "receiving" => Reader(d)
                       /\ pc[d] = "claim" => call[d].op = "reply"
                       /\ pc[d] \in Spawning => call[d].op = "spawn"
  BY DEF CallInv, Message, Reader
<1>1. ASSUME NEW c \in Calls, NEW n \in Names, NEW to \in Names, BeginSend(c, n, to)
      PROVE  DeliveryInv'
  BY <1>1, <1>b, <1>d DEF TypeOK, TypeCalls, BeginSend, Begin
<1>2. ASSUME NEW c \in Calls, NEW n \in Names, NEW to \in Names, BeginAsk(c, n, to)
      PROVE  DeliveryInv'
  BY <1>2, <1>b, <1>d DEF TypeOK, TypeCalls, BeginAsk, Begin
<1>3. ASSUME NEW c \in Calls, NEW n \in Names, BeginRecv(c, n)
      PROVE  DeliveryInv'
  BY <1>3, <1>b, <1>d DEF TypeOK, TypeCalls, BeginRecv, Begin
<1>4. ASSUME NEW c \in Calls, NEW n \in Names, RecvNobody(c, n)
      PROVE  DeliveryInv'
  BY <1>4, <1>b, <1>d DEF RecvNobody, Return
<1>5. ASSUME NEW c \in Calls, NEW n \in Names, NEW t \in seen \cup {None},
             BeginReply(c, n, t)
      PROVE  DeliveryInv'
  BY <1>5, <1>b, <1>d DEF TypeOK, TypeCalls, BeginReply, Begin, Decide
<1>6. ASSUME NEW c \in Calls, NEW n \in Names, Spawn(c, n)
      PROVE  DeliveryInv'
  BY <1>6, <1>b, <1>d DEF TypeOK, TypeCalls, Spawn, Begin, Decide, Minted
<1>7. ASSUME NEW c \in Calls, NEW n \in Names, NEW x \in BOOLEAN, SpawnRefused(c, n, x)
      PROVE  DeliveryInv'
  BY <1>7, <1>b, <1>d DEF TypeOK, TypeCalls, SpawnRefused, Begin, Decide
<1>8. ASSUME NEW c \in Calls, Exists(c)
      PROVE  DeliveryInv'
  BY <1>8, <1>a, <1>c, <1>d DEF TypeOK, TypeCalls, Reader, Message, Accepted, Delivering, Spawning, Exists, Goto, Decide
<1>9. ASSUME NEW c \in Calls, Allows(c)
      PROVE  DeliveryInv'
  BY <1>9, <1>a, <1>c, <1>d DEF TypeOK, TypeCalls, Reader, Message, Accepted, Delivering, Spawning, Allows, Goto, Decide
<1>10. ASSUME NEW c \in Calls, Lookup(c)
      PROVE  DeliveryInv'
  BY <1>10, <1>a, <1>c, <1>d DEF TypeOK, TypeCalls, Reader, Message, Accepted, Delivering, Spawning, Lookup, Goto, Decide
<1>11. ASSUME NEW c \in Calls, Enqueue(c)
      PROVE  DeliveryInv'
  <2>1. Message(c) /\ outcome[c] = "none" /\ call[c].to \in Names
    BY <1>11, <1>d DEF GivenInv, Message, Enqueue, Goto, Delivering
  <2>2. CASE Len(queue[call[c].to]) < Mailbox
    BY <1>11, <2>1, <2>2, MailPut DEF TypeOK, TypeCalls, Enqueue, Decide
  <2>3. CASE ~(Len(queue[call[c].to]) < Mailbox)
    BY <1>11, <1>a, <2>1, <2>3 DEF TypeOK, TypeCalls, Accepted, Enqueue, Decide
  <2> QED  BY <2>2, <2>3
<1>12. ASSUME NEW c \in Calls, Record(c)
      PROVE  DeliveryInv'
  BY <1>12, <1>a, <1>c, <1>d DEF TypeOK, TypeCalls, Reader, Message, Accepted, Delivering, Spawning, Record, Goto, AfterRecord
<1>13. ASSUME NEW c \in Calls, AskAnswered(c)
      PROVE  DeliveryInv'
  BY <1>13, <1>a, <1>c, <1>d DEF TypeOK, TypeCalls, Reader, Message, Accepted, Delivering, Spawning, AskAnswered, Goto, TakeAnswer, Decide
<1>14. ASSUME NEW c \in Calls, AskTimesOut(c)
      PROVE  DeliveryInv'
  BY <1>14, <1>a, <1>c, <1>d DEF TypeOK, TypeCalls, Reader, Message, Accepted, Delivering, Spawning, AskTimesOut, Goto, TakeAnswer, Decide
<1>15. ASSUME NEW c \in Calls, Undo(c)
      PROVE  DeliveryInv'
  BY <1>15, <1>a, <1>c, <1>d DEF TypeOK, TypeCalls, Reader, Message, Accepted, Delivering, Spawning, Undo, Return
<1>16. ASSUME NEW c \in Calls, Receive(c)
      PROVE  DeliveryInv'
  <2>1. Reader(c) /\ pc[c] = "receiving"
    BY <1>16, <1>d DEF Receive
  <2>2. got[c] = None
    BY <2>1 DEF GivenInv
  <2> QED  BY <1>16, <2>1, <2>2, MailTake DEF Receive
<1>17. ASSUME NEW c \in Calls, RecvTimesOut(c)
      PROVE  DeliveryInv'
  BY <1>17, <1>a, <1>c, <1>d DEF TypeOK, TypeCalls, Reader, Message, Accepted, Delivering, Spawning, RecvTimesOut, Return
<1>18. ASSUME NEW c \in Calls, Claim(c)
      PROVE  DeliveryInv'
  BY <1>18, <1>a, <1>c, <1>d DEF TypeOK, TypeCalls, Reader, Message, Accepted, Delivering, Spawning, Claim, Goto, Decide
<1>19. ASSUME NEW c \in Calls, Attach(c)
      PROVE  DeliveryInv'
  BY <1>19, <1>a, <1>c, <1>d DEF TypeOK, TypeCalls, Reader, Message, Accepted, Delivering, Spawning, Attach, Goto
<1>20. ASSUME NEW c \in Calls, MachineUp(c)
      PROVE  DeliveryInv'
  BY <1>20, <1>a, <1>c, <1>d DEF TypeOK, TypeCalls, Reader, Message, Accepted, Delivering, Spawning, MachineUp, Goto
<1>21. ASSUME NEW c \in Calls, BootDone(c)
      PROVE  DeliveryInv'
  BY <1>21, <1>a, <1>c, <1>d DEF TypeOK, TypeCalls, Reader, Message, Accepted, Delivering, Spawning, BootDone, Return
<1>22. ASSUME NEW c \in Calls, BootFails(c)
      PROVE  DeliveryInv'
  BY <1>22, <1>a, <1>c, <1>d DEF TypeOK, TypeCalls, Reader, Message, Accepted, Delivering, Spawning, BootFails, Goto
<1>23. ASSUME NEW c \in Calls, GiveBack(c)
      PROVE  DeliveryInv'
  BY <1>23, <1>a, <1>c, <1>d DEF TypeOK, TypeCalls, Reader, Message, Accepted, Delivering, Spawning, GiveBack, Goto, FreePlace
<1>24. ASSUME NEW c \in Calls, Withdraw(c)
      PROVE  DeliveryInv'
  BY <1>24, <1>a, <1>c, <1>d DEF TypeOK, TypeCalls, Reader, Message, Accepted, Delivering, Spawning, Withdraw, Goto, Detach, Decide
<1>25. ASSUME NEW w \in Workers, Expire(w)
      PROVE  DeliveryInv'
  BY <1>25, <1>a, <1>c, <1>d DEF TypeOK, TypeCalls, Reader, Message, Accepted, Delivering, Spawning, Expire, FreePlace
<1>26. ASSUME NEW w \in Workers, Leave(w)
      PROVE  DeliveryInv'
  BY <1>26, <1>a, <1>c, <1>d DEF TypeOK, TypeCalls, Reader, Message, Accepted, Delivering, Spawning, Leave, Detach
<1>27. ASSUME NEW w \in Workers, StopMachine(w)
      PROVE  DeliveryInv'
  BY <1>27, <1>a, <1>c, <1>d DEF TypeOK, TypeCalls, Reader, Message, Accepted, Delivering, Spawning, StopMachine
<1>28. CASE UNCHANGED vars
  BY <1>28, <1>a DEF vars
<1> QED
  BY <1>1, <1>2, <1>3, <1>4, <1>5, <1>6, <1>7, <1>8, <1>9, <1>10,
     <1>11, <1>12, <1>13, <1>14, <1>15, <1>16, <1>17, <1>18, <1>19, <1>20,
     <1>21, <1>22, <1>23, <1>24, <1>25, <1>26, <1>27, <1>28
  DEF Next, Step, BeginCall, Lifetime

\* Everything the two theorems below rest on, in one invariant.
TeamInductive ==
  Inductive /\ MintedInv /\ WorkerInv /\ TopologyInv /\ GivenInv /\ EdgeInv /\ DeliveryInv

\* It holds in every state the broker reaches.
LEMMA TeamInductiveHolds == Spec => []TeamInductive
<1>1. Init => TeamInductive
  BY TypeInit, CallInit, MessageInit, QuestionInit, AnswerInit, LogInit, MintedInit,
     WorkerInit, TopologyInit, GivenInit, EdgeInit, DeliveryInit DEF TeamInductive, Inductive
<1>2. TeamInductive /\ [Next]_vars => TeamInductive'
  BY TypeNext, CallNext, MessageNext, QuestionNext, AnswerNext, LogNext, MintedNext,
     WorkerNext, TopologyNext, GivenNext, EdgeNext, DeliveryNext DEF TeamInductive, Inductive
<1> QED  BY <1>1, <1>2, PTL DEF Spec

\* What the record calls delivered was accepted, and what it calls anything else was not.
LEMMA VerdictOnRecord ==
  ASSUME TeamInductive, NEW m \in Calls, Message(m), NEW x \in Outcomes, Logged(m, x)
  PROVE  outcome[m] \in Accepted <=> Logged(m, "delivered")
<1>0. "delivered" \in Outcomes
  BY DEF Outcomes
<1>1. outcome[m] # "despawned"
  BY DEF TeamInductive, GivenInv, Message
<1>2. \/ x = outcome[m] /\ pc[m] # "record"
      \/ x = "delivered" /\ outcome[m] \in Accepted
  BY <1>1 DEF TeamInductive, Inductive, LogInv
<1>3. Logged(m, "delivered") => outcome[m] \in Accepted
  BY <1>0, <1>1 DEF TeamInductive, Inductive, LogInv, Accepted
<1>4. ASSUME outcome[m] \in Accepted PROVE Logged(m, "delivered")
  <2>1. CASE outcome[m] = "delivered"
    BY <1>2, <2>1
  <2>2. CASE outcome[m] \in {"answered", "timeout"}
    BY <2>2 DEF TeamInductive, Inductive, MessageInv, GivenInv, Message
  <2> QED  BY <1>4, <2>1, <2>2 DEF Accepted
<1> QED  BY <1>3, <1>4

\* A message that is on the record is in one place or with one reader if the record says
\* delivered, and in none if it does not (deliver, Recv, record).
LEMMA DeliveredOnceHolds == TeamInductive => DeliveredOnce
<1> SUFFICES ASSUME TeamInductive, NEW m \in Calls, Message(m),
                    NEW o \in Outcomes, Logged(m, o)
             PROVE  /\ Cardinality(Held(m)) + Cardinality(Taken(m))
                       = IF Logged(m, "delivered") THEN 1 ELSE 0
                    /\ \A r \in Taken(m) : call[r].by = call[m].to
  BY DEF DeliveredOnce, Message
<1>1. outcome[m] \in Accepted <=> Logged(m, "delivered")
  BY VerdictOnRecord
<1>2. call[m].to \in Names /\ m # None
  BY TeamAssumption DEF TeamInductive, GivenInv, Message
<1>3. \A i, j \in Held(m) : i = j
  <2> SUFFICES ASSUME NEW i \in Held(m), NEW j \in Held(m) PROVE i = j
    OBVIOUS
  <2>1. /\ i \in DOMAIN queue[call[m].to] /\ queue[call[m].to][i] = m
        /\ j \in DOMAIN queue[call[m].to] /\ queue[call[m].to][j] = m
    BY DEF Held
  <2>2. \A n \in Names : \A x \in DOMAIN queue[n] : \A y \in DOMAIN queue[n] :
          queue[n][x] = queue[n][y] => x = y
    BY DEF TeamInductive, DeliveryInv
  <2> QED  BY <1>2, <2>1, <2>2, Zenon
<1>4. \A r, s \in Taken(m) : r = s
  <2> SUFFICES ASSUME NEW r \in Taken(m), NEW s \in Taken(m) PROVE r = s
    OBVIOUS
  <2>1. /\ r \in Calls /\ call[r].op = "recv" /\ got[r] = m
        /\ s \in Calls /\ call[s].op = "recv" /\ got[s] = m
    BY DEF Taken
  <2>2. \A x \in Calls : call[x].op = "recv" /\ got[x] # None =>
          \A y \in Calls : call[y].op = "recv" /\ got[y] = got[x] => y = x
    BY DEF TeamInductive, DeliveryInv
  <2> QED  BY <1>2, <2>1, <2>2, Zenon
<1>5. \A r \in Taken(m) : call[r].by = call[m].to /\ outcome[m] \in Accepted /\ Held(m) = {}
  <2> SUFFICES ASSUME NEW r \in Taken(m)
               PROVE  call[r].by = call[m].to /\ outcome[m] \in Accepted /\ Held(m) = {}
    OBVIOUS
  <2>1. r \in Calls /\ call[r].op = "recv" /\ got[r] = m
    BY DEF Taken
  <2>2. \A x \in Calls : call[x].op = "recv" /\ got[x] # None =>
          /\ outcome[got[x]] \in Accepted /\ call[got[x]].to = call[x].by
          /\ \A i \in DOMAIN queue[call[x].by] : queue[call[x].by][i] # got[x]
    BY DEF TeamInductive, DeliveryInv
  <2>3. /\ outcome[m] \in Accepted /\ call[m].to = call[r].by
        /\ \A i \in DOMAIN queue[call[m].to] : queue[call[m].to][i] # m
    BY <1>2, <2>1, <2>2, Zenon
  <2> QED  BY <2>3, Zenon DEF Held
<1>6. Held(m) # {} => outcome[m] \in Accepted
  BY <1>2 DEF Held, TeamInductive, Inductive, MessageInv
<1>7. outcome[m] \in Accepted => Held(m) # {} \/ Taken(m) # {}
  BY DEF Held, Taken, TeamInductive, DeliveryInv, Message
<1>8. Cardinality({}) = 0
  BY FS_EmptySet
<1>9. \A y : Cardinality({y}) = 1
  BY FS_Singleton
<1>10. Held(m) # {} => Cardinality(Held(m)) = 1
  <2>1. ASSUME NEW i \in Held(m) PROVE Held(m) = {i}
    BY <1>3
  <2> QED  BY <1>9, <2>1
<1>11. Taken(m) # {} => Cardinality(Taken(m)) = 1
  <2>1. ASSUME NEW i \in Taken(m) PROVE Taken(m) = {i}
    BY <1>4
  <2> QED  BY <1>9, <2>1
<1>12. CASE Logged(m, "delivered")
  <2>1. CASE Taken(m) # {}
    <3>1. Held(m) = {}
      BY <1>5, <2>1
    <3> QED  BY <1>5, <1>8, <1>11, <1>12, <2>1, <3>1
  <2>2. CASE Taken(m) = {}
    BY <1>1, <1>5, <1>7, <1>8, <1>10, <1>12, <2>2
  <2> QED  BY <2>1, <2>2
<1>13. CASE ~Logged(m, "delivered")
  <2>1. Taken(m) = {} /\ Held(m) = {}
    BY <1>1, <1>5, <1>6, <1>13
  <2> QED  BY <1>8, <1>13, <2>1
<1> QED  BY <1>12, <1>13

\* What an agent was given came along an edge, or is the answer to what it asked along
\* one (deliver's checks, Reply's).
LEMMA OnlyAlongEdgesHolds == TeamInductive => OnlyAlongEdges
<1> SUFFICES ASSUME TeamInductive, NEW c \in Calls, got[c] # None
             PROVE  IF call[c].op = "recv"
                    THEN Reach(call[got[c]].by, call[c].by)
                    ELSE Reach(call[c].by, call[got[c]].by)
  BY DEF OnlyAlongEdges
<1>1. CASE call[c].op = "recv"
  <2>1. got[c] \in Calls
    BY DEF TeamInductive, Inductive, TypeOK, TypeCalls
  <2>2. Message(got[c]) /\ outcome[got[c]] \in Accepted /\ call[got[c]].to = call[c].by
    BY <1>1 DEF TeamInductive, DeliveryInv, Message
  <2> QED  BY <1>1, <2>1, <2>2 DEF TeamInductive, EdgeInv, Message
<1>2. CASE call[c].op # "recv"
  <2>1. call[c].op = "ask"
    BY <1>2 DEF TeamInductive, GivenInv
  <2>2. outcome[c] = "answered" /\ reply[c] = None
    BY <2>1 DEF TeamInductive, Inductive, QuestionInv, Accepted
  <2>3. AnswerTo(c) = got[c]
    BY <2>2 DEF AnswerTo
  <2>4. got[c] \in Calls /\ call[got[c]].op = "reply" /\ call[got[c]].tag = c
        /\ outcome[got[c]] = "delivered"
    BY <2>1, <2>3 DEF TeamInductive, Inductive, TypeOK, TypeCalls, AnswerInv
  <2>5. call[got[c]].by = call[c].to
    BY <2>4 DEF TeamInductive, Inductive, AnswerInv
  <2>6. Reach(call[c].by, call[c].to)
    BY <2>1, <2>2 DEF TeamInductive, EdgeInv, Accepted
  <2> QED  BY <1>2, <2>5, <2>6
<1> QED  BY <1>1, <1>2

\* In every team, whatever is asked of it: nothing said reaches anybody but along an
\* edge, and what the flight recorder calls delivered is delivered once (deliver, Recv,
\* Reply, record).
THEOREM ExchangeIsSafe == Spec => []ExchangeSafe
<1>1. TeamInductive => ExchangeSafe
  BY DeliveredOnceHolds, OnlyAlongEdgesHolds DEF ExchangeSafe
<1> QED  BY <1>1, TeamInductiveHolds, PTL

\* The request that minted a name is the one request that names it.
LEMMA SpawnCallIs ==
  ASSUME TeamInductive, NEW w \in 1..spawnSeq
  PROVE  /\ SpawnCall(w) \in Calls /\ Granted(SpawnCall(w)) /\ call[SpawnCall(w)].to = w
         /\ w \in Workers
         /\ \A c \in Calls : call[c].op = "spawn" /\ call[c].to = w => c = SpawnCall(w)
<1>0. w \in Workers /\ w # None
  BY TeamAssumption DEF TeamInductive, Inductive, TypeOK, TypeTeam, Workers, Names
<1>1. PICK c \in Calls : Granted(c) /\ call[c].to = w
  BY DEF TeamInductive, MintedInv
<1>2. call[c].op = "spawn"
  BY <1>1 DEF Granted
<1>3. SpawnCall(w) \in Calls /\ call[SpawnCall(w)].op = "spawn" /\ call[SpawnCall(w)].to = w
  BY <1>1, <1>2 DEF SpawnCall
<1>4. Granted(SpawnCall(w))
  BY <1>0, <1>3 DEF Granted
<1> QED  BY <1>0, <1>3, <1>4 DEF TeamInductive, MintedInv, Granted

\* A worker that is not leaving holds its place (Spawn's, until Despawn).
LEMMA LiveHasPlace ==
  ASSUME TeamInductive, NEW w \in 1..spawnSeq, ~Leaving(w), NEW s, SpawnedFor(s, w)
  PROVE  s \in Agents /\ w \in spawnedBy[s]
<1> DEFINE c == SpawnCall(w)
<1>1. c \in Calls /\ Granted(c) /\ call[c].to = w /\ call[c].op = "spawn" /\ call[c].by = s
      /\ w \in Workers
  BY SpawnCallIs DEF SpawnedFor, Granted
<1>2. Tied(c)
  BY <1>1 DEF TeamInductive, WorkerInv, Tied
<1>3. term[w] \in {"none", "living"} /\ pc[c] # "withdraw" /\ outcome[c] # "despawned"
  BY DEF Leaving
<1>4. outcome[c] = "delivered"
  BY <1>2, <1>3 DEF Tied
<1>5. pc[c] \in Spawning \cup {"record", "done"}
  BY <1>1 DEF TeamInductive, Inductive, SpawnInv
<1>6. HasPlace(c)
  BY <1>1, <1>2, <1>3, <1>4, <1>5 DEF Tied, HasPlace, Spawning
<1>7. s \in Agents
  BY <1>1, GrantedIs DEF TeamInductive, Inductive
<1> QED  BY <1>1, <1>2, <1>6, <1>7 DEF Tied

\* A place is held for every worker with time left, and there are no more places than the
\* budget has (Spawn's test, under the broker's mutex).
LEMMA WithinBudgetHolds == TeamInductive => WithinBudget
<1> SUFFICES ASSUME TeamInductive, NEW s \in Agents,
                    {w \in WorkersOf(s) : ~Leaving(w)} # {}
             PROVE  s \in Spawners
                    /\ Cardinality({w \in WorkersOf(s) : ~Leaving(w)}) <= MaxLive[s]
  BY DEF WithinBudget
<1> DEFINE live == {w \in WorkersOf(s) : ~Leaving(w)}
<1>1. live \subseteq spawnedBy[s]
  BY LiveHasPlace DEF WorkersOf
<1>2. s \in Spawners /\ IsFiniteSet(spawnedBy[s]) /\ Cardinality(spawnedBy[s]) <= MaxLive[s]
  BY <1>1 DEF TeamInductive, WorkerInv
<1>3. Cardinality(live) <= Cardinality(spawnedBy[s]) /\ Cardinality(live) \in Nat
      /\ Cardinality(spawnedBy[s]) \in Nat
  BY <1>1, <1>2, FS_Subset, FS_CardinalityType
<1>4. MaxLive[s] \in Nat
  BY <1>2, TeamAssumption
<1> QED  BY <1>2, <1>3, <1>4

\* A name and a mailbox come and go together, but for the step between.
LEMMA MailboxBehindNameHolds == TeamInductive => MailboxBehindName
<1> SUFFICES ASSUME TeamInductive, NEW w \in 1..spawnSeq, ~Between(w)
             PROVE  w \in agents <=> w \in boxes
  BY DEF MailboxBehindName, TeamInductive, TopologyInv
<1> DEFINE c == SpawnCall(w)
<1>1. c \in Calls /\ Granted(c) /\ call[c].to = w /\ call[c].op = "spawn" /\ w \in Workers
  BY SpawnCallIs DEF Granted
<1>2. Tied(c)
  BY <1>1 DEF TeamInductive, WorkerInv, Tied
<1>3. term[w] # "expired" /\ pc[c] \notin {"attach", "withdraw"}
  BY DEF Between
<1>4. HasPlace(c) <=> HasName(c)
  BY <1>1, <1>3 DEF HasPlace, HasName
<1> QED  BY <1>1, <1>2, <1>4 DEF Tied

\* In every team, whatever its budgets: no spawner has more live workers than its budget,
\* the topology is the declared one but for workers' own edges, a name has its mailbox,
\* and what is recorded as delivered is (Spawn, Despawn, attach, detach).
THEOREM SpawnIsSafe == Spec => []SpawnSafe
<1>1. TeamInductive => SpawnSafe
  BY DeliveredOnceHolds, WithinBudgetHolds, MailboxBehindNameHolds
  DEF SpawnSafe, TeamInductive, TopologyInv, Inductive
<1> QED  BY <1>1, TeamInductiveHolds, PTL

---------------------------------------------------------------------------
\* The store.

\* How many bytes there are in n (len).
LEMMA UpToSize ==
  ASSUME NEW n \in Nat
  PROVE  IsFiniteSet(1..n) /\ Cardinality(1..n) = n
<1>1. 1 \in Int /\ n \in Int
  OBVIOUS
<1>2. IsFiniteSet(1..n) /\ Cardinality(1..n) = IF 1 > n THEN 0 ELSE n - 1 + 1
  BY <1>1, FS_Interval
<1> QED  BY <1>2

\* The bytes of one entry, and of all entries but one (Put's len(key) and len(value)).
LEMMA BytesSplit ==
  ASSUME NEW S, NEW W, NEW k \in S, IsFiniteSet(S), \A j \in S : W[j] \in Nat
  PROVE  /\ IsFiniteSet(BytesOf(S, W)) /\ IsFiniteSet(BytesOf(S \ {k}, W))
         /\ Cardinality(BytesOf(S, W)) = Cardinality(BytesOf(S \ {k}, W)) + W[k]
<1> DEFINE Block(j) == {j} \X (1..W[j])
           Others == BytesOf(S \ {k}, W)
<1>1. ASSUME NEW j \in S
      PROVE  IsFiniteSet(Block(j)) /\ Cardinality(Block(j)) = W[j]
  <2>1. IsFiniteSet(1..W[j]) /\ Cardinality(1..W[j]) = W[j]
    BY UpToSize
  <2>2. IsFiniteSet({j}) /\ Cardinality({j}) = 1
    BY FS_Singleton
  <2>3. IsFiniteSet(Block(j)) /\ Cardinality(Block(j)) = 1 * W[j]
    BY <2>1, <2>2, FS_Product
  <2> QED  BY <2>3
<1>2. \A T \in SUBSET S : IsFiniteSet(BytesOf(T, W))
  <2> SUFFICES ASSUME NEW T \in SUBSET S PROVE IsFiniteSet(BytesOf(T, W))
    OBVIOUS
  <2>1. IsFiniteSet(T)
    BY FS_Subset
  <2>2. IsFiniteSet({Block(j) : j \in T})
    <3> DEFINE f == [j \in T |-> Block(j)]
    <3>1. f \in Surjection(T, {Block(j) : j \in T})
      BY DEF Surjection
    <3> QED  BY <2>1, <3>1, FS_Surjection
  <2>3. \A B \in {Block(j) : j \in T} : IsFiniteSet(B)
    BY <1>1
  <2> QED  BY <2>2, <2>3, FS_UNION DEF BytesOf
<1>3. BytesOf(S, W) = Others \cup Block(k)
  BY DEF BytesOf
<1>4. Others \cap Block(k) = {}
  BY DEF BytesOf
<1>5. IsFiniteSet(Others) /\ IsFiniteSet(BytesOf(S, W))
  BY <1>2
<1>6. IsFiniteSet(Block(k)) /\ Cardinality(Block(k)) = W[k]
  BY <1>1
<1>7. Cardinality(Others) \in Nat
  BY <1>5, FS_CardinalityType
<1> HIDE DEF Others, Block
<1>8. Cardinality(Others \cup Block(k)) = Cardinality(Others) + W[k] - Cardinality({})
  BY <1>4, <1>5, <1>6, FS_Union
<1>9. Cardinality({}) = 0
  BY FS_EmptySet
<1> QED  BY <1>3, <1>5, <1>7, <1>8, <1>9 DEF Others

\* Bytes depend on no weight but those of their keys (an entry that is not touched).
LEMMA BytesSame ==
  ASSUME NEW S, NEW W, NEW V, \A j \in S : W[j] = V[j]
  PROVE  BytesOf(S, W) = BytesOf(S, V)
<1>1. \A j \in S : {j} \X (1..W[j]) = {j} \X (1..V[j])
  OBVIOUS
<1> QED  BY <1>1 DEF BytesOf

\* What a key has of the bytes of some keys, and what they are once it is put.
ShareOf(k, S, W) == IF k \in S THEN W[k] ELSE 0
BytesWith(k, S, W, V) == Cardinality(BytesOf(S, W)) - ShareOf(k, S, W) + V[k]

\* Taking an entry away takes its bytes (the delete of an empty Put).
LEMMA BytesTaken ==
  ASSUME NEW S, NEW W, NEW V, NEW k, IsFiniteSet(S), \A j \in S : W[j] \in Nat,
         \A j \in S \ {k} : W[j] = V[j]
  PROVE  /\ IsFiniteSet(BytesOf(S \ {k}, V))
         /\ Cardinality(BytesOf(S \ {k}, V)) =
              Cardinality(BytesOf(S, W)) - ShareOf(k, S, W)
<1>1. BytesOf(S \ {k}, V) = BytesOf(S \ {k}, W)
  BY BytesSame
<1>2. CASE k \in S
  <2>1. /\ IsFiniteSet(BytesOf(S \ {k}, W))
        /\ Cardinality(BytesOf(S, W)) = Cardinality(BytesOf(S \ {k}, W)) + W[k]
    BY <1>2, BytesSplit
  <2>2. Cardinality(BytesOf(S \ {k}, W)) \in Nat /\ W[k] \in Nat
    BY <1>2, <2>1, FS_CardinalityType
  <2> QED  BY <1>1, <1>2, <2>1, <2>2 DEF ShareOf
<1>3. CASE k \notin S
  <2>1. S \ {k} = S
    BY <1>3
  <2>2. IsFiniteSet(BytesOf(S, W))
    <3>1. CASE S = {}
      <4>1. BytesOf(S, W) = {}
        BY <3>1 DEF BytesOf
      <4> QED  BY <4>1, FS_EmptySet
    <3>2. CASE S # {}
      BY <3>2, BytesSplit
    <3> QED  BY <3>1, <3>2
  <2>3. Cardinality(BytesOf(S, W)) \in Nat
    BY <2>2, FS_CardinalityType
  <2> QED  BY <1>1, <1>3, <2>1, <2>2, <2>3 DEF ShareOf
<1> QED  BY <1>2, <1>3

\* An entry that is put weighs what it weighs, in place of what it replaces (Put's grown).
LEMMA BytesPut ==
  ASSUME NEW S, NEW W, NEW V, NEW k, IsFiniteSet(S), \A j \in S : W[j] \in Nat,
         V[k] \in Nat, \A j \in S \ {k} : W[j] = V[j]
  PROVE  /\ IsFiniteSet(BytesOf(S \cup {k}, V))
         /\ Cardinality(BytesOf(S \cup {k}, V)) =
              BytesWith(k, S, W, V)
<1> DEFINE T == S \cup {k}
<1>1. IsFiniteSet(T) /\ T \ {k} = S \ {k}
  BY FS_AddElement
<1>2. \A j \in T : V[j] \in Nat
  OBVIOUS
<1>3. /\ IsFiniteSet(BytesOf(T, V))
      /\ Cardinality(BytesOf(T, V)) = Cardinality(BytesOf(T \ {k}, V)) + V[k]
  BY <1>1, <1>2, BytesSplit
<1>4. /\ IsFiniteSet(BytesOf(S \ {k}, V))
      /\ Cardinality(BytesOf(S \ {k}, V)) =
           Cardinality(BytesOf(S, W)) - ShareOf(k, S, W)
  BY BytesTaken
<1> QED  BY <1>1, <1>3, <1>4 DEF BytesWith

\* The first rule that matches stays the first when one is added after it (may).
LEMMA MinIs ==
  ASSUME NEW S, NEW n \in S, S \subseteq Nat, \A m \in S : n <= m
  PROVE  Min(S) = n
<1>1. \A x \in S : (\A m \in S : x <= m) => x = n
  OBVIOUS
<1> QED  BY <1>1 DEF Min

LEMMA AddedLast ==
  ASSUME NEW rs \in Seq(Rules), NEW r \in Rules, NEW a, NEW k, NEW op,
         May(Append(rs, r), a, k, op)
  PROVE  May(rs, a, k, op)
<1> DEFINE more == Append(rs, r)
           M == Matching(rs, k)
           N == Matching(more, k)
<1>1. CASE M = {}
  BY <1>1 DEF May
<1>2. CASE M # {}
  <2>1. M \subseteq Nat
    BY DEF Matching
  <2>2. PICK n \in M : \A m \in M : n <= m
    BY <1>2, <2>1, LeastOf
  <2>3. DOMAIN rs = 1..Len(rs) /\ DOMAIN more = 1..(Len(rs) + 1)
    OBVIOUS
  <2>4. \A i \in DOMAIN rs : more[i] = rs[i]
    OBVIOUS
  <2>5. n \in N /\ N \subseteq Nat /\ \A m \in N : n <= m
    BY <2>2, <2>3, <2>4 DEF Matching
  <2>6. Min(M) = n
    BY <2>1, <2>2, MinIs
  <2>7. Min(N) = n
    BY <2>5, MinIs
  <2>8. n \in DOMAIN rs /\ more[n] = rs[n]
    BY <2>4 DEF Matching
  <2>9. N # {}
    BY <2>5
  <2> QED  BY <1>2, <2>6, <2>7, <2>8, <2>9 DEF May
<1> QED  BY <1>1, <1>2

\* The store a team starts with is empty, and no access has been made (NewStore).
LEMMA StoreStarts == StoreInit => StoreInv
<1> SUFFICES ASSUME StoreInit PROVE StoreInv
  OBVIOUS
<1>1. /\ data = [k \in Keys |-> None] /\ bytes = 0
      /\ access = [c \in Calls |-> NoAccess] /\ stage = [c \in Calls |-> "new"]
      /\ result = [c \in Calls |-> "none"] /\ given = [c \in Calls |-> None]
      /\ recorded = {}
  BY Zenon DEF StoreInit
<1>2. rules \in Seq(Rules) /\ Len(rules) <= MaxRules
  <2>1. PICK n \in 0..MaxRules : rules \in [1..n -> Rules]
    BY DEF StoreInit
  <2>2. n \in Nat /\ n <= MaxRules
    BY StoreAssumption
  <2> QED  BY <2>1, <2>2
<1>3. Entries = {}
  BY <1>1 DEF Entries
<1>4. BytesOf(Entries, Weight) = {}
  BY <1>3 DEF BytesOf
<1>5. StoreTypeOK
  BY <1>1, <1>2, StoreAssumption DEF StoreTypeOK, NoAccess, Reasons
<1>6. Accounting
  <2>1. bytes = 0 /\ MaxStoreBytes \in Nat /\ MaxStoreKeys \in Nat
    BY <1>1, StoreAssumption
  <2>2. Cardinality(Entries) = 0 /\ Cardinality(BytesOf(Entries, Weight)) = 0
    BY <1>3, <1>4, FS_EmptySet
  <2> QED  BY <2>1, <2>2 DEF Accounting
<1>7. OnlyPermitted
  BY <1>1, <1>3 DEF OnlyPermitted
<1>8. LastRuleNarrows
  BY <1>2, AddedLast DEF LastRuleNarrows, Narrows
<1>9. AccessInv
  <2>1. \A c \in Calls : stage[c] = "new" /\ result[c] = "none" /\ given[c] = None
    BY <1>1, Zenon
  <2>2. \A c \in Calls : stage[c] # "access"
    BY <2>1, Zenon
  <2> QED  BY <2>1, <2>2, Zenon DEF AccessInv
<1>10. EntryInv
  BY <1>3, FS_EmptySet DEF EntryInv
<1> QED  BY <1>5, <1>6, <1>7, <1>8, <1>9, <1>10 DEF StoreInv, StoreSafe

\* No step but Delete and Put changes what is held, and none changes what was put: the
\* count stands.
LEMMA StoreKept ==
  ASSUME StoreInv, data' = data, bytes' = bytes,
         \A k \in Entries : access'[data[k]] = access[data[k]]
  PROVE  Entries' = Entries /\ Accounting' /\ IsFiniteSet(Entries')
<1>1. Entries' = Entries
  BY DEF Entries
<1>2. \A k \in Entries : Weight'[k] = Weight[k]
  BY DEF Weight, Value, Entries
<1>3. BytesOf(Entries, Weight') = BytesOf(Entries, Weight)
  BY <1>2, BytesSame
<1>4. BytesOf(Entries, Weight)' = BytesOf(Entries', Weight')
  BY DEF BytesOf
<1> QED  BY <1>1, <1>3, <1>4 DEF StoreInv, StoreSafe, Accounting, EntryInv

\* The bytes of what is held are natural numbers, and what an access would weigh too.
LEMMA StoreWeights ==
  ASSUME StoreInv
  PROVE  /\ Weight \in [Keys -> Nat]
         /\ \A k \in Keys : Value(k) \in Nat /\ Weight[k] = KeyLen[k] + Value(k)
<1>1. ASSUME NEW k \in Keys
      PROVE  Value(k) \in Nat
  <2>1. CASE data[k] = None
    BY <2>1 DEF Value
  <2>2. CASE data[k] # None
    <3>1. data[k] \in Calls
      BY <2>2 DEF StoreInv, StoreSafe, StoreTypeOK
    <3>2. access[data[k]].size \in Sizes \/ access[data[k]].size = 0
      BY <3>1 DEF StoreInv, StoreSafe, StoreTypeOK, NoAccess
    <3>3. Sizes \subseteq Nat
      BY StoreAssumption
    <3>4. 0 \in Nat
      OBVIOUS
    <3>6. access[data[k]].size \in Nat
      BY <3>2, <3>3, <3>4, Zenon
    <3>5. Value(k) = access[data[k]].size
      BY <2>2 DEF Value
    <3> QED  BY <3>5, <3>6
  <2> QED  BY <2>1, <2>2
<1> QED  BY <1>1, StoreAssumption DEF Weight

\* An access that is made is one the store has not met (Serve).
LEMMA AccessKeeps ==
  ASSUME StoreInv, NEW c \in Calls, NEW op \in {"get", "put"}, NEW a \in Agents,
         NEW key \in Keys, NEW n \in Sizes, Access(c, op, a, key, n)
  PROVE  StoreInv'
<1> USE DEF StoreInv, StoreSafe
<1>1. /\ UNCHANGED <<rules, data, bytes, result, given, recorded>> /\ stage[c] = "new"
      /\ access' = [access EXCEPT ![c] = [op |-> op, by |-> a, key |-> key, size |-> n]]
      /\ stage' = [stage EXCEPT ![c] = "check"]
  BY DEF Access
<1>2. \A k \in Entries : data[k] \in Calls /\ data[k] # c
  BY <1>1 DEF StoreTypeOK, Entries, EntryInv
<1>3. \A d \in Calls : given[d] # None => given[d] \in Calls /\ given[d] # c /\ d # c
  BY <1>1 DEF StoreTypeOK, AccessInv
<1>4. \A d \in Calls \ {c} : access'[d] = access[d] /\ stage'[d] = stage[d]
  BY <1>1 DEF StoreTypeOK
<1>5. access'[c] = [op |-> op, by |-> a, key |-> key, size |-> n] /\ stage'[c] = "check"
  BY <1>1 DEF StoreTypeOK
<1>6. StoreTypeOK'
  BY <1>1 DEF StoreTypeOK
<1>7. Entries' = Entries /\ Accounting' /\ IsFiniteSet(Entries')
  BY <1>1, <1>2, <1>4, StoreKept
<1>8. OnlyPermitted'
  <2>1. ASSUME NEW k \in Entries
        PROVE  /\ access'[data'[k]].op = "put" /\ access'[data'[k]].key = k
               /\ result'[data'[k]] = "delivered"
               /\ May(rules', access'[data'[k]].by, k, "put")
    BY <1>1, <1>2, <1>4 DEF OnlyPermitted
  <2>2. ASSUME NEW d \in Calls, given'[d] # None
        PROVE  /\ access'[given'[d]].key = access'[d].key /\ result'[given'[d]] = "delivered"
               /\ May(rules', access'[given'[d]].by, access'[d].key, "put")
               /\ May(rules', access'[d].by, access'[d].key, "get")
    BY <1>1, <1>3, <1>4, <2>2 DEF OnlyPermitted
  <2> QED  BY <1>7, <2>1, <2>2 DEF OnlyPermitted
<1>9. LastRuleNarrows'
  BY <1>1 DEF LastRuleNarrows, Narrows, May
<1>10. AccessInv'
  <2> SUFFICES ASSUME NEW d \in Calls
               PROVE  /\ stage'[d] = "new" \/ access'[d] # NoAccess
                      /\ stage'[d] \in {"new", "check", "access"} => result'[d] = "none" /\ given'[d] = None
                      /\ stage'[d] = "access" => Refusal(d)' = "none"
                      /\ given'[d] # None => access'[d].op = "get" /\ stage'[given'[d]] \in {"record", "done"}
    BY DEF AccessInv
  <2>1. CASE d = c
    BY <1>1, <1>3, <1>5, <2>1 DEF AccessInv, NoAccess
  <2>2. CASE d # c
    <3>1. Refusal(d)' = Refusal(d)
      BY <1>1, <1>4, <2>2 DEF Refusal, May
    <3> QED  BY <1>1, <1>3, <1>4, <2>2, <3>1 DEF AccessInv
  <2> QED  BY <2>1, <2>2
<1>11. EntryInv'
  BY <1>1, <1>2, <1>4, <1>7 DEF EntryInv
<1> QED  BY <1>6, <1>7, <1>8, <1>9, <1>10, <1>11

\* What the checks before the mutex come to is the access's refusal, and nothing else
\* changes (Get, Put).
LEMMA CheckKeeps ==
  ASSUME StoreInv, NEW c \in Calls, Check(c)
  PROVE  StoreInv'
<1> USE DEF StoreInv, StoreSafe
<1>1. UNCHANGED <<rules, data, bytes, access, given, recorded>> /\ stage[c] = "check"
  BY DEF Check
<1>2. \/ Refusal(c) = "none" /\ stage' = [stage EXCEPT ![c] = "access"] /\ result' = result
      \/ /\ Refusal(c) # "none" /\ stage' = [stage EXCEPT ![c] = "record"]
         /\ result' = [result EXCEPT ![c] = Refusal(c)]
  BY DEF Check, Move, Settle
<1>3. Refusal(c) \in Reasons
  BY DEF Refusal, Reasons
<1>4. \A k \in Entries : data[k] \in Calls /\ data[k] # c
  BY <1>1 DEF StoreTypeOK, Entries, EntryInv
<1>5. \A d \in Calls : given[d] # None => given[d] \in Calls /\ given[d] # c /\ d # c
  BY <1>1 DEF StoreTypeOK, AccessInv
<1>6. \A d \in Calls \ {c} : stage'[d] = stage[d] /\ result'[d] = result[d]
  BY <1>2 DEF StoreTypeOK
<1>7. \/ stage'[c] = "access" /\ result'[c] = result[c] /\ Refusal(c) = "none"
      \/ stage'[c] = "record"
  BY <1>2 DEF StoreTypeOK
<1>8. \A d \in Calls : Refusal(d)' = Refusal(d)
  BY <1>1 DEF Refusal, May
<1>9. StoreTypeOK'
  BY <1>1, <1>2, <1>3 DEF StoreTypeOK
<1>10. Entries' = Entries /\ Accounting' /\ IsFiniteSet(Entries')
  BY <1>1, StoreKept
<1>11. OnlyPermitted'
  <2>1. ASSUME NEW k \in Entries
        PROVE  /\ access'[data'[k]].op = "put" /\ access'[data'[k]].key = k
               /\ result'[data'[k]] = "delivered"
               /\ May(rules', access'[data'[k]].by, k, "put")
    BY <1>1, <1>4, <1>6 DEF OnlyPermitted
  <2>2. ASSUME NEW d \in Calls, given'[d] # None
        PROVE  /\ access'[given'[d]].key = access'[d].key /\ result'[given'[d]] = "delivered"
               /\ May(rules', access'[given'[d]].by, access'[d].key, "put")
               /\ May(rules', access'[d].by, access'[d].key, "get")
    BY <1>1, <1>5, <1>6, <2>2 DEF OnlyPermitted
  <2> QED  BY <1>10, <2>1, <2>2 DEF OnlyPermitted
<1>12. LastRuleNarrows'
  BY <1>1 DEF LastRuleNarrows, Narrows, May
<1>13. AccessInv'
  <2> SUFFICES ASSUME NEW d \in Calls
               PROVE  /\ stage'[d] = "new" \/ access'[d] # NoAccess
                      /\ stage'[d] \in {"new", "check", "access"} => result'[d] = "none" /\ given'[d] = None
                      /\ stage'[d] = "access" => Refusal(d)' = "none"
                      /\ given'[d] # None => access'[d].op = "get" /\ stage'[given'[d]] \in {"record", "done"}
    BY DEF AccessInv
  <2>1. CASE d = c
    BY <1>1, <1>5, <1>7, <1>8, <2>1 DEF AccessInv
  <2>2. CASE d # c
    BY <1>1, <1>5, <1>6, <1>8, <2>2 DEF AccessInv
  <2> QED  BY <2>1, <2>2
<1>14. EntryInv'
  BY <1>1, <1>4, <1>6, <1>10 DEF EntryInv
<1> QED  BY <1>9, <1>10, <1>11, <1>12, <1>13, <1>14

\* Recording an access and answering it change what neither the store nor a reader
\* holds (record).
LEMMA RecordKeeps ==
  ASSUME StoreInv, NEW c \in Calls, RecordAccess(c)
  PROVE  StoreInv'
<1> USE DEF StoreInv, StoreSafe
<1>1. /\ UNCHANGED <<rules, data, bytes, access, result, given>> /\ stage[c] = "record"
      /\ stage' = [stage EXCEPT ![c] = "done"]
      /\ recorded' = recorded \cup {[of |-> c, outcome |-> result[c]]}
  BY DEF RecordAccess, Move
<1>2. \A d \in Calls : Refusal(d)' = Refusal(d)
  BY <1>1 DEF Refusal, May
<1>3. StoreTypeOK'
  BY <1>1 DEF StoreTypeOK
<1>4. Entries' = Entries /\ Accounting' /\ IsFiniteSet(Entries')
  BY <1>1, StoreKept
<1>5. OnlyPermitted'
  BY <1>1, <1>4 DEF OnlyPermitted, May
<1>6. LastRuleNarrows'
  BY <1>1 DEF LastRuleNarrows, Narrows, May
<1>7. \A d \in Calls : stage[d] \in {"record", "done"} => stage'[d] \in {"record", "done"}
  BY <1>1 DEF StoreTypeOK
<1>8. \A d \in Calls : stage'[d] = stage[d] \/ (stage'[d] = "done" /\ stage[d] = "record")
  BY <1>1 DEF StoreTypeOK
<1>9. AccessInv'
  BY <1>1, <1>2, <1>7, <1>8 DEF AccessInv, StoreTypeOK
<1>10. EntryInv'
  BY <1>1, <1>4, <1>7 DEF EntryInv, StoreTypeOK, Entries
<1> QED  BY <1>3, <1>4, <1>5, <1>6, <1>9, <1>10

\* An access that reaches the store was permitted, and has put and been given nothing.
LEMMA Reaching ==
  ASSUME StoreInv, NEW c \in Calls, stage[c] = "access"
  PROVE  /\ access[c].op \in {"get", "put"} /\ access[c].key \in Keys /\ access[c].size \in Nat
         /\ May(rules, access[c].by, access[c].key, access[c].op)
         /\ \A k \in Entries : data[k] \in Calls /\ data[k] # c
         /\ \A d \in Calls : given[d] # None => given[d] \in Calls /\ given[d] # c /\ d # c
<1> USE DEF StoreInv, StoreSafe
<1>1. access[c] # NoAccess /\ Refusal(c) = "none" /\ given[c] = None
  BY DEF AccessInv
<1>2. access[c] \in [op : {"get", "put"}, by : Agents, key : Keys, size : Sizes]
  BY <1>1 DEF StoreTypeOK
<1>3. access[c].size \in Nat
  BY <1>2, StoreAssumption
<1>4. May(rules, access[c].by, access[c].key, access[c].op)
  BY <1>1 DEF Refusal
<1>5. \A k \in Entries : data[k] \in Calls /\ data[k] # c
  BY DEF StoreTypeOK, Entries, EntryInv
<1>6. \A d \in Calls : given[d] # None => given[d] \in Calls /\ given[d] # c /\ d # c
  BY <1>1 DEF StoreTypeOK, AccessInv
<1> QED  BY <1>2, <1>3, <1>4, <1>5, <1>6

\* A step of an access that reached the store, which leaves the other accesses alone,
\* leaves them as they were.
LEMMA OthersKeep ==
  ASSUME StoreInv, NEW c \in Calls, stage[c] = "access",
         UNCHANGED <<rules, access>>, stage' = [stage EXCEPT ![c] = "record"],
         \A d \in Calls \ {c} : result'[d] = result[d] /\ given'[d] = given[d],
         given'[c] # None =>
           access[c].op = "get" /\ access[c].key \in Entries /\ given'[c] = data[access[c].key]
  PROVE  /\ LastRuleNarrows' /\ AccessInv'
         /\ \A d \in Calls : given'[d] # None =>
              /\ access'[given'[d]].key = access'[d].key /\ result'[given'[d]] = "delivered"
              /\ May(rules', access'[given'[d]].by, access'[d].key, "put")
              /\ May(rules', access'[d].by, access'[d].key, "get")
<1>1. /\ May(rules, access[c].by, access[c].key, access[c].op)
      /\ \A k \in Entries : data[k] \in Calls /\ data[k] # c
      /\ \A d \in Calls : given[d] # None => given[d] \in Calls /\ given[d] # c /\ d # c
  BY Reaching
<1> USE DEF StoreInv, StoreSafe
<1>2. LastRuleNarrows'
  BY DEF LastRuleNarrows, Narrows, May
<1>3. stage'[c] = "record" /\ \A d \in Calls \ {c} : stage'[d] = stage[d]
  BY DEF StoreTypeOK
<1>4. \A d \in Calls : Refusal(d)' = Refusal(d)
  BY DEF Refusal, May
<1>5. given'[c] # None =>
        /\ given'[c] \in Calls \ {c} /\ stage[given'[c]] \in {"record", "done"}
        /\ access[given'[c]].key = access[c].key /\ result[given'[c]] = "delivered"
        /\ May(rules, access[given'[c]].by, access[c].key, "put")
  BY <1>1 DEF OnlyPermitted, EntryInv
<1>6. AccessInv'
  <2> SUFFICES ASSUME NEW d \in Calls
               PROVE  /\ stage'[d] = "new" \/ access'[d] # NoAccess
                      /\ stage'[d] \in {"new", "check", "access"} => result'[d] = "none" /\ given'[d] = None
                      /\ stage'[d] = "access" => Refusal(d)' = "none"
                      /\ given'[d] # None => access'[d].op = "get" /\ stage'[given'[d]] \in {"record", "done"}
    BY DEF AccessInv
  <2>1. CASE d = c
    BY <1>3, <1>5, <2>1 DEF AccessInv
  <2>2. CASE d # c
    BY <1>1, <1>3, <1>4, <2>2 DEF AccessInv
  <2> QED  BY <2>1, <2>2
<1>7. ASSUME NEW d \in Calls, given'[d] # None
      PROVE  /\ access'[given'[d]].key = access'[d].key /\ result'[given'[d]] = "delivered"
             /\ May(rules', access'[given'[d]].by, access'[d].key, "put")
             /\ May(rules', access'[d].by, access'[d].key, "get")
  <2>1. CASE d = c
    BY <1>1, <1>5, <1>7, <2>1
  <2>2. CASE d # c
    BY <1>1, <1>7, <2>2 DEF OnlyPermitted
  <2> QED  BY <2>1, <2>2
<1> QED  BY <1>2, <1>6, <1>7

\* A reader is given what an agent that may write the key put there (Get).
LEMMA GetKeeps ==
  ASSUME StoreInv, NEW c \in Calls, Get(c)
  PROVE  StoreInv'
<1> DEFINE key == access[c].key
<1>1. /\ stage[c] = "access" /\ access[c].op = "get"
      /\ stage' = [stage EXCEPT ![c] = "record"] /\ given' = [given EXCEPT ![c] = data[key]]
      /\ result' = [result EXCEPT ![c] = IF key \in Entries THEN "delivered" ELSE "no_such_key"]
      /\ UNCHANGED <<rules, data, bytes, access, recorded>>
  BY DEF Get, Move, Settle
<1>2. /\ key \in Keys
      /\ \A k \in Entries : data[k] \in Calls /\ data[k] # c
  BY <1>1, Reaching
<1>3. Entries' = Entries /\ Accounting' /\ IsFiniteSet(Entries')
  BY <1>1, StoreKept
<1> USE DEF StoreInv, StoreSafe
<1>4. StoreTypeOK'
  BY <1>1, <1>2 DEF StoreTypeOK, Reasons
<1>5. \A d \in Calls \ {c} : result'[d] = result[d] /\ given'[d] = given[d] /\ stage'[d] = stage[d]
  BY <1>1 DEF StoreTypeOK
<1>6. given'[c] = data[key]
  BY <1>1 DEF StoreTypeOK
<1>7. given'[c] # None => key \in Entries
  BY <1>2, <1>6 DEF Entries
<1>8. /\ LastRuleNarrows' /\ AccessInv'
      /\ \A d \in Calls : given'[d] # None =>
           /\ access'[given'[d]].key = access'[d].key /\ result'[given'[d]] = "delivered"
           /\ May(rules', access'[given'[d]].by, access'[d].key, "put")
           /\ May(rules', access'[d].by, access'[d].key, "get")
  BY <1>1, <1>5, <1>6, <1>7, OthersKeep
<1>9. OnlyPermitted'
  <2>1. ASSUME NEW k \in Entries
        PROVE  /\ access'[data'[k]].op = "put" /\ access'[data'[k]].key = k
               /\ result'[data'[k]] = "delivered"
               /\ May(rules', access'[data'[k]].by, k, "put")
    BY <1>1, <1>2, <1>5 DEF OnlyPermitted
  <2> QED  BY <1>3, <1>8, <2>1 DEF OnlyPermitted
<1>10. EntryInv'
  BY <1>1, <1>2, <1>3, <1>5 DEF EntryInv
<1> QED  BY <1>3, <1>4, <1>8, <1>9, <1>10

\* A key that is removed takes all it cost with it, whoever removes it (Put of nothing).
LEMMA DeleteKeeps ==
  ASSUME StoreInv, NEW c \in Calls, Delete(c)
  PROVE  StoreInv'
<1> DEFINE key == access[c].key
<1>1. /\ stage[c] = "access" /\ access[c].op = "put"
      /\ stage' = [stage EXCEPT ![c] = "record"] /\ data' = [data EXCEPT ![key] = None]
      /\ bytes' = IF key \in Entries THEN bytes - (Value(key) + KeyLen[key]) ELSE bytes
      /\ result' = [result EXCEPT ![c] = "delivered"]
      /\ UNCHANGED <<rules, access, given, recorded>>
  BY DEF Delete, Move, Settle
<1>2. /\ key \in Keys
      /\ \A k \in Entries : data[k] \in Calls /\ data[k] # c
      /\ \A d \in Calls : given[d] # None => given[d] \in Calls /\ given[d] # c /\ d # c
  BY <1>1, Reaching
<1>3. Weight \in [Keys -> Nat] /\ \A k \in Keys : Value(k) \in Nat /\ Weight[k] = KeyLen[k] + Value(k)
  BY StoreWeights
<1> USE DEF StoreInv, StoreSafe
<1>4. \A d \in Calls \ {c} : result'[d] = result[d] /\ stage'[d] = stage[d]
  BY <1>1 DEF StoreTypeOK
<1>5. Entries' = Entries \ {key} /\ \A k \in Entries' : data'[k] = data[k]
  BY <1>1, <1>2 DEF StoreTypeOK, Entries
<1>6. \A j \in Entries \ {key} : Weight[j] = Weight'[j]
  BY <1>1, <1>5 DEF Weight, Value, Entries
<1>7. IsFiniteSet(Entries) /\ \A j \in Entries : Weight[j] \in Nat
  BY <1>3 DEF EntryInv, Entries
<1>8. /\ IsFiniteSet(BytesOf(Entries \ {key}, Weight'))
      /\ Cardinality(BytesOf(Entries \ {key}, Weight')) =
           Cardinality(BytesOf(Entries, Weight)) - ShareOf(key, Entries, Weight)
  BY <1>6, <1>7, BytesTaken
<1>9. bytes' = Cardinality(BytesOf(Entries', Weight')) /\ bytes' \in Nat /\ bytes' <= bytes
  <2>1. bytes \in Nat /\ bytes = Cardinality(BytesOf(Entries, Weight))
    BY DEF StoreTypeOK, Accounting
  <2>2. KeyLen[key] \in Nat /\ Value(key) \in Nat /\ Weight[key] = KeyLen[key] + Value(key)
    BY <1>2, <1>3, StoreAssumption
  <2>3. bytes' = bytes - ShareOf(key, Entries, Weight)
    BY <1>1, <2>1, <2>2 DEF ShareOf
  <2>4. Cardinality(BytesOf(Entries \ {key}, Weight')) \in Nat
    BY <1>8, FS_CardinalityType
  <2>5. ShareOf(key, Entries, Weight) \in Nat
    BY <2>2 DEF ShareOf
  <2> QED  BY <1>5, <1>8, <2>1, <2>3, <2>4, <2>5
<1>10. StoreTypeOK'
  BY <1>1, <1>2, <1>9 DEF StoreTypeOK, Reasons
<1>11. IsFiniteSet(Entries') /\ Cardinality(Entries') <= Cardinality(Entries)
  BY <1>5, <1>7, FS_Subset
<1>12. Accounting'
  <2>1. bytes' <= MaxStoreBytes
    BY <1>9, StoreAssumption DEF StoreTypeOK, Accounting
  <2>2. Cardinality(Entries') <= MaxStoreKeys
    <3>1. Cardinality(Entries) \in Nat /\ Cardinality(Entries') \in Nat
      BY <1>7, <1>11, FS_CardinalityType
    <3>2. Cardinality(Entries) <= MaxStoreKeys /\ MaxStoreKeys \in Nat
      BY StoreAssumption DEF Accounting
    <3> QED  BY <1>11, <3>1, <3>2
  <2>3. BytesOf(Entries, Weight)' = BytesOf(Entries', Weight')
    BY DEF BytesOf
  <2> QED  BY <1>9, <2>1, <2>2, <2>3 DEF Accounting
<1>13. /\ LastRuleNarrows' /\ AccessInv'
       /\ \A d \in Calls : given'[d] # None =>
            /\ access'[given'[d]].key = access'[d].key /\ result'[given'[d]] = "delivered"
            /\ May(rules', access'[given'[d]].by, access'[d].key, "put")
            /\ May(rules', access'[d].by, access'[d].key, "get")
  BY <1>1, <1>2, <1>4, OthersKeep
<1>14. OnlyPermitted'
  <2>1. ASSUME NEW k \in Entries'
        PROVE  /\ access'[data'[k]].op = "put" /\ access'[data'[k]].key = k
               /\ result'[data'[k]] = "delivered"
               /\ May(rules', access'[data'[k]].by, k, "put")
    BY <1>1, <1>2, <1>4, <1>5 DEF OnlyPermitted
  <2> QED  BY <1>13, <2>1 DEF OnlyPermitted
<1>15. EntryInv'
  BY <1>1, <1>2, <1>4, <1>5, <1>11 DEF EntryInv
<1> QED  BY <1>10, <1>12, <1>13, <1>14, <1>15

\* A value is put in place of the one it replaces only when both limits allow it, and its
\* bytes and its key's are counted once (Put).
LEMMA PutKeeps ==
  ASSUME StoreInv, NEW c \in Calls, Put(c)
  PROVE  StoreInv'
<1> DEFINE key == access[c].key
           size == access[c].size
<1>1. /\ stage[c] = "access" /\ access[c].op = "put" /\ size > 0
      /\ stage' = [stage EXCEPT ![c] = "record"]
      /\ UNCHANGED <<rules, access, given, recorded>>
  BY DEF Put, Move
<1>2. /\ key \in Keys /\ size \in Nat /\ May(rules, access[c].by, key, "put")
      /\ \A k \in Entries : data[k] \in Calls /\ data[k] # c
      /\ \A d \in Calls : given[d] # None => given[d] \in Calls /\ given[d] # c /\ d # c
  BY <1>1, Reaching
<1>3. \E what \in Reasons : result' = [result EXCEPT ![c] = what]
  BY DEF Put, Settle, Full, Reasons
<1>4. \A d \in Calls \ {c} : result'[d] = result[d] /\ stage'[d] = stage[d]
  BY <1>1, <1>3 DEF StoreInv, StoreSafe, StoreTypeOK
<1>5. stage'[c] = "record"
  BY <1>1 DEF StoreInv, StoreSafe, StoreTypeOK
<1>6. /\ LastRuleNarrows' /\ AccessInv'
      /\ \A d \in Calls : given'[d] # None =>
           /\ access'[given'[d]].key = access'[d].key /\ result'[given'[d]] = "delivered"
           /\ May(rules', access'[given'[d]].by, access'[d].key, "put")
           /\ May(rules', access'[d].by, access'[d].key, "get")
  BY <1>1, <1>2, <1>4, OthersKeep
<1>7. CASE Full(c) # "none"
  <2>1. UNCHANGED <<data, bytes>>
    BY <1>7 DEF Put
  <2>2. Entries' = Entries /\ Accounting' /\ IsFiniteSet(Entries')
    BY <1>1, <2>1, StoreKept
  <2> USE DEF StoreInv, StoreSafe
  <2>3. StoreTypeOK'
    BY <1>1, <1>3, <2>1 DEF StoreTypeOK
  <2>4. ASSUME NEW k \in Entries
        PROVE  /\ access'[data'[k]].op = "put" /\ access'[data'[k]].key = k
               /\ result'[data'[k]] = "delivered"
               /\ May(rules', access'[data'[k]].by, k, "put")
    BY <1>1, <1>2, <1>4, <2>1 DEF OnlyPermitted
  <2>5. OnlyPermitted'
    BY <1>6, <2>2, <2>4 DEF OnlyPermitted
  <2>6. EntryInv'
    BY <1>1, <1>2, <1>4, <2>1, <2>2 DEF EntryInv
  <2> QED  BY <1>6, <2>2, <2>3, <2>5, <2>6
<1>8. CASE Full(c) = "none"
  <2>1. /\ data' = [data EXCEPT ![key] = c] /\ bytes' = Grown(c)
        /\ result' = [result EXCEPT ![c] = "delivered"]
    BY <1>8 DEF Put, Settle
  <2>2. Weight \in [Keys -> Nat] /\ \A k \in Keys : Value(k) \in Nat /\ Weight[k] = KeyLen[k] + Value(k)
    BY StoreWeights
  <2>3. (key \notin Entries => Cardinality(Entries) < MaxStoreKeys) /\ Grown(c) <= MaxStoreBytes
    <3>1. Cardinality(Entries) \in Nat /\ MaxStoreKeys \in Nat /\ MaxStoreBytes \in Nat
      BY FS_CardinalityType, StoreAssumption DEF StoreInv, EntryInv
    <3>2. Grown(c) \in Int
      <4>1. bytes \in Nat /\ Value(key) \in Nat /\ KeyLen[key] \in Nat
        BY <1>2, <2>2, StoreAssumption DEF StoreInv, StoreSafe, StoreTypeOK
      <4> QED  BY <1>2, <4>1 DEF Grown
    <3> QED  BY <1>8, <3>1, <3>2 DEF Full
  <2> USE DEF StoreInv, StoreSafe
  <2>4. /\ Entries' = Entries \cup {key} /\ data'[key] = c
        /\ \A k \in Entries \ {key} : data'[k] = data[k]
    BY <1>2, <2>1, StoreAssumption DEF StoreTypeOK, Entries
  <2>5. \A j \in Entries \ {key} : Weight[j] = Weight'[j]
    BY <1>1, <2>4 DEF Weight, Value, Entries
  <2>6. Weight'[key] = KeyLen[key] + size
    BY <1>1, <1>2, <2>4, StoreAssumption DEF Weight, Value
  <2>7. IsFiniteSet(Entries) /\ \A j \in Entries : Weight[j] \in Nat
    BY <2>2 DEF EntryInv, Entries
  <2>8. Weight'[key] \in Nat
    BY <1>2, <2>6, StoreAssumption
  <2>9. /\ IsFiniteSet(BytesOf(Entries \cup {key}, Weight'))
        /\ Cardinality(BytesOf(Entries \cup {key}, Weight')) =
             BytesWith(key, Entries, Weight, Weight')
    BY <2>5, <2>7, <2>8, BytesPut
  <2>10. bytes' = Cardinality(BytesOf(Entries', Weight')) /\ bytes' \in Nat
    <3>1. bytes \in Nat /\ bytes = Cardinality(BytesOf(Entries, Weight))
      BY DEF StoreTypeOK, Accounting
    <3>2. KeyLen[key] \in Nat /\ Value(key) \in Nat /\ Weight[key] = KeyLen[key] + Value(key)
      BY <1>2, <2>2, StoreAssumption
    <3>3. key \notin Entries => Value(key) = 0
      BY <1>2 DEF Entries, Value
    <3>4. Grown(c) = bytes - ShareOf(key, Entries, Weight) + Weight'[key]
      <4>1. CASE key \in Entries
        BY <1>2, <2>6, <3>1, <3>2, <4>1 DEF Grown, ShareOf
      <4>2. CASE key \notin Entries
        BY <1>2, <2>6, <3>1, <3>2, <3>3, <4>2 DEF Grown, ShareOf
      <4> QED  BY <4>1, <4>2
    <3>5. Cardinality(BytesOf(Entries \cup {key}, Weight')) \in Nat
      BY <2>9, FS_CardinalityType
    <3> QED  BY <2>1, <2>4, <2>9, <3>1, <3>4, <3>5 DEF BytesWith
  <2>11. StoreTypeOK'
    BY <1>1, <1>2, <2>1, <2>10 DEF StoreTypeOK, Reasons
  <2>12. /\ IsFiniteSet(Entries')
         /\ Cardinality(Entries') = IF key \in Entries THEN Cardinality(Entries)
                                                      ELSE Cardinality(Entries) + 1
    BY <2>4, <2>7, FS_AddElement
  <2>13. Accounting'
    <3>1. Cardinality(Entries) \in Nat /\ Cardinality(Entries) <= MaxStoreKeys
      BY <2>7, FS_CardinalityType DEF Accounting
    <3>2. Cardinality(Entries') <= MaxStoreKeys
      BY <2>3, <2>12, <3>1, StoreAssumption
    <3>3. BytesOf(Entries, Weight)' = BytesOf(Entries', Weight')
      BY DEF BytesOf
    <3> QED  BY <2>1, <2>3, <2>10, <3>2, <3>3 DEF Accounting
  <2>14. result'[c] = "delivered"
    BY <2>1 DEF StoreTypeOK
  <2>15. OnlyPermitted'
    <3>1. ASSUME NEW k \in Entries'
          PROVE  /\ access'[data'[k]].op = "put" /\ access'[data'[k]].key = k
                 /\ result'[data'[k]] = "delivered"
                 /\ May(rules', access'[data'[k]].by, k, "put")
      <4>1. CASE k = key
        BY <1>1, <1>2, <2>4, <2>14, <4>1
      <4>2. CASE k # key
        BY <1>1, <1>2, <1>4, <2>4, <4>2 DEF OnlyPermitted
      <4> QED  BY <4>1, <4>2
    <3> QED  BY <1>6, <3>1 DEF OnlyPermitted
  <2>16. EntryInv'
    BY <1>1, <1>2, <1>4, <1>5, <2>4, <2>12 DEF EntryInv
  <2> QED  BY <1>6, <2>11, <2>13, <2>15, <2>16
<1> QED  BY <1>7, <1>8

\* The inductive invariant of the store: however its accesses interleave, and whatever the
\* rules, the count is exact and within the limits, and only what was permitted is held
\* or given (Get, Put).
LEMMA StoreInductive == StoreSpec => []StoreInv
<1>1. StoreInv /\ [StoreNext]_storeVars => StoreInv'
  <2> SUFFICES ASSUME StoreInv, [StoreNext]_storeVars PROVE StoreInv'
    OBVIOUS
  <2>1. CASE UNCHANGED storeVars
    <3>1. UNCHANGED <<rules, data, bytes, access, stage, result, given, recorded>>
      BY <2>1 DEF storeVars
    <3> USE DEF StoreInv, StoreSafe
    <3>2. Entries' = Entries /\ Accounting' /\ IsFiniteSet(Entries')
      BY <3>1, StoreKept
    <3>3. StoreTypeOK' /\ OnlyPermitted' /\ EntryInv'
      BY <3>1, <3>2 DEF StoreTypeOK, OnlyPermitted, EntryInv, May
    <3>4. LastRuleNarrows' /\ AccessInv'
      BY <3>1 DEF LastRuleNarrows, Narrows, AccessInv, Refusal, May
    <3> QED  BY <3>2, <3>3, <3>4
  <2>2. CASE StoreNext
    BY <2>2, AccessKeeps, CheckKeeps, GetKeeps, DeleteKeeps, PutKeeps, RecordKeeps DEF StoreNext
  <2> QED  BY <2>1, <2>2
<1> QED  BY <1>1, StoreStarts, PTL DEF StoreSpec

\* The store's count is exact and within its limits, and only what the rules permit is
\* kept or given, for every team, every set of rules and every limit (Get, Put, may).
THEOREM StoreIsSafe == StoreSpec => []StoreSafe
<1>1. StoreInv => StoreSafe
  BY DEF StoreInv
<1> QED  BY <1>1, StoreInductive, PTL
=============================================================================
