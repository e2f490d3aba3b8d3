------------------------------ MODULE Exchange ------------------------------
(***************************************************************************)
(* What a team promises of a question and its answer, without mailboxes,   *)
(* locks, timers or topology: a question is settled once, by one reply, by *)
(* its timeout or by never reaching anybody, and what the asker and the    *)
(* repliers are told is how it was settled.                                *)
(***************************************************************************)
CONSTANTS Calls, None
VARIABLES fate,   \* of each call that is a question: how it was settled
          answer, \* the reply that answered it
          told,   \* what each asking or replying call was told
          got     \* the answer an asking call was given

xvars == <<fate, answer, told, got>>

Replies(r) == \E q \in Calls : answer[q] = r

XInit ==
  /\ fate = [q \in Calls |-> "unasked"]
  /\ answer = [q \in Calls |-> None]
  /\ told = [c \in Calls |-> "nothing"]
  /\ got = [q \in Calls |-> None]

Settle(q, how) == fate[q] = "open" /\ fate' = [fate EXCEPT ![q] = how]
Tell(c, what)  == told[c] = "nothing" /\ told' = [told EXCEPT ![c] = what]

Ask(q) ==
  /\ fate[q] = "unasked" /\ told[q] = "nothing"
  /\ fate' = [fate EXCEPT ![q] = "open"]
  /\ UNCHANGED <<answer, told, got>>

\* A call that asks does not answer, and one that has been told something
\* answers nothing more.
Answer(q, r) ==
  /\ Settle(q, "answered")
  /\ fate[r] = "unasked" /\ told[r] = "nothing" /\ ~Replies(r)
  /\ answer' = [answer EXCEPT ![q] = r]
  /\ UNCHANGED <<told, got>>

Expire(q) ==
  /\ Settle(q, "expired")
  /\ UNCHANGED <<answer, told, got>>

\* Refused by the topology or by a full mailbox: the asker hears so at once.
Undelivered(q) ==
  /\ Settle(q, "undelivered")
  /\ Tell(q, "refused")
  /\ UNCHANGED <<answer, got>>

TellAsker(q) ==
  \/ /\ fate[q] = "expired" /\ Tell(q, "timeout")
     /\ UNCHANGED <<fate, answer, got>>
  \/ /\ fate[q] = "answered" /\ Tell(q, "ok")
     /\ got' = [got EXCEPT ![q] = answer[q]]
     /\ UNCHANGED <<fate, answer>>

TellReplier(r) ==
  /\ fate[r] = "unasked"
  /\ Tell(r, IF Replies(r) THEN "ok" ELSE "refused")
  /\ UNCHANGED <<fate, answer, got>>

XNext ==
  \E q \in Calls :
    \/ Ask(q) \/ Expire(q) \/ Undelivered(q) \/ TellAsker(q) \/ TellReplier(q)
    \/ \E r \in Calls : Answer(q, r)

Spec == XInit /\ [][XNext]_xvars
=============================================================================
