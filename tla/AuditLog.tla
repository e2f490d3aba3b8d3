------------------------------ MODULE AuditLog ------------------------------
(***************************************************************************)
(* What a session's flight recorder promises, without files, locks, hashes *)
(* or processes: a log that only grows at its end, whose content can be    *)
(* redacted but whose events cannot be removed or reordered, on which a    *)
(* writer that has stopped says so once, and which nobody extends after a  *)
(* write that was cut short.                                               *)
(***************************************************************************)
EXTENDS Sequences, Naturals

CONSTANTS Writers,  \* those who record
          Eraser    \* who redacts
VARIABLES log,      \* the events: who, what type, whether the content is there
          stopped,  \* writers that recorded all they ever will, but an epitaph
          sealed    \* the last write was cut short

avars == <<log, stopped, sealed>>

Event(w, t, x) == [by |-> w, type |-> t, text |-> x]
Recorded(w) ==
  {Event(w, "data", "content"), Event(w, "end", "none")}
HasEpitaph(w) == \E i \in DOMAIN log : log[i].by = w /\ log[i].type = "epitaph"

AInit == log = <<>> /\ stopped = {} /\ sealed = FALSE

Extends(e) == ~sealed /\ log' = Append(log, e)

\* An event reaches the log whole, or all but whole: then it is the last.
Record(w) ==
  /\ w \notin stopped
  /\ \E e \in Recorded(w) : Extends(e)
  /\ sealed' \in BOOLEAN
  /\ stopped' \in IF sealed' THEN {stopped, stopped \cup {w}} ELSE {stopped}

\* The writer's last word.
LastWord(w) ==
  /\ w \in stopped /\ ~HasEpitaph(w)
  /\ Extends(Event(w, "epitaph", "none"))
  /\ sealed' \in BOOLEAN
  /\ UNCHANGED stopped

\* The writer's recording fails, and may cut a line short doing so; or it dies
\* in the middle of one.
Stop(w) ==
  /\ stopped' = stopped \cup {w}
  /\ sealed' \in {sealed, TRUE}
  /\ UNCHANGED log

Seal ==
  /\ sealed' = TRUE
  /\ UNCHANGED <<log, stopped>>

Erase ==
  /\ ~sealed
  /\ \E i \in DOMAIN log : log[i].text = "content"
  /\ log' = Append([i \in DOMAIN log |->
                      [log[i] EXCEPT !.text = IF @ = "content" THEN "erased" ELSE @]],
                   Event(Eraser, "erasure", "none"))
  /\ UNCHANGED <<stopped, sealed>>

ANext ==
  \/ \E w \in Writers : Record(w) \/ LastWord(w) \/ Stop(w)
  \/ Seal \/ Erase

Spec == AInit /\ [][ANext]_avars
=============================================================================
