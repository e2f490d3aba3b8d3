--------------------------- MODULE FlightRecorder ---------------------------
(***************************************************************************)
(* The flight recorder of one session: events.jsonl and its anchor         *)
(* head.json, the Recorder handles that several processes hold open over   *)
(* them, Erase, and a reader that takes the chain and its anchor as a pair *)
(* (internal/recorder/recorder.go and erase.go).                           *)
(*                                                                         *)
(* A Recorder handle is opened at most once and is driven under its own    *)
(* mutex, so it is a sequential process: a reopened recorder is another    *)
(* member of Recorders.  Between processes the only exclusion is the flock *)
(* on the file, so every step between two system calls is an action of its *)
(* own, and a process may die between any two.                             *)
(***************************************************************************)
EXTENDS Chain, FiniteSets

CONSTANTS
  Recorders,    \* the handles processes may open on the session
  Eraser,       \* the process that erases
  Nobody,       \* no holder of the exclusive lock
  LineSize,     \* bytes of an appended line
  RedactedSize, \* bytes of the same line once its content is a fingerprint
  ErasureSize,  \* bytes of the session.erasure line
  MaxLines,     \* bound: no Append begins at this length
  MaxErasures,  \* bound: rewrites of the chain
  MaxFaults     \* bound: system calls that fail and erasures that are killed

ASSUME ConstantsAssumption ==
  /\ Eraser \notin Recorders /\ Nobody \notin Recorders /\ Eraser # Nobody
  /\ LineSize \in Nat /\ LineSize > 1
  /\ RedactedSize \in Nat /\ RedactedSize > 0
  /\ ErasureSize \in Nat /\ ErasureSize > 0
  /\ MaxLines \in Nat /\ MaxErasures \in Nat /\ MaxFaults \in Nat

VARIABLES
  lines,    \* the whole lines of events.jsonl
  tail,     \* what follows them: see Tails
  size,     \* the file's size in bytes, as Stat reports it
  anchor,   \* head.json
  lock,     \* who holds LOCK_EX
  pc,       \* where each handle is inside Append or EndBroken
  pending,  \* the event each handle is writing
  seq, prev, off,              \* Recorder.seq, .prev, .off
  failure, failedAt, epitaph,  \* handles whose .failure is set; .failedAt; handles
                               \* whose .epitaph is set
  epc, newSize,                \* Erase: its place, and the size it will leave
  reading, snap, verdict,      \* ReadSnapshot: LOCK_SH held, the chain, the answer
  erasures, faults,            \* spent of the bounds
  acked,      \* history: Appends of each handle that returned nil
  unanchored, \* history: events on the chain since the anchor was last set
  rewritten   \* history: an erasure rewrote the chain and not its anchor

file    == <<lines, tail, size>>
handle  == <<seq, prev, off>>
latch   == <<failure, failedAt, epitaph>>
eraser  == <<epc, newSize, erasures>>
reader  == <<reading, snap, verdict>>
history == <<acked, unanchored, rewritten>>
vars == <<file, anchor, lock, pc, pending, handle, latch, eraser, reader,
          faults, history>>

---------------------------------------------------------------------------
\* "ok": the file is whole lines.  "cut": part of a line follows them.
\* "unterminated": the last line lacks only its newline.  "stale": bytes of the
\* longer chain an erasure replaced follow.  "glued": bytes were appended after
\* one of those.
Tails == {"ok", "cut", "unterminated", "stale", "glued"}

\* Two types of event matter to the recorder beside the rest: session.end, as a
\* caller writes it or as the recorder's own last word, and session.erasure.
\* `at` is the sequence number an epitaph's reason names.
Texts == {"content", "erased", "none"}
Types == {"data", "end", "epitaph", "erasure"}
Body  == [type : Types, by : Recorders \cup {Eraser}, text : Texts, at : Nat]
NoBody == [type |-> "none", by |-> Nobody, text |-> "none", at |-> 0]

DataBody(p)    == [type |-> "data", by |-> p, text |-> "content", at |-> 0]
EndBody(p)     == [type |-> "end", by |-> p, text |-> "none", at |-> 0]
\* Mutant: the number of the lost event is counted past itself.
Epitaph_Ahead(p, n) == [type |-> "epitaph", by |-> p, text |-> "none", at |-> n + 1]

Epitaph(p, n)  == [type |-> "epitaph", by |-> p, text |-> "none", at |-> n]
ErasureBody    == [type |-> "erasure", by |-> Eraser, text |-> "none", at |-> 0]

\* json.Unmarshal accepts every line, which a cut or overwritten tail fails.
Readable == tail \in {"ok", "unterminated"}

Init ==
  /\ lines = <<>> /\ tail = "ok" /\ size = 0 /\ anchor = NoAnchor
  /\ lock = Nobody
  /\ pc = [p \in Recorders |-> "closed"]
  /\ pending = [p \in Recorders |-> NoBody]
  /\ seq = [p \in Recorders |-> 0]
  /\ prev = [p \in Recorders |-> <<>>]
  /\ off = [p \in Recorders |-> 0]
  /\ failure = {}
  /\ failedAt = [p \in Recorders |-> 0]
  /\ epitaph = {}
  /\ epc = "idle" /\ newSize = 0 /\ erasures = 0
  /\ reading = FALSE /\ snap = [lines |-> <<>>, readable |-> TRUE] /\ verdict = "none"
  /\ faults = 0
  /\ acked = [p \in Recorders |-> 0] /\ unanchored = 0 /\ rewritten = FALSE

---------------------------------------------------------------------------
\* Append up to its system calls.
Open(p) ==
  /\ pc[p] = "closed"
  /\ pc' = [pc EXCEPT ![p] = "idle"]
  /\ UNCHANGED <<file, anchor, lock, pending, handle, latch, eraser, reader,
                 faults, history>>

\* Mutant: the latch is not consulted.
BeginAppend_Unlatched(p, body) ==
  /\ pc[p] = "idle" /\ Len(lines) < MaxLines
  /\ pending' = [pending EXCEPT ![p] = body]
  /\ pc' = [pc EXCEPT ![p] = "waiting"]
  /\ UNCHANGED <<file, anchor, lock, handle, latch, eraser, reader, faults, history>>

\* A latched recorder refuses: Append then returns without a step.
BeginAppend(p, body) ==
  /\ pc[p] = "idle" /\ p \notin failure /\ Len(lines) < MaxLines
  /\ pending' = [pending EXCEPT ![p] = body]
  /\ pc' = [pc EXCEPT ![p] = "waiting"]
  /\ UNCHANGED <<file, anchor, lock, handle, latch, eraser, reader, faults, history>>

\* Mutant: the epitaph flag is not consulted.
EndBroken_Again(p) ==
  /\ pc[p] = "idle" /\ p \in failure
  /\ pending' = [pending EXCEPT ![p] = Epitaph(p, failedAt[p])]
  /\ pc' = [pc EXCEPT ![p] = "waiting"]
  /\ UNCHANGED <<file, anchor, lock, handle, latch, eraser, reader, faults, history>>

\* EndBroken on a shutdown path: another attempt at the epitaph.
EndBroken(p) ==
  /\ pc[p] = "idle" /\ p \in failure /\ p \notin epitaph
  /\ pending' = [pending EXCEPT ![p] = Epitaph(p, failedAt[p])]
  /\ pc' = [pc EXCEPT ![p] = "waiting"]
  /\ UNCHANGED <<file, anchor, lock, handle, latch, eraser, reader, faults, history>>

Lock(p) ==
  /\ pc[p] = "waiting" /\ lock = Nobody /\ ~reading
  /\ lock' = p
  /\ pc' = [pc EXCEPT ![p] = "catchup"]
  /\ UNCHANGED <<file, anchor, pending, handle, latch, eraser, reader, faults, history>>

\* Mutant: the error return keeps the lock.
Failed_Locked(p) ==
  /\ lock' = lock
  /\ IF p \in failure
     THEN /\ pc' = [pc EXCEPT ![p] = "idle"]
          /\ pending' = [pending EXCEPT ![p] = NoBody]
          /\ UNCHANGED latch
     ELSE /\ failure' = failure \cup {p}
          /\ failedAt' = [failedAt EXCEPT ![p] = seq[p] + 1]
          /\ pending' = [pending EXCEPT ![p] = Epitaph(p, seq[p] + 1)]
          /\ pc' = [pc EXCEPT ![p] = "waiting"]
          /\ UNCHANGED epitaph

\* appendLocked returns an error.  Append latches it, closes Broken and tries
\* the epitaph at once, behind a new acquisition of the lock; the epitaph's own
\* failure ends the attempt.
Failed(p) ==
  /\ lock' = Nobody
  /\ IF p \in failure
     THEN /\ pc' = [pc EXCEPT ![p] = "idle"]
          /\ pending' = [pending EXCEPT ![p] = NoBody]
          /\ UNCHANGED latch
     ELSE /\ failure' = failure \cup {p}
          /\ failedAt' = [failedAt EXCEPT ![p] = seq[p] + 1]
          /\ pending' = [pending EXCEPT ![p] = Epitaph(p, seq[p] + 1)]
          /\ pc' = [pc EXCEPT ![p] = "waiting"]
          /\ UNCHANGED epitaph

\* appendLocked returns nil.
Succeeded(p) ==
  /\ lock' = Nobody
  /\ pc' = [pc EXCEPT ![p] = "idle"]
  /\ pending' = [pending EXCEPT ![p] = NoBody]
  /\ IF p \in failure
     THEN epitaph' = epitaph \cup {p} /\ UNCHANGED acked
     ELSE acked' = [acked EXCEPT ![p] = @ + 1] /\ UNCHANGED epitaph
  /\ UNCHANGED <<failure, failedAt>>

---------------------------------------------------------------------------
\* Mutant: only a file that shrank is read again.
Stale_Shrunk(p) == size < off[p]

\* catchUp: nothing to do when the file still has the size this handle left it
\* at; otherwise the whole file is verified and its end adopted, or refused.
Stale(p) == size # off[p]
\* Mutant: a last line without its newline is taken for a whole one.
Extensible_Unterminated == Readable /\ Verifies(lines)

Extensible == tail = "ok" /\ Verifies(lines)

CatchUp(p) ==
  /\ pc[p] = "catchup"
  /\ Stale(p) => Extensible
  /\ pc' = [pc EXCEPT ![p] = "write"]
  /\ IF Stale(p)
     THEN /\ seq' = [seq EXCEPT ![p] = Len(lines)]
          /\ prev' = [prev EXCEPT ![p] = HeadOf(lines)]
          /\ off' = [off EXCEPT ![p] = size]
     ELSE UNCHANGED handle
  /\ UNCHANGED <<file, anchor, lock, pending, latch, eraser, reader, faults, history>>

CatchUpRefuses(p) ==
  /\ pc[p] = "catchup" /\ Stale(p) /\ ~Extensible
  /\ Failed(p)
  /\ UNCHANGED <<file, anchor, handle, eraser, reader, faults, history>>

\* The line this handle would write next.
NextLine(p) == [seq |-> seq[p] + 1, prev |-> prev[p], body |-> pending[p]]

\* Bytes appended after damage never make a readable line.
Extend(line) ==
  IF tail = "ok"
  THEN lines' = Append(lines, line) /\ UNCHANGED tail
  ELSE tail' = "glued" /\ UNCHANGED lines

Write(p) ==
  /\ pc[p] = "write"
  /\ Extend(NextLine(p))
  /\ size' = size + LineSize
  /\ seq' = [seq EXCEPT ![p] = @ + 1]
  /\ prev' = [prev EXCEPT ![p] = Digest(NextLine(p))]
  /\ off' = [off EXCEPT ![p] = @ + LineSize]
  /\ pc' = [pc EXCEPT ![p] = "anchor"]
  /\ unanchored' = unanchored + 1
  /\ UNCHANGED <<anchor, lock, pending, latch, eraser, reader, faults, acked, rewritten>>

\* What a write that does not finish leaves: part of the line, or all of it but
\* the newline.
Torn(p) ==
  /\ pc[p] = "write" /\ tail = "ok"
  /\ \/ /\ tail' = "cut" /\ size' = size + 1
        /\ UNCHANGED <<lines, unanchored>>
     \/ /\ tail' = "unterminated" /\ size' = size + (LineSize - 1)
        /\ lines' = Append(lines, NextLine(p))
        /\ unanchored' = unanchored + 1

\* Mutants: the error is swallowed; the number is given back twice.
LineRefused_Nil(p) ==
  /\ pc[p] = "write" /\ faults < MaxFaults
  /\ faults' = faults + 1
  /\ Succeeded(p)
  /\ UNCHANGED <<file, anchor, handle, eraser, reader, unanchored, rewritten>>
LineRefused_Twice(p) ==
  /\ pc[p] = "write" /\ faults < MaxFaults
  /\ faults' = faults + 1
  /\ Failed(p)
  /\ seq' = [seq EXCEPT ![p] = @ - 1]
  /\ UNCHANGED <<file, anchor, prev, off, eraser, reader, history>>

\* The event does not fit under MaxLine, or Write fails and writes nothing: the
\* sequence number is given back and the file is as it was.
LineRefused(p) ==
  /\ pc[p] = "write" /\ faults < MaxFaults
  /\ faults' = faults + 1
  /\ Failed(p)
  /\ UNCHANGED <<file, anchor, handle, eraser, reader, history>>

\* The disk fills part-way through a line.
ShortWrite(p) ==
  /\ faults < MaxFaults /\ faults' = faults + 1
  /\ Torn(p)
  /\ Failed(p)
  /\ UNCHANGED <<anchor, handle, eraser, reader, acked, rewritten>>

---------------------------------------------------------------------------
\* The anchor follows the line under the same lock: replaced by a rename, or
\* removed when that fails, or left as it was when the removal fails too.  The
\* event is on the chain, and Append returns nil, in every case.
AnchorWritten(p) ==
  /\ pc[p] = "anchor"
  /\ anchor' = AnchorAt(seq[p], prev[p])
  /\ unanchored' = 0 /\ rewritten' = FALSE
  /\ Succeeded(p)
  /\ UNCHANGED <<file, handle, eraser, reader, faults>>

AnchorRemoved(p) ==
  /\ pc[p] = "anchor" /\ faults < MaxFaults
  /\ faults' = faults + 1
  /\ anchor' = NoAnchor
  /\ unanchored' = 0 /\ rewritten' = FALSE
  /\ Succeeded(p)
  /\ UNCHANGED <<file, handle, eraser, reader>>

AnchorLeft(p) ==
  /\ pc[p] = "anchor" /\ faults < MaxFaults
  /\ faults' = faults + 1
  /\ Succeeded(p)
  /\ UNCHANGED <<file, anchor, handle, eraser, reader, unanchored, rewritten>>

\* The process dies, wherever it is; the kernel drops its lock.
Die(p) ==
  /\ pc' = [pc EXCEPT ![p] = "dead"]
  /\ pending' = [pending EXCEPT ![p] = NoBody]
  /\ lock' = IF lock = p THEN Nobody ELSE lock

Crash(p) ==
  /\ pc[p] \in {"idle", "waiting", "catchup", "write", "anchor"}
  /\ Die(p)
  /\ UNCHANGED <<file, anchor, handle, latch, eraser, reader, faults, history>>

KilledWriting(p) ==
  /\ Torn(p)
  /\ Die(p)
  /\ UNCHANGED <<anchor, handle, latch, eraser, reader, faults, acked, rewritten>>

---------------------------------------------------------------------------
\* ReadSnapshot: the chain, then its anchor, under LOCK_SH, and the verdict
\* Verify and CheckAnchor give of the pair (host/log.go --verify).
Verdict(s, a) ==
  IF s.readable /\ Verifies(s.lines) THEN AnchorState(a, s.lines) ELSE "broken"

\* Mutant: the pair is read without the shared lock.
ReadChain_Unlocked ==
  /\ ~reading
  /\ reading' = TRUE
  /\ snap' = [lines |-> lines, readable |-> Readable]
  /\ verdict' = "none"
  /\ UNCHANGED <<file, anchor, lock, pc, pending, handle, latch, eraser, faults, history>>

ReadChain ==
  /\ ~reading /\ lock = Nobody
  /\ reading' = TRUE
  /\ snap' = [lines |-> lines, readable |-> Readable]
  /\ verdict' = "none"
  /\ UNCHANGED <<file, anchor, lock, pc, pending, handle, latch, eraser, faults, history>>

ReadAnchor ==
  /\ reading
  /\ reading' = FALSE
  /\ verdict' = Verdict(snap, anchor)
  /\ snap' = [lines |-> <<>>, readable |-> TRUE]
  /\ UNCHANGED <<file, anchor, lock, pc, pending, handle, latch, eraser, faults, history>>

---------------------------------------------------------------------------
\* Erase, under LOCK_EX from the read to the anchor.
EraseLock ==
  /\ epc = "idle" /\ erasures < MaxErasures
  /\ lock = Nobody /\ ~reading
  /\ lock' = Eraser
  /\ epc' = "checking"
  /\ UNCHANGED <<file, anchor, pc, pending, handle, latch, newSize, erasures,
                 reader, faults, history>>

HasSessionEnd == \E i \in DOMAIN lines : lines[i].body.type \in {"end", "epitaph"}

Erasable ==
  /\ tail = "ok" /\ Verifies(lines) /\ lines # <<>>
  /\ AnchorState(anchor, lines) # "mismatch"
  /\ HasSessionEnd
  /\ Redactable(lines) # {}

EraseDone ==
  /\ epc' = "idle" /\ newSize' = 0 /\ lock' = Nobody

EraseRefuses ==
  /\ epc = "checking" /\ ~Erasable
  /\ EraseDone
  /\ UNCHANGED <<file, anchor, pc, pending, handle, latch, erasures, reader,
                 faults, history>>

\* The chain an erasure replaces this one by, and the size it has.
Erased(ls) == Rechained(Append(RedactedBodies(ls), ErasureBody))
ErasedSize ==
  size + Cardinality(Redactable(lines)) * (RedactedSize - LineSize) + ErasureSize

\* WriteAt from byte 0.  While the new chain is the shorter one, the end of the
\* old one is still behind it, and the file has its old size.
EraseRewrites ==
  /\ epc = "checking" /\ Erasable
  /\ lines' = Erased(lines)
  /\ newSize' = ErasedSize
  /\ IF ErasedSize < size
     THEN tail' = "stale" /\ size' = size
     ELSE tail' = tail /\ size' = ErasedSize
  /\ epc' = "written" /\ erasures' = erasures + 1
  /\ rewritten' = TRUE
  /\ UNCHANGED <<anchor, lock, pc, pending, handle, latch, reader, faults,
                 acked, unanchored>>

EraseTruncates ==
  /\ epc = "written"
  /\ tail' = "ok" /\ size' = newSize
  /\ epc' = "truncated"
  /\ UNCHANGED <<lines, anchor, lock, pc, pending, handle, latch, newSize,
                 erasures, reader, faults, history>>

\* Mutant: the anchor is left to describe the chain that was replaced.
EraseAnchors_Not ==
  /\ epc = "truncated"
  /\ UNCHANGED <<faults, anchor>>
  /\ unanchored' = 0 /\ rewritten' = FALSE
  /\ EraseDone
  /\ UNCHANGED <<file, pc, pending, handle, latch, erasures, reader, acked>>

EraseAnchors ==
  /\ epc = "truncated"
  /\ \/ /\ anchor' = AnchorAt(Len(lines), HeadOf(lines))
        /\ UNCHANGED faults
     \/ /\ anchor' = NoAnchor
        /\ faults < MaxFaults /\ faults' = faults + 1
  /\ unanchored' = 0 /\ rewritten' = FALSE
  /\ EraseDone
  /\ UNCHANGED <<file, pc, pending, handle, latch, erasures, reader, acked>>

\* The eraser is killed, or Truncate or Sync returns an error, or the anchor can
\* be neither replaced nor removed.
EraseStops ==
  /\ epc \in {"checking", "written", "truncated"}
  /\ faults < MaxFaults /\ faults' = faults + 1
  /\ EraseDone
  /\ UNCHANGED <<file, anchor, pc, pending, handle, latch, erasures, reader, history>>

---------------------------------------------------------------------------
Step(p) ==
  \/ CatchUp(p) \/ CatchUpRefuses(p)
  \/ Write(p) \/ LineRefused(p) \/ ShortWrite(p)
  \/ AnchorWritten(p) \/ AnchorRemoved(p) \/ AnchorLeft(p)

EraseStep ==
  \/ EraseRefuses \/ EraseRewrites \/ EraseTruncates \/ EraseAnchors \/ EraseStops

Next ==
  \/ \E p \in Recorders :
       \/ Open(p)
       \/ BeginAppend(p, DataBody(p)) \/ BeginAppend(p, EndBody(p))
       \/ EndBroken(p) \/ Lock(p) \/ Step(p)
       \/ Crash(p) \/ KilledWriting(p)
  \/ ReadChain \/ ReadAnchor
  \/ EraseLock \/ EraseStep

Spec == Init /\ [][Next]_vars

\* Whoever holds a lock goes on to its next system call, and the kernel serves
\* the waiters of a flock, so one that can have it again and again gets it.
Fairness ==
  /\ \A p \in Recorders : WF_vars(Step(p)) /\ SF_vars(Lock(p))
  /\ WF_vars(ReadAnchor) /\ WF_vars(EraseStep)

FairSpec == Spec /\ Fairness

---------------------------------------------------------------------------
Hash   == Seq([seq : Nat, body : Body])
Line   == [seq : Nat, prev : Hash, body : Body]
Places == {"closed", "idle", "waiting", "catchup", "write", "anchor", "dead"}
Busy   == {"waiting", "catchup", "write", "anchor"}
Answers == {"none", "missing", "matches", "behind", "mismatch", "broken"}

TypeFile ==
  /\ lines \in Seq(Line) /\ tail \in Tails /\ size \in Int
  /\ anchor \in [present : BOOLEAN, seq : Nat, hash : Hash]
TypeHandle ==
  /\ pc \in [Recorders -> Places]
  /\ pending \in [Recorders -> Body \cup {NoBody}]
  /\ \A p \in Recorders : pc[p] \in Busy => pending[p] \in Body
  /\ seq \in [Recorders -> Nat] /\ prev \in [Recorders -> Hash]
  /\ off \in [Recorders -> Int]
TypeLatch ==
  /\ failure \subseteq Recorders /\ failedAt \in [Recorders -> Nat]
  /\ epitaph \subseteq Recorders
TypeOthers ==
  /\ lock \in Recorders \cup {Eraser, Nobody}
  /\ epc \in {"idle", "checking", "written", "truncated"}
  /\ newSize \in Int /\ erasures \in Nat
  /\ reading \in BOOLEAN /\ snap \in [lines : Seq(Line), readable : BOOLEAN]
  /\ verdict \in Answers
  /\ faults \in Nat
  /\ acked \in [Recorders -> Nat] /\ unanchored \in Nat /\ rewritten \in BOOLEAN

\* Every variable has its type (the two files, the Recorder structs, the
\* progress of Append, Erase and ReadSnapshot).
TypeOK == TypeFile /\ TypeHandle /\ TypeLatch /\ TypeOthers

\* No redaction makes a line shorter, or nothing is erased: the file then never
\* comes back to a size it had before.  See ChainVerifies.
SizeOnlyGrows == RedactedSize >= LineSize \/ MaxErasures = 0

\* Whatever the writers, their deaths and the erasures did, the whole lines of
\* the file are a chain Verify accepts: no handle ever numbers or chains a line
\* from an end of the file that is no longer the file's end (catchUp).
ChainVerifies == Verifies(lines)

\* Nothing is ever appended behind a line that was not finished (the newline
\* test of catchUp): what was cut short stays visibly cut short.
NothingAfterDamage == tail # "glued"

\* A nil from Append means the event is on the chain and stays there, through
\* other writers' failures and through erasures; at most one more event of a
\* handle is there, the one whose answer its process did not live to see.
LinesOf(p) ==
  {i \in DOMAIN lines : lines[i].body.by = p /\ lines[i].body.type # "epitaph"}
AckedIsRecorded ==
  \A p \in Recorders : Cardinality(LinesOf(p)) \in acked[p]..(acked[p] + 1)

\* What was answered is there, and what was cut short is the last that is
\* (appendLocked, catchUp).
RecordSafe == NothingAfterDamage /\ AckedIsRecorded

\* The latch: a recorder that failed says so at most once, and that line is the
\* last it ever writes (Append's refusal, writeEpitaphLocked's epitaph flag).
NothingAfterEpitaph ==
  \A i, j \in DOMAIN lines :
    lines[i].body.type = "epitaph" /\ i < j => lines[j].body.by # lines[i].body.by

\* The event an epitaph calls lost is never one the chain holds before it: its
\* number is at most the place the epitaph itself takes.
EpitaphNotAhead ==
  \A i \in DOMAIN lines : lines[i].body.type = "epitaph" => lines[i].body.at <= i

\* Between operations the anchor contradicts the chain only after two events in
\* a row went without theirs, or an erasure stopped before its own.
NoFalseTamper ==
  lock = Nobody /\ AnchorState(anchor, lines) = "mismatch"
    => unanchored >= 2 \/ rewritten

\* The same of what a reader concludes of the pair it read in two steps: never
\* "mismatch" or "broken" because a writer was between its own two writes.
HonestVerdict ==
  [][reading /\ ~reading' =>
       /\ verdict' = "broken" => ~Readable
       /\ verdict' = "mismatch" => unanchored >= 2 \/ rewritten]_vars

\* Every Append and every EndBroken that is waiting for the file is answered, or
\* its process dies first.
AppendReturns ==
  \A p \in Recorders : pc[p] = "waiting" ~> pc[p] \in {"idle", "dead"}

---------------------------------------------------------------------------
\* Claims of the comments that the code does not keep; see the README.

\* "in exchange for a Recorder that can never go stale" (catchUp): a handle about
\* to write holds the end of the chain as it is.
NeverStale ==
  \A p \in Recorders :
    pc[p] = "write" => seq[p] = Len(lines) /\ prev[p] = HeadOf(lines)

\* "it takes failedAt as its own seq" (writeEpitaphLocked).
EpitaphTakesItsPlace ==
  \A i \in DOMAIN lines : lines[i].body.type = "epitaph" => lines[i].body.at = i

\* "an interrupted append - never as a tamper verdict" (AnchorBehindByOne).
InterruptedIsNotTampering == verdict # "mismatch"

\* "or the next verify would report a rewrite that this legitimate operation
\* caused" (the end of Erase): an erasure alone never makes the pair disagree.
ErasureIsNotTampering ==
  lock = Nobody /\ unanchored <= 1 => AnchorState(anchor, lines) # "mismatch"

---------------------------------------------------------------------------
\* Inductive strengthenings, proved in FlightRecorderProofs.

\* The lock and the places of those who hold it agree.
MutexInv ==
  /\ \A p \in Recorders : lock = p <=> pc[p] \in {"catchup", "write", "anchor"}
  /\ lock = Eraser <=> epc # "idle"
  /\ epc # "idle" => MaxErasures > 0
  /\ epc = "written" => tail \in {"ok", "stale"}
  /\ reading => lock = Nobody /\ snap = [lines |-> lines, readable |-> Readable]

\* A handle that has not failed writes what it was given, one that has failed
\* writes its epitaph, and one whose epitaph is written writes nothing.
EventInv ==
  /\ epitaph \subseteq failure
  /\ \A p \in Recorders :
       /\ pc[p] \in Busy =>
            pending[p] \in IF p \in failure THEN {Epitaph(p, failedAt[p])}
                                            ELSE {DataBody(p), EndBody(p)}
       /\ p \in epitaph => pc[p] \in {"idle", "dead"}

\* The handle of an epitaph on the chain can put no other line there: it is
\* done, or about to be, or the file takes no more lines.
LatchInv ==
  \A i \in DOMAIN lines : lines[i].body.type = "epitaph" =>
    /\ lines[i].body.by \in failure
    /\ \/ lines[i].body.by \in epitaph
       \/ pc[lines[i].body.by] \in {"anchor", "dead"}
       \/ tail \in {"unterminated", "glued"}

\* A handle whose offset is the file's size knows the file's end, and no handle
\* is ahead of the file.
ChainInv ==
  /\ Verifies(lines)
  /\ tail \notin {"stale", "glued"}
  /\ epc = "written" => tail = "ok" /\ newSize = size
  /\ \A p \in Recorders :
       /\ off[p] <= size
       /\ off[p] = size =>
            tail = "ok" /\ seq[p] = Len(lines) /\ prev[p] = HeadOf(lines)
       /\ pc[p] \in {"write", "anchor"} => off[p] = size
       /\ pc[p] = "anchor" => seq[p] > 0
       /\ seq[p] <= Len(lines) /\ failedAt[p] <= Len(lines) + 1

\* The anchor is the head of the prefix of the chain that it counts.
AnchorInv ==
  /\ anchor.present /\ ~rewritten =>
       /\ anchor.seq > 0 /\ anchor.seq + unanchored = Len(lines)
       /\ anchor.hash = Digest(lines[anchor.seq])
  /\ epc \in {"written", "truncated"} => lines # <<>>

\* An event is counted when its line is answered: the handle between its line and
\* its anchor is one behind the file, and one that failed or died may stay so.
AckInv ==
  \A p \in Recorders :
    /\ Cardinality(LinesOf(p)) \in {acked[p], acked[p] + 1}
    /\ p \notin failure /\ pc[p] \notin {"anchor", "dead"}
         => Cardinality(LinesOf(p)) = acked[p]
    /\ p \notin failure /\ pc[p] = "anchor"
         => Cardinality(LinesOf(p)) = acked[p] + 1

---------------------------------------------------------------------------
\* The abstract log this implements: what the lines say, apart from how they
\* are numbered and hashed.
Seen(body) == [by |-> body.by, type |-> body.type, text |-> body.text]
View(ls)   == [i \in DOMAIN ls |-> Seen(ls[i].body)]

Audit == INSTANCE AuditLog WITH
  Writers <- Recorders,
  log     <- View(lines),
  stopped <- failure,
  sealed  <- tail \notin {"ok", "stale"}

Implements == Audit!Spec
=============================================================================
