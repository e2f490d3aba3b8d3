------------------------------- MODULE Chain -------------------------------
(***************************************************************************)
(* The format of a flight recorder's file (internal/recorder): what a line *)
(* is, what it hashes to, when a chain verifies, what its out-of-band      *)
(* anchor (head.json) says of it, and how an erasure rebuilds it.  Pure    *)
(* definitions, shared by the state machine and by its proofs.             *)
(*                                                                         *)
(* A line is [seq, prev, body].  SHA-256 is modelled as a free, hence      *)
(* injective, function: the digest of a line is the sequence of everything *)
(* hashed on the way to it, so two digests are equal exactly when the      *)
(* histories are.  The line's own `hash` member is then Digest(line), and  *)
(* the "has been modified" test of Verify is true of every whole line this *)
(* package writes.                                                         *)
(***************************************************************************)
EXTENDS Integers, Sequences

Digest(line) == Append(line.prev, [seq |-> line.seq, body |-> line.body])

\* The digest a chain ends on; "" (here <<>>) for the empty chain.
HeadOf(ls) == IF ls = <<>> THEN <<>> ELSE Digest(ls[Len(ls)])

\* Verify's walk: consecutive sequence numbers from 1, each line naming the
\* digest of the one before it.
Verifies(ls) ==
  \A i \in DOMAIN ls :
    /\ ls[i].seq = i
    /\ ls[i].prev = IF i = 1 THEN <<>> ELSE Digest(ls[i - 1])

---------------------------------------------------------------------------
\* The anchor file: absent, or the sequence number and head it recorded.
NoAnchor == [present |-> FALSE, seq |-> 0, hash |-> <<>>]
AnchorAt(n, h) == [present |-> TRUE, seq |-> n, hash |-> h]

\* The `prev` of the last event, which an anchor one behind still records.
PrevOfHead(ls) == IF ls = <<>> THEN <<>> ELSE ls[Len(ls)].prev

AnchorState(a, ls) ==
  CASE ~a.present -> "missing"
    [] a.present /\ a.seq = Len(ls) /\ a.hash = HeadOf(ls) -> "matches"
    [] a.present /\ a.seq = Len(ls) - 1
         /\ PrevOfHead(ls) # <<>> /\ a.hash = PrevOfHead(ls) -> "behind"
    [] OTHER -> "mismatch"

---------------------------------------------------------------------------
\* Redaction replaces content by a fingerprint; what is already a fingerprint
\* and what has no content (session.end's reason) stays as it is.
Redacted(body) ==
  IF body.text = "content" THEN [body EXCEPT !.text = "erased"] ELSE body

Redactable(ls) == {i \in DOMAIN ls : ls[i].body.text = "content"}

\* The chain that is built from a list of bodies by numbering and hashing it
\* from event 1, as Erase's rebuild loop does.
Rechained(bs) ==
  [i \in 1..Len(bs) |->
     [seq  |-> i,
      prev |-> [j \in 1..(i - 1) |-> [seq |-> j, body |-> bs[j]]],
      body |-> bs[i]]]

RedactedBodies(ls) == [i \in DOMAIN ls |-> Redacted(ls[i].body)]
=============================================================================
