---------------------------------- MODULE Lists ----------------------------------
(* Loops, as recursive functions that ListProofs can reason about.                *)
EXTENDS Integers, Sequences, SequencesExt

\* A loop that keeps those of a list that are in T, in their order.
Kept(s, T) ==
    LET kept[n \in 0..Len(s)] ==
            IF n = 0 THEN <<>>
            ELSE IF s[n] \in T THEN Append(kept[n - 1], s[n]) ELSE kept[n - 1]
    IN  kept[Len(s)]

\* A loop of n turns from x: the k-th makes turn[k][s] of what it finds, s.
Looped(turn, x, n) ==
    LET at[k \in 0..n] == IF k = 0 THEN x ELSE turn[k][at[k - 1]]
    IN  at[n]

\* A loop over a list: step[e][s] is what an element e makes of s.
OverList(step, x, list) == Looped([k \in 1..Len(list) |-> step[list[k]]], x, Len(list))

\* Lists one after the other.
Concat(lists) ==
    Looped([i \in 1..Len(lists) |-> [out \in Seq(STRING) |-> out \o lists[i]]], <<>>, Len(lists))

NoName == ""

\* filepath.Clean and path.Clean, of an absolute path given by its names.
Cleaned(out, name) ==
    IF name \in {NoName, "."} THEN out
    ELSE IF name # ".." THEN Append(out, name)
    ELSE IF out = <<>> THEN out ELSE Front(out)
Clean(path) ==
    Looped([i \in 1..Len(path) |-> [out \in Seq(STRING) |-> Cleaned(out, path[i])]],
           <<>>, Len(path))
================================================================================
