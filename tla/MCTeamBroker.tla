---------------------------- MODULE MCTeamBroker ----------------------------
(* Small instances of TeamBroker for TLC. *)
EXTENDS TeamBroker, TLC

CONSTANTS c1, c2, c3, c4, lead, help

\* Nobody may spawn; `lead` may ask `help`.
NoBudgets == [s \in {} |-> 0]
OneWay    == {<<lead, help>>}

\* `lead` may have one worker at a time.
OneWorker == [s \in {lead} |-> 1]
NoEdges   == {}

Interchangeable == Permutations(Calls)
=============================================================================
