---------------------------- MODULE MCTeamStore -----------------------------
(***************************************************************************)
(* Small stores for TLC: two agents, three keys that fit and one too       *)
(* long, and a store that holds two keys and two small values.             *)
(***************************************************************************)
EXTENDS TeamStore, TLC

CONSTANTS a1, a2

\* Lengths of three keys, and of one over the limit.
MCKeyLen == ("plan" :> 1) @@ ("find" :> 2) @@ ("note" :> 1) @@ ("long" :> 4)

\* A rule for a glob that matches two keys, and one for all.
MCRules ==
  {[keys |-> {"plan", "find"}, read |-> {a1, a2}, write |-> {a1}],
   [keys |-> Keys, read |-> {a1}, write |-> {a2}]}

Interchangeable == Permutations(Calls)
=============================================================================
