------------------------------ MODULE MCReaper ------------------------------
(* Small instances of Reaper for TLC. *)
EXTENDS Reaper, TLC

CONSTANTS c1, c2

Interchangeable == Permutations(Pids)
=============================================================================
