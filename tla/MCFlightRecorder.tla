--------------------------- MODULE MCFlightRecorder ---------------------------
(* Small instances of FlightRecorder for TLC. *)
EXTENDS FlightRecorder, TLC

CONSTANTS r1, r2

Interchangeable == Permutations(Recorders)
=============================================================================
