-------------------------------- MODULE MCHost --------------------------------
(* A small server and a small team for TLC. *)
EXTENDS HostServer, TLC

CONSTANTS c1, c2, c3, b1, b2, b3, a1, a2, w1

BoxTools  == {"run", "restore", "fork", "exec", "snapshot", "stop"}
TeamTools == {"team_up", "team_down"}
TwoMixes  == {BoxTools, TeamTools}
TwoAgents == <<a1, a2>>
Interchangeable == Permutations(Boxes) \cup Permutations(Callers)
=============================================================================
