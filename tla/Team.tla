-------------------------------- MODULE Team --------------------------------
(***************************************************************************)
(* What the broker and the store of one team share: its agents, and their  *)
(* requests, each a goroutine of the Serve that answers the agent's guest. *)
(***************************************************************************)

CONSTANTS
  Calls,     \* the requests agents make: each one op, made once
  None,      \* no call, no name
  Agents     \* the declared agents
=============================================================================
