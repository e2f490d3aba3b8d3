-------------------------------- MODULE MCEgress --------------------------------
(* Model-checking instances of the egress proxy. *)
EXTENDS Egress
CONSTANTS s1, s2

\* Two secrets bound to one host, in the order of the policy.
TwoSecrets == <<s1, s2>>
====
