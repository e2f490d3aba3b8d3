--------------------------------- MODULE Inputs ---------------------------------
(* The input a rule is asked about, for the modules that say what is promised.     *)
VARIABLE item
=================================================================================
