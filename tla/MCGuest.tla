-------------------------------- MODULE MCGuest --------------------------------
(* Model-checking instances of the guest's plugin host and event pump. *)
EXTENDS Guest

\* A plugin that writes a line of its own; a machine just up that is restored.
PluginMixes == {<<1, 0, FALSE>>, <<0, 1, TRUE>>}
====
