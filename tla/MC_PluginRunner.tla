-------------------------- MODULE MC_PluginRunner ---------------------------
(* Instances of PluginRunner for TLC. *)
EXTENDS PluginRunner

ThreeModes == {"pipe", "pipeSync", "trigger"}
OneKey == {"key"}
ForeverOrOne == {Never, 1}
=============================================================================
