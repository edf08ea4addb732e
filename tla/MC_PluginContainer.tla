------------------------- MODULE MC_PluginContainer --------------------------
(* Instances of PluginContainer for TLC. *)
EXTENDS PluginContainer

CONSTANTS early, late, apart, k1, k2

\* A hook that comes first, one that comes last, and a sequential one between.
ThreePlugins == {early, late, apart}
PreAndPost == (early :> "pre") @@ (late :> "post") @@ (apart :> "default")
OnlyApart == {apart}
ThreeOrTwo == {<<late, apart, early>>, <<early, late>>}
OnlyEarly == {early}
OnlyLate == {late}
OnlyTheFork == {"fork"}

FourKinds == {"parallel", "first", "reduceSync", "renderable"}
Telling ==
  [s \in FourKinds |->
     CASE s = "parallel" -> {"value", "fatal"}
       [] s = "first" -> {"value", "null", "fatal"}
       [] s = "reduceSync" -> {"null", "undefined"}
       [] OTHER -> {"value", "null"}]
=============================================================================
