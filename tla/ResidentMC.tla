----------------------------- MODULE ResidentMC -----------------------------
(***************************************************************************)
(* Three textures and two cache entries for them. Frames are copied to x,  *)
(* textures to t: as textures they do not fit the arena together, u fits   *)
(* with each. A scene is a game that makes some of the calls.              *)
(***************************************************************************)
EXTENDS Resident

CONSTANTS x, t, u, p

MCLength == (x :> 2) @@ (t :> 2) @@ (u :> 1) @@ (p :> 1)
MCSlots  == [k \in Kinds |-> IF k = "texture" THEN 2 ELSE 1]
MCArena  == [k \in Kinds |-> IF k = "texture" THEN 3 ELSE 1]

Plain(a)  == [texture |-> a, palette |-> NoPalette]
MCDraws   == {<<>>, <<Plain(x), Plain(t)>>, <<Plain(t), Plain(u)>>,
              <<[texture |-> u, palette |-> p]>>}

Scene(does, n) == [does |-> does, ops |-> n]
MCScenes  == {Scene({"draw", "write"}, 4), Scene({"draw", "palette", "write"}, 4),
              Scene({"draw", "copy", "peek"}, 4), Scene({"draw", "fallback"}, 4),
              Scene({"fallback", "copy", "save"}, 5)}
MCSaves   == {Scene({"draw", "save"}, 4)}
=============================================================================
