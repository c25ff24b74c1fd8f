--------------------------- MODULE MCEngineSlots ---------------------------
(* Instances of EngineSlots for TLC. *)
EXTENDS EngineSlots, TLC

CONSTANTS c1, c2, c3, m1, m2

(* Two calls share the model that honors the abort callback, a third uses  *)
(* one that does not; one of the calls is a WebSocket's.                   *)
TwoModels == c1 :> m1 @@ c2 :> m1 @@ c3 :> m2

(* All calls on one model. *)
OneModel == c1 :> m1 @@ c2 :> m1 @@ c3 :> m1

(* Two calls, one model each. *)
Pair == c1 :> m1 @@ c2 :> m2

(* Two calls on one model. *)
Shared == c1 :> m1 @@ c2 :> m1
=============================================================================
