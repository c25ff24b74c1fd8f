-------------------------- MODULE MCStreamSession --------------------------
(* An instance of StreamSession for TLC. *)
EXTENDS StreamSession

Run(level, n) == [i \in 1..n |-> level]

(* Single samples, so that a buffer can come to any length; a pause; and a *)
(* message that fills more than two windows at once.                       *)
SomePayloads == {Run("soft", 1), Run("loud", 1), Run("loud", 4) \o Run("soft", 2),
                 Run("loud", 5) \o Run("soft", 2) \o Run("loud", 6)}
=============================================================================
