----------------------------- MODULE MCIconAnim -----------------------------
(***************************************************************************)
(* TLC instance of IconAnim: icons of two files, one with an endless       *)
(* animation and one with two rounds, and their copies.                    *)
(***************************************************************************)
EXTENDS IconAnim, TLC

MCAnims == {1, 2}
MCLooping == <<0, 2>>
MCGarbage == {-1, 2}

\* The icons are alike; only safety is checked with this symmetry.
Icons == Permutations(Handles)

=============================================================================
