----------------------------- MODULE MCIconset -----------------------------
(***************************************************************************)
(* TLC instance of Iconset: a directory with an unnamed and a named icon,  *)
(* one with an unnamed icon and one that cannot be loaded.                 *)
(***************************************************************************)
EXTENDS Iconset

MCPrivates == 1 .. 3
MCNames == {"send", "icon_0000", "icon_0001"}
MCContent == [jisp |-> <<[name |-> None, image |-> "red"], [name |-> "send", image |-> "blue"]>>,
              plain |-> <<[name |-> None, image |-> "red"]>>,
              broken |-> None]
MCDirs == DOMAIN MCContent
MCGenerated == [i \in 0 .. 1 |-> <<"icon_0000", "icon_0001">>[i + 1]]

\* The Iconset objects are alike; only safety is checked.
Alike == Permutations(Sets)

=============================================================================
