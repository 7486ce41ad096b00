------------------------------ MODULE MCOptions ------------------------------
(***************************************************************************)
(* Names of options.                                                       *)
(***************************************************************************)
EXTENDS OptionsTree

\* Two options of a group in a group, and two whose names begin like the groups.
MCOptionNames ==
  {<<"a", "/", "y", "/", "z">>, <<"a", "/", "y", "/", "w">>, <<"a", "b", "d">>,
   <<"a", "/", "y", "e", "f">>}

\* One option and one of a group, as /test and /lookfeel/style.
MCPlainNames == {<<"t">>, <<"l", "/", "s">>}
=============================================================================
