-------------------------- MODULE MCIconsetFactory --------------------------
(***************************************************************************)
(* TLC instance of IconsetFactory: four iconsets, of which two share a name*)
(* and one is empty.                                                       *)
(***************************************************************************)
EXTENDS IconsetFactory

MCIconsets == 1 .. 4
MCNames == {"send", "busy"}
MCContent == <<{"send"}, {"send", "busy"}, {"busy"}, {}>>

=============================================================================
