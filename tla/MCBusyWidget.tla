---------------------------- MODULE MCBusyWidget ----------------------------
(***************************************************************************)
(* TLC instance of BusyWidget with the five panels of the code.  As there, *)
(* a half revolution is no multiple of the rate, a wave (9 frames; 17 in   *)
(* the code) takes less time than a stopping panel (11 frames; 22), and the*)
(* colour less than a wave (6 frames; 16).                                 *)
(***************************************************************************)
EXTENDS BusyWidget

=============================================================================
