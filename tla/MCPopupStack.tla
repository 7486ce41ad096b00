---------------------------- MODULE MCPopupStack ----------------------------
(***************************************************************************)
(* TLC instance of PopupStack.  With AnimSpeed = 2 and heights of 2 and 5  *)
(* animH overshoots its upper end and undershoots zero.                    *)
(***************************************************************************)
EXTENDS PopupStack

MCHeights == {2, 5}

=============================================================================
