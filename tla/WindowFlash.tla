----------------------------- MODULE WindowFlash -----------------------------
(***************************************************************************)
(* A window that asks for attention (advwidget/advwidget.cpp, the Windows  *)
(* build): its title flashes five times, half a second apart.              *)
(***************************************************************************)
EXTENDS Integers

CONSTANT Flashes     \* how often the title is inverted: 5

ASSUME FlashConstants == Flashes \in Nat /\ Flashes >= 2

VARIABLES
  active,       \* whether the window is the active one
  flashTimer,   \* none, running, or stopped but still there
  flashCount

flashVars == <<active, flashTimer, flashCount>>

\* Variant: only the phase of the title is counted.
CountedPhase(n) == (n + 1) % 2

\* flashAnimate() counts how often it inverted the title.
Counted(n) == n + 1

FlashInit == active \in BOOLEAN /\ flashTimer = "none" /\ flashCount = 0

\* doFlash(true), which starts only in an active window that does not flash: in
\* one that is not active it is a doFlash(false).
StartFlash ==
  /\ active /\ flashTimer = "none"
  /\ flashTimer' = "running" /\ flashCount' = Counted(0)
  /\ UNCHANGED active

StopFlash ==
  /\ flashTimer # "none"
  /\ flashTimer' = "none"
  /\ UNCHANGED <<active, flashCount>>

\* The timer of flashAnimate().
FlashAnimate ==
  /\ flashTimer = "running"
  /\ flashCount' = Counted(flashCount)
  /\ flashTimer' = IF flashCount' = Flashes THEN "stopped" ELSE "running"
  /\ UNCHANGED active

\* windowActivationChange(): a window that becomes active stops to flash.
ActivationChange ==
  /\ active' = ~active
  /\ flashTimer' = IF active' THEN "none" ELSE flashTimer
  /\ UNCHANGED flashCount

FlashNext == StartFlash \/ StopFlash \/ FlashAnimate \/ ActivationChange

FlashFairness == WF_flashVars(FlashAnimate)
FlashSpec == FlashInit /\ [][FlashNext]_flashVars /\ FlashFairness

-----------------------------------------------------------------------------

FlashTypeOK ==
  /\ active \in BOOLEAN
  /\ flashTimer \in {"none", "running", "stopped"}
  /\ flashCount \in 0 .. Flashes
  /\ flashTimer = "running" => flashCount \in 1 .. Flashes - 1

\* The count is compared for equality (line 254); it is never beyond, so the
\* flashing comes to an end whether or not somebody looks at the window.
FlashEnds == flashTimer = "running" ~> flashTimer # "running"
=============================================================================
