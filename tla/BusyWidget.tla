----------------------------- MODULE BusyWidget -----------------------------
(***************************************************************************)
(* BusyWidget (psiwidgets/busywidget.cpp): a row of panels that start and  *)
(* stop spinning one after the other.  start() and stop() each send a wave *)
(* through the panels, from the last to the first; a wave is a countdown   *)
(* that the frame timer decrements and that reaches a panel every          *)
(* SPINOFFSET frames.  A stopped panel turns on to the next half revolution*)
(* and fades to the colour of a stopped one; when all of them are still    *)
(* and the widget is inactive the frame timer is deleted.                  *)
(***************************************************************************)
EXTENDS Integers

CONSTANTS NPanels,     \* panels, 5 in the code
          SPINOFFSET,  \* frames each panel is offset by, 4 in the code
          Half,        \* half a revolution, 512 in the code
          SPINRATE,    \* turn per frame, 24 in the code
          AlphaSteps   \* frames a panel takes to change colour, 16 in the code

ASSUME BusyConstants ==
  /\ NPanels \in Nat \ {0}
  /\ SPINOFFSET \in Nat \ {0}
  /\ Half \in Nat \ {0}
  /\ SPINRATE \in 1 .. Half
  /\ AlphaSteps \in Nat

Panels == 0 .. NPanels - 1

\* Where start() and stop() set their countdowns: at the last panel next frame.
Wave == SPINOFFSET * (NPanels - 1) + 1

VARIABLES
  isActive,    \* Private::isActive
  timer,       \* whether the frame timer t exists
  panel,       \* the panels: spinning, angle, alpha (in steps of 2)
  pcountdown,  \* countdown of the wave that starts panels
  ocountdown   \* countdown of the wave that stops panels

vars == <<isActive, timer, panel, pcountdown, ocountdown>>

\* Variant: a spinning panel never completes its revolution.
TurnedOn(p) ==
  IF p.spinning THEN (IF p.angle > 2 * Half THEN 0 ELSE p.angle + SPINRATE) ELSE 0

\* The angle after CPanel::Spin: a panel that is not spinning stops at the next
\* half revolution.
Turned(p) ==
  LET i == p.angle + SPINRATE IN
  IF p.spinning THEN i % (2 * Half)
  ELSE IF p.angle = 0 \/ i >= 2 * Half \/ (p.angle < Half /\ i >= Half) THEN 0
  ELSE i

\* Variant: the colour stops one step short of both of its ends.
FadedShort(p) ==
  CASE p.spinning  /\ p.alpha < AlphaSteps - 1 -> p.alpha + 1
    [] ~p.spinning /\ p.alpha > 1              -> p.alpha - 1
    [] OTHER                                   -> p.alpha

\* The colour after CPanel::Spin.
Faded(p) ==
  CASE p.spinning  /\ p.alpha < AlphaSteps -> p.alpha + 1
    [] ~p.spinning /\ p.alpha > 0          -> p.alpha - 1
    [] OTHER                               -> p.alpha

Dec(c) == IF c = 0 THEN 0 ELSE c - 1

\* Variant: the countdown looked at before it is decremented.
ReachesLate(c, k) == c > 0 /\ c = k * SPINOFFSET

\* Whether a wave with countdown c reaches panel k in the next frame.
Reaches(c, k) == c > 0 /\ c - 1 = k * SPINOFFSET

\* animate(), with the countdowns it finds: every panel spins on, then the two
\* waves advance, the stopping one last.
Animate(pc, oc) ==
  /\ panel' = [k \in Panels |->
                 [angle    |-> Turned(panel[k]),
                  alpha    |-> Faded(panel[k]),
                  spinning |-> (panel[k].spinning \/ Reaches(pc, k)) /\ ~Reaches(oc, k)]]
  /\ pcountdown' = Dec(pc)
  /\ ocountdown' = Dec(oc)

Still(p) == ~p.spinning /\ p.angle = 0 /\ p.alpha = 0

AtRest == \A k \in Panels : Still(panel[k])

\* Variant: the wave sets out behind the last panel.
LaunchShort(c) == IF c = 0 THEN Wave - 1 ELSE c

\* A call leaves a wave of its own kind alone that is still under way.
Launch(c) == IF c = 0 THEN Wave ELSE c

-----------------------------------------------------------------------------

Init ==
  /\ isActive = FALSE
  /\ timer = FALSE
  /\ panel = [k \in Panels |-> [angle |-> 0, alpha |-> 0, spinning |-> FALSE]]
  /\ pcountdown = 0
  /\ ocountdown = 0

\* start() with the timer running, as after a stop() whose wave is on its way.
StartAgain ==
  /\ ~isActive /\ timer
  /\ isActive' = TRUE
  /\ pcountdown' = Launch(pcountdown)
  /\ UNCHANGED <<timer, panel, ocountdown>>

\* start() of a widget at rest: the first frame is drawn at once.
StartFresh ==
  /\ ~isActive /\ ~timer
  /\ isActive' = TRUE
  /\ timer' = TRUE
  /\ Animate(Launch(pcountdown), ocountdown)

Start == StartAgain \/ StartFresh

Stop ==
  /\ isActive
  /\ isActive' = FALSE
  /\ ocountdown' = Launch(ocountdown)
  /\ UNCHANGED <<timer, panel, pcountdown>>

\* Variant: the timer deleted as soon as the widget is inactive.
FrameHasty ==
  /\ timer
  /\ Animate(pcountdown, ocountdown)
  /\ timer' = isActive
  /\ UNCHANGED isActive

\* The frame timer: animate() deletes it when nothing is left to move.
Frame ==
  /\ timer
  /\ Animate(pcountdown, ocountdown)
  /\ timer' = (isActive \/ \E k \in Panels : ~Still(panel'[k]))
  /\ UNCHANGED isActive

Next == Start \/ Stop \/ Frame

Spec == Init /\ [][Next]_vars

\* The event loop serves the timer; start() and stop() are up to the program.
FairSpec == Spec /\ WF_vars(Frame)

-----------------------------------------------------------------------------

\* The type invariant; countdowns and angles stay in their ranges.
TypeOK ==
  /\ isActive \in BOOLEAN
  /\ timer \in BOOLEAN
  /\ panel \in [Panels -> [angle : 0 .. 2 * Half - 1, alpha : 0 .. AlphaSteps,
                           spinning : BOOLEAN]]
  /\ pcountdown \in 0 .. Wave
  /\ ocountdown \in 0 .. Wave

\* While anything is left to do there is a timer to do it: the widget is active
\* or a panel is still turning or changing its colour.
TimerWhileMoving == isActive \/ ~AtRest => timer

\* Whether the waves under way will leave panel k spinning: the wave that is
\* behind the other comes last, and of two that go together the stopping one.
Pending(c, k) == c > k * SPINOFFSET

Outcome(k) ==
  IF Pending(pcountdown, k) /\ pcountdown > ocountdown THEN TRUE
  ELSE IF Pending(ocountdown, k) THEN FALSE
  ELSE Pending(pcountdown, k) \/ panel[k].spinning

\* Frames do not decide anything: which panels end up spinning is settled by
\* the calls alone, whenever frames come between them.
FramesKeepOutcome == [][Frame => \A k \in Panels : (Outcome(k)' <=> Outcome(k))]_vars

\* When a call takes effect on all panels: stop() when the wave of an earlier
\* stop() is over, start() when that of an earlier start() is over and that of
\* the last stop() has left.
CallsHonoured ==
  [][/\ Stop /\ ocountdown = 0 => \A k \in Panels : ~Outcome(k)'
     /\ Start /\ pcountdown = 0 /\ ocountdown < Wave => \A k \in Panels : Outcome(k)']_vars

\* A stop() that takes effect on all panels brings the widget to rest, and the
\* timer is deleted, unless it is started again; a start() that does gets all of
\* them spinning in the colour of spinning panels, unless the widget is stopped.
CallsSettle ==
  /\ (~isActive /\ \A k \in Panels : ~Outcome(k)) ~> (isActive \/ (AtRest /\ ~timer))
  /\ (isActive /\ \A k \in Panels : Outcome(k))
       ~> (~isActive \/ \A k \in Panels : panel[k].spinning /\ panel[k].alpha = AlphaSteps)

\* busywidget.cpp:36 names the colour of the panels "when stopped": a widget
\* that stays inactive comes to rest in it.  Not so when stop() is called while
\* the wave of an earlier stop() is under way.
StopComesToRest == ~isActive ~> (isActive \/ AtRest)

=============================================================================
