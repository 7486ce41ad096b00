-------------------------- MODULE BusyWidgetProofs --------------------------
(***************************************************************************)
(* Theorems about BusyWidget, for every number of panels, offset, rate and *)
(* number of colour steps.                                                 *)
(***************************************************************************)
EXTENDS BusyWidget, TLAPS

\* The panels as frames leave them.
PanelType == [angle : 0 .. 2 * Half - 1, alpha : 0 .. AlphaSteps, spinning : BOOLEAN]

\* A wave reaches the panels in the order of k * SPINOFFSET, of which the proofs
\* use only that it is a natural number no later than the wave.
LEMMA Distances ==
  /\ Wave \in Nat \ {0}
  /\ \A k \in Panels : k * SPINOFFSET \in Nat /\ k * SPINOFFSET < Wave
<1> DEFINE n == NPanels - 1
<1>1. n \in Nat /\ SPINOFFSET \in Nat /\ Panels = 0 .. n
  BY BusyConstants DEF Panels
<1>2. SPINOFFSET * n \in Nat
  <2> HIDE DEF n
  <2> QED BY <1>1
<1>3. ASSUME NEW k \in Panels
      PROVE  k * SPINOFFSET \in Nat /\ k * SPINOFFSET <= SPINOFFSET * n
  <2>1. k \in Nat /\ k <= n
    BY <1>1
  <2> HIDE DEF n
  <2>2. PICK j \in Nat : n = k + j
    <3>1. n - k \in Nat /\ n = k + (n - k)
      BY <1>1, <2>1
    <3> QED BY <3>1
  <2>3. SPINOFFSET * n = k * SPINOFFSET + j * SPINOFFSET
    BY <1>1, <2>1, <2>2
  <2>4. k * SPINOFFSET \in Nat /\ j * SPINOFFSET \in Nat
    BY <1>1, <2>1, <2>2
  <2> QED BY <2>3, <2>4
<1> QED BY <1>2, <1>3 DEF Wave

LEMMA SpinTyped ==
  ASSUME NEW p \in PanelType
  PROVE  Turned(p) \in 0 .. 2 * Half - 1 /\ Faded(p) \in 0 .. AlphaSteps
<1>1. p.angle \in 0 .. 2 * Half - 1 /\ p.alpha \in 0 .. AlphaSteps /\ p.spinning \in BOOLEAN
  BY DEF PanelType
<1>2. Half \in Nat \ {0} /\ SPINRATE \in 1 .. Half /\ AlphaSteps \in Nat
  BY BusyConstants
<1>3. (p.angle + SPINRATE) % (2 * Half) \in 0 .. 2 * Half - 1
  <2> DEFINE a == p.angle + SPINRATE  b == 2 * Half
  <2>1. a \in Nat /\ b \in Nat \ {0}
    BY <1>1, <1>2
  <2> HIDE DEF a, b
  <2>2. a % b \in 0 .. b - 1
    BY <2>1
  <2> QED BY <2>2 DEF a, b
<1>4. Turned(p) \in 0 .. 2 * Half - 1
  BY <1>1, <1>2, <1>3 DEF Turned
<1>5. Faded(p) \in 0 .. AlphaSteps
  BY <1>1, <1>2 DEF Faded
<1> QED BY <1>4, <1>5

LEMMA AnimateTyped ==
  ASSUME TypeOK, NEW pc \in 0 .. Wave, NEW oc \in 0 .. Wave, Animate(pc, oc)
  PROVE  /\ panel' \in [Panels -> PanelType]
         /\ pcountdown' \in 0 .. Wave /\ ocountdown' \in 0 .. Wave
         /\ \A k \in Panels :
              panel'[k].spinning = ((panel[k].spinning \/ Reaches(pc, k)) /\ ~Reaches(oc, k))
<1>1. ASSUME NEW k \in Panels
      PROVE  /\ panel'[k] = [angle |-> Turned(panel[k]), alpha |-> Faded(panel[k]),
                             spinning |-> (panel[k].spinning \/ Reaches(pc, k)) /\ ~Reaches(oc, k)]
             /\ panel[k] \in PanelType
  BY DEF Animate, TypeOK, PanelType
<1>2. ASSUME NEW k \in Panels
      PROVE  panel'[k] \in PanelType
             /\ panel'[k].spinning = ((panel[k].spinning \/ Reaches(pc, k)) /\ ~Reaches(oc, k))
  <2> DEFINE s == (panel[k].spinning \/ Reaches(pc, k)) /\ ~Reaches(oc, k)
             a == Turned(panel[k])
             c == Faded(panel[k])
  <2>1. s \in BOOLEAN
    BY Zenon
  <2>2. a \in 0 .. 2 * Half - 1 /\ c \in 0 .. AlphaSteps
    BY <1>1, SpinTyped
  <2>3. panel'[k] = [angle |-> a, alpha |-> c, spinning |-> s]
    BY <1>1
  <2> HIDE DEF s, a, c
  <2>4. panel'[k] \in PanelType /\ panel'[k].spinning = s
    BY <2>1, <2>2, <2>3 DEF PanelType
  <2> QED BY <2>4 DEF s
<1>3. panel' \in [Panels -> PanelType]
  BY <1>2 DEF Animate
<1>4. pcountdown' \in 0 .. Wave /\ ocountdown' \in 0 .. Wave
  BY Distances DEF Animate, Dec
<1> QED BY <1>2, <1>3, <1>4

LEMMA LaunchTyped == \A c \in 0 .. Wave : Launch(c) \in 0 .. Wave /\ Launch(c) > 0
BY Distances DEF Launch

-----------------------------------------------------------------------------

LEMMA NextTypeOK == TypeOK /\ [Next]_vars => TypeOK'
<1> SUFFICES ASSUME TypeOK, [Next]_vars PROVE TypeOK'
  OBVIOUS
<1>1. CASE StartAgain
  BY <1>1, LaunchTyped DEF StartAgain, TypeOK
<1>2. CASE StartFresh
  <2>1. Launch(pcountdown) \in 0 .. Wave /\ ocountdown \in 0 .. Wave
    BY LaunchTyped DEF TypeOK
  <2> QED BY <1>2, <2>1, AnimateTyped DEF StartFresh, TypeOK, PanelType
<1>3. CASE Stop
  BY <1>3, LaunchTyped DEF Stop, TypeOK
<1>4. CASE Frame
  <2>1. timer' \in BOOLEAN
    BY <1>4 DEF Frame
  <2> QED BY <1>4, <2>1, AnimateTyped DEF Frame, TypeOK, PanelType
<1>5. CASE UNCHANGED vars
  BY <1>5 DEF vars, TypeOK
<1> QED BY <1>1, <1>2, <1>3, <1>4, <1>5 DEF Next, Start

\* Type correctness: the countdowns stay on the panels, whatever calls are made.
THEOREM BusyTypeOK == Spec => []TypeOK
<1>1. Init => TypeOK
  <2> SUFFICES ASSUME Init PROVE TypeOK
    OBVIOUS
  <2>1. 0 \in 0 .. Wave /\ 0 \in 0 .. 2 * Half - 1 /\ 0 \in 0 .. AlphaSteps
    BY BusyConstants, Distances
  <2> QED BY <2>1 DEF Init, TypeOK
<1> QED BY <1>1, NextTypeOK, PTL DEF Spec

-----------------------------------------------------------------------------

\* Nothing of the widget moves without a timer.
LEMMA NextTimer == TypeOK /\ TimerWhileMoving /\ [Next]_vars => TimerWhileMoving'
<1> SUFFICES ASSUME TypeOK, TimerWhileMoving, [Next]_vars PROVE TimerWhileMoving'
  OBVIOUS
<1> USE DEF TimerWhileMoving, AtRest, TypeOK
<1>1. CASE StartAgain
  BY <1>1 DEF StartAgain
<1>2. CASE StartFresh
  BY <1>2 DEF StartFresh
<1>3. CASE Stop
  BY <1>3 DEF Stop
<1>4. CASE Frame
  BY <1>4 DEF Frame
<1>5. CASE UNCHANGED vars
  BY <1>5 DEF vars
<1> QED BY <1>1, <1>2, <1>3, <1>4, <1>5 DEF Next, Start

\* While anything is left to do there is a timer to do it.
THEOREM BusyTimerWhileMoving == Spec => []TimerWhileMoving
<1>1. Init => TimerWhileMoving
  BY DEF Init, TimerWhileMoving, AtRest, Still
<1> QED BY <1>1, NextTimer, BusyTypeOK, PTL DEF Spec

\* A frame takes a wave one step on: it either reaches panel k or stays as far
\* ahead of it as before.
LEMMA FrameOutcome ==
  ASSUME TypeOK, Frame, NEW k \in Panels
  PROVE  (Outcome(k)' <=> Outcome(k))
<1> DEFINE d == k * SPINOFFSET
           pc == pcountdown  oc == ocountdown
           reachP == pc > 0 /\ pc - 1 = d
           reachO == oc > 0 /\ oc - 1 = d
           s == panel[k].spinning
           t == (s \/ reachP) /\ ~reachO
<1>1. d \in Nat /\ pc \in Nat /\ oc \in Nat
  BY Distances DEF TypeOK
<1>2. panel'[k].spinning = t
  BY AnimateTyped DEF TypeOK, Frame, Reaches
<1>3. pc' = Dec(pc) /\ oc' = Dec(oc)
  BY DEF Frame, Animate
<1>4. Outcome(k) = IF pc > d /\ pc > oc THEN TRUE ELSE IF oc > d THEN FALSE ELSE pc > d \/ s
  BY DEF Outcome, Pending
<1>5. Outcome(k)' = IF Dec(pc) > d /\ Dec(pc) > Dec(oc) THEN TRUE
                    ELSE IF Dec(oc) > d THEN FALSE ELSE Dec(pc) > d \/ t
  BY <1>2, <1>3 DEF Outcome, Pending
<1>6. \A c \in Nat : Dec(c) = IF c = 0 THEN 0 ELSE c - 1
  BY DEF Dec
<1> HIDE DEF d, s
<1> DEFINE before == IF pc > d /\ pc > oc THEN TRUE ELSE IF oc > d THEN FALSE ELSE pc > d \/ s
           after == IF Dec(pc) > d /\ Dec(pc) > Dec(oc) THEN TRUE
                    ELSE IF Dec(oc) > d THEN FALSE ELSE Dec(pc) > d \/ t
<1> SUFFICES after <=> before
  <2>1. Outcome(k)' = after /\ Outcome(k) = before
    BY <1>4, <1>5
  <2> HIDE DEF after, before
  <2> QED BY <2>1
<1>7. CASE pc > d /\ pc > oc
  BY <1>1, <1>6, <1>7
<1>8. CASE oc > d /\ ~(pc > d /\ pc > oc)
  BY <1>1, <1>6, <1>8
<1>9. CASE ~(oc > d) /\ ~(pc > d)
  BY <1>1, <1>6, <1>9
<1> QED BY <1>1, <1>7, <1>8, <1>9

\* Which panels end up spinning is settled by the calls alone.
THEOREM BusyFramesKeepOutcome == Spec => FramesKeepOutcome
<1>1. TypeOK /\ [Next]_vars => [Frame => \A k \in Panels : (Outcome(k)' <=> Outcome(k))]_vars
  BY FrameOutcome
<1> QED BY <1>1, BusyTypeOK, PTL DEF Spec, FramesKeepOutcome

LEMMA StopOutcome ==
  ASSUME TypeOK, Stop, ocountdown = 0, NEW k \in Panels
  PROVE  ~Outcome(k)'
<1>1. k * SPINOFFSET \in Nat /\ k * SPINOFFSET < Wave /\ Wave \in Nat /\ pcountdown \in 0 .. Wave
  BY Distances DEF TypeOK
<1>2. pcountdown' = pcountdown /\ ocountdown' = Wave
  BY DEF Stop, Launch
<1> QED BY <1>1, <1>2 DEF Outcome, Pending

LEMMA StartOutcome ==
  ASSUME TypeOK, Start, pcountdown = 0, ocountdown < Wave, NEW k \in Panels
  PROVE  Outcome(k)'
<1> DEFINE d == k * SPINOFFSET
<1>1. /\ d \in Nat /\ d < Wave /\ Wave \in Nat \ {0}
      /\ ocountdown \in Nat /\ ocountdown < Wave /\ Wave \in 0 .. Wave
  BY Distances DEF TypeOK
<1>2. Launch(pcountdown) = Wave
  BY DEF Launch
<1>3. CASE StartAgain
  BY <1>1, <1>2, <1>3 DEF StartAgain, Outcome, Pending
<1>4. CASE StartFresh
  <2>1. Animate(Wave, ocountdown)
    BY <1>2, <1>4 DEF StartFresh
  <2>2. pcountdown' = Wave - 1
        /\ ocountdown' = IF ocountdown = 0 THEN 0 ELSE ocountdown - 1
    BY <1>1, <2>1 DEF Animate, Dec
  <2>3. panel'[k].spinning = ((panel[k].spinning \/ Reaches(Wave, k)) /\ ~Reaches(ocountdown, k))
    BY <1>1, <2>1, AnimateTyped DEF TypeOK
  <2>4. ~Reaches(ocountdown, k) \/ Wave - 1 > d
    BY <1>1 DEF Reaches
  <2>5. Reaches(Wave, k) \/ Wave - 1 > d
    BY <1>1 DEF Reaches
  <2>6. Outcome(k)' = IF Wave - 1 > d /\ Wave - 1 > ocountdown' THEN TRUE
                      ELSE IF ocountdown' > d THEN FALSE
                      ELSE Wave - 1 > d \/ panel'[k].spinning
    BY <2>2 DEF Outcome, Pending
  <2> HIDE DEF d
  <2>7. CASE Wave - 1 > d
    BY <1>1, <2>2, <2>6, <2>7
  <2>8. CASE ~(Wave - 1 > d)
    <3>1. panel'[k].spinning
      BY <2>3, <2>4, <2>5, <2>8
    <3>2. ~(ocountdown' > d)
      BY <1>1, <2>2, <2>8
    <3> QED BY <2>6, <2>8, <3>1, <3>2
  <2> QED BY <2>7, <2>8
<1> QED BY <1>3, <1>4 DEF Start

\* The calls that take effect on all panels: of a stop() that finds no earlier
\* stop() under way, and of a start() that finds no earlier start() under way and
\* does not follow a stop() within a frame.
THEOREM BusyCallsHonoured == Spec => CallsHonoured
<1>1. TypeOK /\ [Next]_vars =>
        [/\ Stop /\ ocountdown = 0 => \A k \in Panels : ~Outcome(k)'
         /\ Start /\ pcountdown = 0 /\ ocountdown < Wave => \A k \in Panels : Outcome(k)']_vars
  BY StopOutcome, StartOutcome
<1> QED BY <1>1, BusyTypeOK, PTL DEF Spec, CallsHonoured

=============================================================================
