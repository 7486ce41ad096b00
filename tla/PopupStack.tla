----------------------------- MODULE PopupStack -----------------------------
(***************************************************************************)
(* The notification popups of popups/: FancyPopup with its Private object  *)
(* (fancypopup.cpp), the PopupList that chains them (popuplist.h) and the  *)
(* dialog that owns the list (dialog.ui.h).                                *)
(*                                                                         *)
(* Popups stand on top of each other at the bottom of the desktop, the     *)
(* newest lowest.  Each has a 50 ms animation timer (sliding in or out) and*)
(* a 5 s hide timer; it learns of the newer popups below it by signals:    *)
(* animating() of every newer popup is connected to its draw(), and        *)
(* destroyed() to its popupDestroyed().  Direct connections run inside the *)
(* emitting call, so one action is one event handler with everything its   *)
(* signals set off: the state it leaves and, in misread, what was read from*)
(* freed memory while destroyed() had reached some popups and not others.  *)
(* Every popup draws once more when destroyed() reaches it, and then       *)
(* follows pointers to living popups only, so what such a read returned is *)
(* overwritten before the event ends and appears in no other variable.     *)
(* Popups are numbered in the order of their creation.                     *)
(***************************************************************************)
EXTENDS Integers, FiniteSets, Functions

CONSTANTS MaxPopups,      \* bound: how many popups are created in a behaviour
          Heights,        \* heights a popup's size hint may have
          Radius,         \* Private::radius, 15 in the code
          AnimSpeed,      \* Private::animSpeed, 15 in the code
          DesktopBottom   \* y coordinate of the lower edge of the desktop

ASSUME PopupConstants ==
  /\ MaxPopups \in Nat
  /\ Radius \in Nat \ {0}
  /\ AnimSpeed \in Nat \ {0}
  /\ DesktopBottom \in Int
  /\ Heights \subseteq {h \in Nat : h >= 2 * Radius}  \* setMinimumHeight

Popups == 1 .. MaxPopups

VARIABLES
  next,       \* number of the popup created next
  life,       \* "unborn", "shown", "hidden" (deleteLater pending) or "dead"
  state,      \* Private::state: "Opening", "Open" or "Closing"
  height,     \* height of the widget
  animH,      \* Private::animH, the part of the popup that has slid in
  animTimer,  \* whether animTimer is active
  hideTimer,  \* whether hideTimer is active
  newer,      \* Private::popupList, the newer popups a popup stands on
  pos,        \* y coordinate the popup was last moved to
  list,       \* the contents of PopupList
  signal,     \* the signal PopupList emitted last
  dialogOpen, \* whether PopupDlg exists
  misread     \* history of the last event: the popups whose draw() read the
              \* animH of a popup with its Private destroyed already

vars == <<next, life, state, height, animH, animTimer, hideTimer, newer, pos,
          list, signal, dialogOpen, misread>>

Alive(p) == life[p] \in {"shown", "hidden"}

\* ~QWidget has destroyed the children of these, and Private is one of them.
Dead == {p \in Popups : life[p] = "dead"}

\* The largest animH a popup may have: its height without the round corners.
Full(p) == height[p] - Radius

\* draw() cuts animH back to the height the widget has by then.
Clamp(p, h) == IF h > height'[p] - Radius THEN height'[p] - Radius ELSE h

\* popH: what the popups in S take up with the animation heights h.
StackHeight(S, h) == SumFunction([q \in S |-> h[q]])

\* Variant: the popup as tall as its widget while it slides.
TopUnslid(p, below, h) == DesktopBottom - StackHeight(below, h) - height[p]

\* The y coordinate of p when it stands on the popups below it.
Top(p, below, h) == DesktopBottom - StackHeight(below, h) - h[p]

\* Where draw() of the popups in D has moved them once all have run, with h the
\* animation heights and nw the popup lists.
Placed(D, h, nw) ==
  /\ animH' = [q \in Popups |-> IF q \in D THEN Clamp(q, h[q]) ELSE h[q]]
  /\ pos' = [q \in Popups |-> IF q \in D THEN Top(q, nw[q], animH') ELSE pos[q]]

\* The whole of draw() of every popup in D: st are the states and ht the active
\* hide timers the first of them finds.
Draw(D, h, st, nw, ht) ==
  /\ Placed(D, h, nw)
  /\ hideTimer' = [q \in Popups |-> ht[q] \/ (q \in D /\ st[q] = "Open")]

\* The popups of D whose draw() finds one of the freed in its list.
Misreads(D, nw, freed) == {q \in D : nw[q] \cap freed # {}}

\* Variant: animating() connected to nobody.
CascadeAlone(p) == {p}

\* The popups whose draw() runs when p draws: animating() reaches every
\* older popup directly, so a second hop adds none.
Cascade(p) == {p} \cup {o \in list : p \in newer[o]}

\* Variant: the widget gets the height of its contents, without the corners.
ResizedToContents(p, h) == [height EXCEPT ![p] = h - 2 * Radius]

\* The heights once show() has given p the size it asks for.
Resized(p, h) == [height EXCEPT ![p] = h]

\* Variant: destroyed() connected to nobody.
ForgetNowhere(p) == [newer EXCEPT ![p] = {}]

\* The popup lists when popupDestroyed() of the popups above p has run.
Forget(p) == [o \in Popups |-> IF o = p THEN {} ELSE newer[o] \ {p}]

\* The popup lists when destroyed(p) has reached the popups down to o: the slots
\* run in the order of the connections, which is from the newest popup up.
ForgetDownTo(o, p, nw) == [x \in Popups |-> IF x >= o THEN nw[x] \ {p} ELSE nw[x]]

\* What goes wrong while destroyed(p) runs: popupDestroyed() of each popup o above
\* p removes p from the list of o and draws o, and that draws every popup above
\* o, though destroyed(p) has not reached those yet.
MisreadsAtDeath(p, nw, freed) ==
  UNION {Misreads(Cascade(o), ForgetDownTo(o, p, nw), freed) : o \in Cascade(p) \ {p}}

\* Variant: isEmpty() asked before the popup is removed.
EmptiesTooLate(p) == list = {}

\* Whether p is the last of the list, so that finished() is emitted.
Empties(p) == list \ {p} = {}

-----------------------------------------------------------------------------

Init ==
  /\ next = 1
  /\ life = [p \in Popups |-> "unborn"]
  /\ state = [p \in Popups |-> "Opening"]
  /\ height = [p \in Popups |-> 2 * Radius]
  /\ animH = [p \in Popups |-> 0]
  /\ animTimer = [p \in Popups |-> FALSE]
  /\ hideTimer = [p \in Popups |-> FALSE]
  /\ newer = [p \in Popups |-> {}]
  /\ pos = [p \in Popups |-> DesktopBottom]
  /\ list = {}
  /\ signal = "none"
  /\ dialogOpen = TRUE
  /\ misread = {}

(***************************************************************************)
(* PopupDlg::addPopup: construct the popup (its animation starts), prepend *)
(* it to the list, which connects it to every older popup, and show it.    *)
(***************************************************************************)
AddPopup(h) ==
  LET p == next IN
  /\ dialogOpen
  /\ p \in Popups
  /\ next' = next + 1
  /\ life' = [life EXCEPT ![p] = "shown"]
  /\ height' = Resized(p, h)
  /\ animTimer' = [animTimer EXCEPT ![p] = TRUE]
  /\ newer' = [o \in Popups |-> IF o \in list THEN newer[o] \cup {p} ELSE newer[o]]
  /\ list' = list \cup {p}
  /\ signal' = IF list = {} THEN "started" ELSE signal
  /\ UNCHANGED <<state, dialogOpen>>
  /\ Draw({p} \cup list, animH, state, newer', hideTimer)
  /\ misread' = Misreads({p} \cup list, newer', Dead')

\* Private::anim while sliding in.
SlideIn(p) ==
  LET h == animH[p] + AnimSpeed
      open == h >= Full(p)
  IN
  /\ life[p] = "shown" /\ animTimer[p] /\ state[p] = "Opening"
  /\ state' = [state EXCEPT ![p] = IF open THEN "Open" ELSE "Opening"]
  /\ animTimer' = [animTimer EXCEPT ![p] = ~open]
  /\ UNCHANGED <<next, life, height, newer, list, signal, dialogOpen>>
  /\ Draw(Cascade(p), [animH EXCEPT ![p] = IF open THEN Full(p) ELSE h],
          state', newer, hideTimer)
  /\ misread' = Misreads(Cascade(p), newer, Dead')

\* Private::anim while sliding out; hide() ends in hideEvent, which stops the
\* hide timer and posts the deletion.  The animation timer keeps running.
SlideOut(p) ==
  LET h == animH[p] - AnimSpeed
      gone == h <= 0
  IN
  /\ life[p] = "shown" /\ animTimer[p] /\ state[p] = "Closing"
  /\ life' = [life EXCEPT ![p] = IF gone THEN "hidden" ELSE "shown"]
  /\ UNCHANGED <<next, state, height, animTimer, newer, list, signal, dialogOpen>>
  /\ Draw(Cascade(p), [animH EXCEPT ![p] = h], state, newer,
          [hideTimer EXCEPT ![p] = @ /\ ~gone])
  /\ misread' = Misreads(Cascade(p), newer, Dead')

\* Variant: the animation timer, stopped since the popup opened, stays so.
HideUntimed(p) ==
  /\ state' = [state EXCEPT ![p] = "Closing"]
  /\ misread' = {}
  /\ UNCHANGED <<next, life, height, animH, animTimer, hideTimer, newer, pos, list,
                 signal, dialogOpen>>

\* Variant: a second click opens the popup again.
HideToggling(p) ==
  /\ state' = [state EXCEPT ![p] = IF @ = "Closing" THEN "Opening" ELSE "Closing"]
  /\ animTimer' = [animTimer EXCEPT ![p] = TRUE]
  /\ misread' = {}
  /\ UNCHANGED <<next, life, height, animH, hideTimer, newer, pos, list, signal,
                 dialogOpen>>

\* Private::hide, the slot of both clicked() and the hide timer.
Hide(p) ==
  /\ state' = [state EXCEPT ![p] = "Closing"]
  /\ animTimer' = [animTimer EXCEPT ![p] = TRUE]
  /\ misread' = {}
  /\ UNCHANGED <<next, life, height, animH, hideTimer, newer, pos, list, signal,
                 dialogOpen>>

\* mouseReleaseEvent, at any moment while the popup is on the screen.
Click(p) == life[p] = "shown" /\ Hide(p)

\* The hide timer is periodic: it may fire again while the popup closes.
HideTimeout(p) == life[p] = "shown" /\ hideTimer[p] /\ Hide(p)

(***************************************************************************)
(* The deferred deletion: destroyed() reaches popupDestroyed of each older *)
(* popup in turn, the next older first, which forgets p and draws itself   *)
(* and all above it; PopupList::popupDestroyed comes last.  A popup draws  *)
(* once more in its own slot, so it ends where its list without p puts it. *)
(***************************************************************************)
Delete(p) ==
  /\ life[p] = "hidden"
  /\ life' = [life EXCEPT ![p] = "dead"]
  /\ newer' = Forget(p)
  /\ list' = list \ {p}
  /\ signal' = IF Empties(p) THEN "finished" ELSE signal
  /\ animTimer' = [animTimer EXCEPT ![p] = FALSE]
  /\ UNCHANGED <<next, state, height, dialogOpen>>
  /\ Draw(Cascade(p) \ {p}, animH, state, newer', [hideTimer EXCEPT ![p] = FALSE])
  /\ misread' = MisreadsAtDeath(p, newer, Dead')

(***************************************************************************)
(* PopupDlg::destroy: the list owns its popups and deletes them from the   *)
(* newest to the oldest.  Each destroyed() sets off the draws of a deletion*)
(* among the popups still there, and finds the list empty already, so      *)
(* finished() is emitted each time.  A popup is drawn last when the next   *)
(* newer one goes and nothing is left below it.                            *)
(***************************************************************************)
CloseDialog ==
  /\ dialogOpen
  /\ dialogOpen' = FALSE
  /\ life' = [p \in Popups |-> IF p \in list THEN "dead" ELSE life[p]]
  /\ newer' = [p \in Popups |-> {}]
  /\ list' = {}
  /\ signal' = IF list = {} THEN signal ELSE "finished"
  /\ animTimer' = [p \in Popups |-> FALSE]
  /\ hideTimer' = [p \in Popups |-> FALSE]
  /\ UNCHANGED <<next, state, height>>
  /\ Placed({p \in list : newer[p] # {}}, animH, newer')
  /\ misread' = UNION {MisreadsAtDeath(p, [x \in Popups |-> {q \in newer[x] : q <= p}],
                                       Dead \cup {q \in list : q >= p}) : p \in list}

Next ==
  \/ \E h \in Heights : AddPopup(h)
  \/ \E p \in Popups : \/ SlideIn(p)
                       \/ SlideOut(p)
                       \/ Click(p)
                       \/ HideTimeout(p)
                       \/ Delete(p)
  \/ CloseDialog

Spec == Init /\ [][Next]_vars

\* The event loop serves running timers and posted deletions; the user owes
\* nothing.
Fairness ==
  \A p \in Popups : /\ WF_vars(SlideIn(p))
                    /\ WF_vars(SlideOut(p))
                    /\ WF_vars(HideTimeout(p))
                    /\ WF_vars(Delete(p))

FairSpec == Spec /\ Fairness

-----------------------------------------------------------------------------

\* The type invariant.
TypeOK ==
  /\ next \in 1 .. MaxPopups + 1
  /\ life \in [Popups -> {"unborn", "shown", "hidden", "dead"}]
  /\ state \in [Popups -> {"Opening", "Open", "Closing"}]
  /\ height \in [Popups -> Heights \cup {2 * Radius}]
  /\ animH \in [Popups -> Int]
  /\ animTimer \in [Popups -> BOOLEAN]
  /\ hideTimer \in [Popups -> BOOLEAN]
  /\ newer \in [Popups -> SUBSET Popups]
  /\ DOMAIN pos = Popups
  /\ list \in SUBSET Popups
  /\ signal \in {"none", "started", "finished"}
  /\ dialogOpen \in BOOLEAN
  /\ misread \in SUBSET Popups

\* Every popup stands where the present heights of the popups below it put it:
\* no change of a newer popup (sliding, vanishing, created, deleted) fails to
\* reach the draw() of a popup above it.
StackConsistent ==
  \A o \in list : pos[o] = Top(o, newer[o], animH)

\* The visible parts of the popups on the screen abut: the lower edge of the
\* newest is the edge of the desktop, that of each other one the upper edge of
\* the next newer, so no two overlap and the stack has no gap.
StackAbuts ==
  \A o \in list :
    pos[o] + animH[o] =
      IF newer[o] = {} THEN DesktopBottom
      ELSE pos[CHOOSE q \in newer[o] : \A r \in newer[o] : q <= r]

\* animH never exceeds what the popup has to show, is not negative while the
\* popup is on the screen, and undershoots zero by one step at most.
AnimRange ==
  \A p \in list :
    /\ -AnimSpeed <= animH[p] /\ animH[p] <= Full(p)
    /\ life[p] = "shown" => animH[p] >= 0
    /\ life[p] = "hidden" => animH[p] <= 0

\* Open popups wait for the hide timer with the animation at rest and slid in
\* completely, the others are being animated.
TimerDiscipline ==
  \A p \in list : life[p] = "shown" =>
    IF state[p] = "Open"
      THEN hideTimer[p] /\ ~animTimer[p] /\ animH[p] = Full(p)
      ELSE animTimer[p]

\* A popup on the screen always has the timer that takes it further, and however
\* its clicks and time-outs meet, that timer keeps it between its ends.  A popup
\* without its timer stays for ever.
SlidingOK == AnimRange /\ TimerDiscipline

\* "started" was the last signal exactly while there are popups.
SignalsTrackList == signal = "started" <=> list # {}

\* Nobody is on the screen before it is created, and nobody outlives the dialog.
Ownership ==
  /\ \A p \in Popups : life[p] = "unborn" <=> p >= next
  /\ ~dialogOpen => list = {}

\* The signals a user of PopupList sees alternate with its contents, and the
\* contents with the popups the dialog owns, also when it takes all with it.
SignalsOK == SignalsTrackList /\ Ownership

\* Every popup that is shown goes away, whether or not the user clicks it.
PopupGoesAway == \A p \in Popups : life[p] = "shown" ~> life[p] = "dead"

\* A click is never undone: once closing, a popup does not open again, and once
\* off the screen it is never shown or moved again.
NoComeback ==
  [][\A p \in Popups :
       /\ Alive(p) /\ state[p] = "Closing" => state'[p] = "Closing"
       /\ life[p] = "hidden" => life'[p] \in {"hidden", "dead"}
       /\ life[p] = "dead" => life'[p] = "dead" /\ pos'[p] = pos[p]]_vars

\* Which draw() reads freed memory (pop->d->animH, after ~QWidget has destroyed
\* d), in any order of clicks, time-outs, deferred deletions and closing.  When a
\* popup dies, exactly those do that have another one between themselves and it:
\* that one hears of the death first and makes them draw.  In all other events
\* nobody does, so no list keeps a dead popup beyond the signal that reports it.
FreedReadInBetween ==
  [][misread' = {o \in list : \E p, q \in newer[o] :
                               q < p /\ life[p] # "dead" /\ life'[p] = "dead"}]_vars

=============================================================================
