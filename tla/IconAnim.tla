------------------------------ MODULE IconAnim ------------------------------
(***************************************************************************)
(* Animated icons (iconset/iconset.cpp, iconset/anim.cpp).  Icon objects   *)
(* ("handles": the members of an Iconset and the copies that labels,       *)
(* buttons and popups keep) share a counted Icon::Private, and the         *)
(* Icon::Privates that detach() takes copies of share a counted            *)
(* Anim::Private.  activatedCount counts the activated() calls without     *)
(* their stop(); the animation runs while it is positive.  An animation    *)
(* that is not paused has an active frame timer, one that is paused has    *)
(* none: speed is 100 throughout, so paused stands for both.               *)
(*                                                                         *)
(* The clients are as the comments on activated() and stop() ask: a client *)
(* calls stop() once for each of its activated(), and before it destroys   *)
(* its icon.                                                               *)
(***************************************************************************)
EXTENDS Integers, FiniteSets, Functions

CONSTANTS Handles,    \* Icon objects
          Privates,   \* Icon::Private objects
          Anims,      \* Anim::Private objects
          None,       \* the null pointer
          NumFrames,  \* frames of an animation; setAnim deletes those below 2
          Looping,    \* Anim::Private::looping of each, 0 for an endless one
          Garbage,    \* values an uninitialised int may have
          MaxShown,   \* bound: activated() calls a client has outstanding
          MaxCount    \* bound: activated() is not called beyond this count

ASSUME IconConstants ==
  /\ Privates \subseteq Nat
  /\ None \notin Privates \cup Anims
  /\ NumFrames \in Nat /\ NumFrames >= 2
  /\ Looping \in [Anims -> Nat]
  /\ Garbage \subseteq Int /\ Garbage # {}
  /\ MaxShown \in Nat /\ MaxCount \in Nat

VARIABLES
  d,          \* the Private of each icon, None for one that does not exist
  count,      \* activatedCount of each Private
  anim,       \* the Anim::Private of each Icon::Private
  paused,     \* Anim::Private: paused (no timer),
  frame,      \*   the frame shown,
  loop,       \*   rounds completed, as far as looping looks at them,
  mixed,      \*   whether icons that were detached from each other use it
  connected,  \* connections from areaChanged() to animUpdate()
  shown       \* activated() calls the client of each icon has outstanding

vars == <<d, count, anim, paused, frame, loop, mixed, connected, shown>>

Holders(p) == {h \in Handles : d[h] = p}

\* The Icon::Privates with animation a when the icons hold the Privates held[h].
UsersIn(held, a) == {p \in Privates : anim[p] = a /\ \E h \in Handles : held[h] = p}
Users(a) == UsersIn(d, a)

\* Which storage a new Private gets does not matter: it is the first that is
\* free.  There is enough of it for all icons.
FreePrivates == {p \in Privates : Holders(p) = {}}
NewPrivate == CHOOSE p \in FreePrivates : \A q \in FreePrivates : p <= q
FreeAnims == {a \in Anims : Users(a) = {}}

Exists(h) == d[h] # None
AnimOf(h) == anim[d[h]]

\* Variant: the connection made and then undone.
UpdatesUndone(h) == connected \ {<<h, AnimOf(h)>>}

\* activated() makes sure the icon is connected once to its animation.
Updates(h) == connected \cup {<<h, AnimOf(h)>>}

\* Variant: the last activation but one taken for the last.
IsLastEarly(p) == count[p] - 1 <= 1

\* Variant: the count looked at before it is decremented.
IsLastLate(p) == count[p] <= 0

\* Whether stop() takes back the last activation of p.
IsLast(p) == count[p] - 1 <= 0

\* Variant: one frame too many.
WrapsLate(a) == frame[a] + 1 > NumFrames

\* Whether the frame shown by a is its last one.
Wraps(a) == frame[a] + 1 >= NumFrames

\* Variant: the number of rounds compared for equality.
EndsExactly(a) == Wraps(a) /\ Looping[a] # 0 /\ loop[a] + 1 = Looping[a]

\* Whether a has then gone through all the rounds it has.
Ends(a) == Wraps(a) /\ Looping[a] # 0 /\ loop[a] + 1 >= Looping[a]

\* Comparing with looping is all that is done with loop.
Saturated(a, n) == IF n > Looping[a] THEN Looping[a] ELSE n

-----------------------------------------------------------------------------

Init ==
  /\ d = [h \in Handles |-> None]
  /\ count = [p \in Privates |-> 0]
  /\ anim = [p \in Privates |-> None]
  /\ paused = [a \in Anims |-> TRUE]
  /\ frame = [a \in Anims |-> 0]
  /\ loop = [a \in Anims |-> 0]
  /\ mixed = [a \in Anims |-> FALSE]
  /\ connected = {}
  /\ shown = [h \in Handles |-> 0]

\* A new Icon whose loadFromData(ba, TRUE) sets an animation.
Load(h) ==
  LET p == NewPrivate IN
  /\ ~Exists(h) /\ FreePrivates # {}
  /\ \E a \in FreeAnims :
       /\ d' = [d EXCEPT ![h] = p]
       /\ count' = [count EXCEPT ![p] = 0]
       /\ anim' = [anim EXCEPT ![p] = a]
       /\ paused' = [paused EXCEPT ![a] = TRUE]
       /\ frame' = [frame EXCEPT ![a] = 0]
       /\ loop' = [loop EXCEPT ![a] = 0]
       /\ mixed' = [mixed EXCEPT ![a] = FALSE]
  /\ UNCHANGED <<connected, shown>>

\* Icon(const Icon &): the new icon shares the Private.
Copy(h, g) ==
  /\ ~Exists(h) /\ Exists(g)
  /\ d' = [d EXCEPT ![h] = d[g]]
  /\ UNCHANGED <<count, anim, paused, frame, loop, mixed, connected, shown>>

\* detach() in a setter of a shared icon.  Private(const Private &) shares the
\* animation and leaves activatedCount uninitialised.
Detach(h) ==
  LET p == NewPrivate IN
  /\ Exists(h) /\ Holders(d[h]) # {h} /\ FreePrivates # {}
  /\ d' = [d EXCEPT ![h] = p]
  /\ \E n \in Garbage : count' = [count EXCEPT ![p] = n]
  /\ anim' = [anim EXCEPT ![p] = AnimOf(h)]
  /\ mixed' = [mixed EXCEPT ![AnimOf(h)] = TRUE]
  /\ UNCHANGED <<paused, frame, loop, connected, shown>>

\* activated().
Activate(h) ==
  /\ Exists(h) /\ shown[h] < MaxShown /\ count[d[h]] < MaxCount
  /\ shown' = [shown EXCEPT ![h] = @ + 1]
  /\ count' = [count EXCEPT ![d[h]] = @ + 1]
  /\ paused' = [paused EXCEPT ![AnimOf(h)] = FALSE]
  /\ connected' = Updates(h)
  /\ UNCHANGED <<d, anim, frame, loop, mixed>>

\* stop(): the last one pauses the animation and rewinds it.
Stop(h) ==
  LET p == d[h]
      last == IsLast(p)
      a == anim[p]
  IN
  /\ Exists(h) /\ shown[h] > 0
  /\ shown' = [shown EXCEPT ![h] = @ - 1]
  /\ count' = [count EXCEPT ![p] = IF last THEN 0 ELSE @ - 1]
  /\ paused' = [paused EXCEPT ![a] = @ \/ last]
  /\ frame' = [frame EXCEPT ![a] = IF last THEN 0 ELSE @]
  /\ UNCHANGED <<d, anim, loop, mixed, connected>>

\* ~Icon(): the connections of the icon go with it, those of an animation and
\* its timer with the last user.  What is freed is blanked, to make it alike.
Destroy(h) ==
  LET held == [d EXCEPT ![h] = None]
      dead == {a \in Anims : UsersIn(held, a) = {}}
      blank(f, v) == [a \in Anims |-> IF a \in dead THEN v ELSE f[a]]
  IN
  /\ Exists(h) /\ shown[h] = 0
  /\ d' = held
  /\ IF Holders(d[h]) = {h}
       THEN count' = [count EXCEPT ![d[h]] = 0] /\ anim' = [anim EXCEPT ![d[h]] = None]
       ELSE UNCHANGED <<count, anim>>
  /\ connected' = {c \in connected : c[1] # h /\ c[2] \notin dead}
  /\ paused' = blank(paused, TRUE)
  /\ frame' = blank(frame, 0)
  /\ loop' = blank(loop, 0)
  /\ mixed' = blank(mixed, FALSE)
  /\ UNCHANGED shown

\* Anim::Private::refresh, on the frame timer.
Refresh(a) ==
  /\ Users(a) # {} /\ ~paused[a]
  /\ frame' = [frame EXCEPT ![a] = IF Wraps(a) THEN 0 ELSE @ + 1]
  /\ loop' = [loop EXCEPT ![a] = IF Wraps(a) THEN Saturated(a, @ + 1) ELSE @]
  /\ paused' = [paused EXCEPT ![a] = Ends(a)]
  /\ UNCHANGED <<d, count, anim, mixed, connected, shown>>

Next ==
  \/ \E h \in Handles : \/ Load(h)
                        \/ \E g \in Handles : Copy(h, g)
                        \/ Detach(h)
                        \/ Activate(h)
                        \/ Stop(h)
                        \/ Destroy(h)
  \/ \E a \in Anims : Refresh(a)

Spec == Init /\ [][Next]_vars

\* The event loop serves the frame timers.
FairSpec == Spec /\ \A a \in Anims : WF_vars(Refresh(a))

-----------------------------------------------------------------------------

\* The type invariant.
TypeOK ==
  /\ d \in [Handles -> Privates \cup {None}]
  /\ count \in [Privates -> Int]
  /\ anim \in [Privates -> Anims \cup {None}]
  /\ \A h \in Handles : Exists(h) => AnimOf(h) \in Anims
  /\ paused \in [Anims -> BOOLEAN]
  /\ frame \in [Anims -> 0 .. NumFrames - 1]
  /\ loop \in [Anims -> Nat] /\ \A a \in Anims : loop[a] <= Looping[a]
  /\ mixed \in [Anims -> BOOLEAN]
  /\ connected \subseteq Handles \X Anims
  /\ shown \in [Handles -> 0 .. MaxShown]

\* An icon that is on the screen is told of every new frame of the animation it
\* shows, also when it was detached from the icons it shared its data with.
UpdatesReachShown ==
  \A h \in Handles : Exists(h) /\ shown[h] > 0 => <<h, AnimOf(h)>> \in connected

\* An icon with an endless animation that is on the screen is animated.
Animated(h) ==
  Exists(h) /\ shown[h] > 0 /\ Looping[AnimOf(h)] = 0 => ~paused[AnimOf(h)]

\* As long as no icon was detached from one it shares an animation with,
\* activatedCount is the number of activated() calls of all icons that share it
\* whose stop() is still to come; an endless animation is played while one of
\* them is on the screen, and any is paused and rewound when none is, so that no
\* timer wakes the program for nothing.
CountDecides ==
  \A p \in Privates \ FreePrivates : ~mixed[anim[p]] =>
    /\ count[p] = SumFunctionOnSet(shown, Holders(p))
    /\ \A h \in Holders(p) : Animated(h)
    /\ (\A h \in Holders(p) : shown[h] = 0) => paused[anim[p]] /\ frame[anim[p]] = 0

\* An icon that stays on the screen gets to see the whole endless animation.
KeepsPlaying ==
  \A h \in Handles :
    (Exists(h) /\ shown[h] > 0 /\ Looping[AnimOf(h)] = 0)
      ~> (shown[h] = 0 \/ mixed[AnimOf(h)] \/ frame[AnimOf(h)] = NumFrames - 1)

\* An animation with a number of rounds comes to its end without a stop().
FiniteEnds == \A a \in {b \in Anims : Looping[b] # 0} : ~paused[a] ~> paused[a]

\* iconset.cpp:580 and :609: "For EACH activated() function call there must be
\* associated stop() call, or the animation will go crazy".  There is one here,
\* yet stop() of an icon detached from one on the screen stops the other.
PairedCallsSuffice == \A h \in Handles : Animated(h)

=============================================================================
