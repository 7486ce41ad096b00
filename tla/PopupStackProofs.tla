-------------------------- MODULE PopupStackProofs --------------------------
(***************************************************************************)
(* Theorems about PopupStack, for every number of popups, every set of     *)
(* heights and every geometry: the safety invariants of the stack.         *)
(***************************************************************************)
EXTENDS PopupStack, FiniteSetTheorems, TLAPS

\* Popups that are not created yet are as their constructor leaves them, so
\* AddPopup finds no timer running and nothing slid in.
Fresh ==
  \A p \in Popups : p >= next =>
    /\ state[p] = "Opening"
    /\ animH[p] = 0
    /\ ~hideTimer[p]

\* The popup pointers list and popupList keep once an event is over: the list
\* holds all living popups, and every popup those of them created after it.
ListsAgree ==
  /\ list = {p \in Popups : Alive(p)}
  /\ \A o \in Popups : newer[o] = IF o \in list THEN {p \in list : p > o} ELSE {}

\* The inductive invariant of the states between two events.  Draw() follows newer, so the geometry rests on
\* ListsAgree; that Clamp changes nothing rests on AnimRange.
IInv == /\ TypeOK /\ Ownership /\ Fresh
        /\ ListsAgree /\ AnimRange /\ TimerDiscipline
        /\ StackConsistent /\ SignalsTrackList

-----------------------------------------------------------------------------

\* What the popups of S take up depends on their own animation heights only.
LEMMA StackHeightCongruence ==
  ASSUME NEW S, NEW g, NEW h, \A q \in S : g[q] = h[q]
  PROVE  StackHeight(S, g) = StackHeight(S, h)
<1>1. [q \in S |-> g[q]] = [q \in S |-> h[q]]
  OBVIOUS
<1> QED BY <1>1 DEF StackHeight

\* A popup that neither moved nor saw a height below it change stays in place.
LEMMA TopCongruence ==
  ASSUME NEW o, NEW S, NEW g, NEW h, \A q \in S \cup {o} : g[q] = h[q]
  PROVE  Top(o, S, g) = Top(o, S, h)
<1>1. StackHeight(S, g) = StackHeight(S, h)
  BY StackHeightCongruence
<1> QED BY <1>1 DEF Top

\* Heights are numbers, so what a popup has to show is one too.
LEMMA HeightsAreInts ==
  ASSUME TypeOK, NEW p \in Popups
  PROVE  height[p] \in Nat /\ Full(p) \in Int /\ Radius <= Full(p)
<1>1. height[p] \in Heights \cup {2 * Radius}
  BY DEF TypeOK
<1>2. Radius \in Nat /\ Heights \subseteq {h \in Nat : h >= 2 * Radius}
  BY PopupConstants
<1>3. height[p] \in Nat /\ height[p] >= 2 * Radius
  <2>1. CASE height[p] \in Heights
    BY <1>2, <2>1
  <2>2. CASE height[p] = 2 * Radius
    BY <1>2, <2>2
  <2> QED BY <1>1, <2>1, <2>2
<1> QED BY <1>2, <1>3 DEF Full

\* In the events that delete nothing, the lists a draw() goes by are those the
\* event leaves, and it misreads nothing when these hold no dead popup.
LEMMA LivingListsAreReadWell ==
  ASSUME ListsAgree', NEW D \in SUBSET Popups
  PROVE  Misreads(D, newer', Dead') = {}
<1> SUFFICES ASSUME NEW q \in D, NEW r \in newer'[q], r \in Dead' PROVE FALSE
  BY DEF Misreads
<1> QED BY DEF ListsAgree, Dead, Alive

\* The popups misread when destroyed(p) is emitted are those that stand on p with
\* another popup o in between: o hears of it first, and its draw() makes them
\* draw while their own list still holds p.
LEMMA MisreadsAtDeathAre ==
  ASSUME TypeOK, ListsAgree, NEW p \in list, NEW nw, NEW freed,
         \A o \in list : p \in newer[o] => nw[o] \cap freed = {p}
  PROVE  MisreadsAtDeath(p, nw, freed) =
           {x \in list : \E o \in newer[x] : o < p /\ p \in newer[x]}
<1> DEFINE Below(o) == Misreads(Cascade(o), ForgetDownTo(o, p, nw), freed)
<1>1. \A x \in list : x \in Popups /\ x \in Int
  BY DEF TypeOK, Popups
<1>2. \A x, o \in list : o \in newer[x] <=> x < o
  BY <1>1 DEF ListsAgree
<1>3. Cascade(p) \ {p} = {o \in list : o < p}
  BY <1>1, <1>2 DEF Cascade
<1>4. ASSUME NEW o \in list, o < p, NEW x
      PROVE  x \in Below(o) <=> x \in list /\ x < o
  <2>1. x \in Cascade(o) <=> x \in list /\ (x = o \/ x < o)
    BY <1>2 DEF Cascade
  <2>2. ASSUME x \in Cascade(o)
        PROVE  ForgetDownTo(o, p, nw)[x] \cap freed # {} <=> x < o
    <3>1. x \in list /\ x \in Int /\ o \in Int /\ p \in Int /\ (x = o \/ x < o)
      BY <1>1, <2>1, <2>2
    <3>2. nw[x] \cap freed = {p}
      BY <1>2, <1>4, <3>1
    <3>3. ForgetDownTo(o, p, nw)[x] = IF x >= o THEN nw[x] \ {p} ELSE nw[x]
      BY <1>1, <3>1 DEF ForgetDownTo
    <3>4. CASE x < o
      BY <3>1, <3>2, <3>3, <3>4
    <3>5. CASE x = o
      BY <3>1, <3>2, <3>3, <3>5
    <3> QED BY <3>1, <3>4, <3>5
  <2> QED BY <1>1, <2>1, <2>2 DEF Misreads
<1>5. MisreadsAtDeath(p, nw, freed) = UNION {Below(o) : o \in {o \in list : o < p}}
  BY <1>3 DEF MisreadsAtDeath
<1> HIDE DEF Below
<1>6. \A x : x \in MisreadsAtDeath(p, nw, freed) <=> \E o \in list : o < p /\ x \in list /\ x < o
  BY <1>4, <1>5
<1>7. ASSUME NEW x \in list
      PROVE  (\E o \in list : o < p /\ x < o) <=>
             \E o \in newer[x] : o < p /\ p \in newer[x]
  <2>1. newer[x] \subseteq list
    BY <1>1 DEF ListsAgree
  <2>2. \A o \in list : x < o /\ o < p => x < p
    BY <1>1
  <2> QED BY <1>2, <2>1, <2>2
<1> QED BY <1>6, <1>7

\* An empty list: nothing has been created, moved or reported.
LEMMA InitIInv == Init => IInv
<1> SUFFICES ASSUME Init PROVE IInv
  OBVIOUS
<1> USE PopupConstants DEF Init, Popups, Alive, Full
<1>1. TypeOK
  BY DEF TypeOK
<1>2. Ownership /\ Fresh /\ ListsAgree /\ AnimRange /\ TimerDiscipline
  BY DEF Ownership, Fresh, ListsAgree, AnimRange, TimerDiscipline
<1>3. StackConsistent /\ SignalsTrackList
  BY DEF StackConsistent, SignalsTrackList
<1> QED BY <1>1, <1>2, <1>3 DEF IInv

\* addPopup() puts a fresh popup at the end of the list and above the others.
LEMMA AddPopupIInv ==
  ASSUME IInv, NEW h \in Heights, AddPopup(h)
  PROVE  IInv'
<1> DEFINE p == next
<1> USE PopupConstants DEF IInv, Popups
<1>1. /\ p \in Popups /\ p \notin list /\ h \in Nat /\ h >= 2 * Radius
      /\ life[p] = "unborn"
  BY DEF AddPopup, TypeOK, Ownership, ListsAgree, Alive
<1>2. list' = {p} \cup list /\ life' = [life EXCEPT ![p] = "shown"]
      /\ height' = [height EXCEPT ![p] = h] /\ state' = state
      /\ animTimer' = [animTimer EXCEPT ![p] = TRUE]
      /\ next' = next + 1 /\ dialogOpen /\ dialogOpen' = dialogOpen
  BY DEF AddPopup, Resized
<1>3. newer' = [o \in Popups |-> IF o \in list THEN newer[o] \cup {p} ELSE newer[o]]
  BY DEF AddPopup
<1>4. animH' = animH
  <2>1. \A q \in {p} \cup list : animH[q] <= height'[q] - Radius
    BY <1>1, <1>2 DEF AnimRange, Fresh, Full, TypeOK, ListsAgree
  <2>2. animH' = [q \in Popups |-> IF q \in {p} \cup list THEN Clamp(q, animH[q]) ELSE animH[q]]
    BY DEF AddPopup, Draw, Placed
  <2>3. \A q \in {p} \cup list : animH[q] \in Int /\ height'[q] - Radius \in Int
    <3> SUFFICES ASSUME NEW q \in {p} \cup list
                 PROVE  animH[q] \in Int /\ height'[q] - Radius \in Int
      OBVIOUS
    <3>1. q \in Popups /\ animH[q] \in Int /\ height[q] \in Nat
      BY <1>1, HeightsAreInts DEF TypeOK
    <3>2. height'[q] \in Nat
      BY <1>1, <1>2, <3>1 DEF TypeOK
    <3> QED BY <3>1, <3>2
  <2>4. \A q \in {p} \cup list : Clamp(q, animH[q]) = animH[q]
    BY <2>1, <2>3 DEF Clamp
  <2> QED BY <2>2, <2>4 DEF TypeOK
<1>5. hideTimer' = [q \in Popups |-> hideTimer[q] \/ (q \in {p} \cup list /\ state[q] = "Open")]
  BY DEF AddPopup, Draw, Placed
<1>6. \A o \in list' : pos'[o] = Top(o, newer'[o], animH')
  BY <1>2, <1>1 DEF AddPopup, Draw, Placed, TypeOK
<1>7. DOMAIN pos' = Popups
  BY DEF AddPopup, Draw, Placed
<1>8. TypeOK'
  <2>1. hideTimer' \in [Popups -> BOOLEAN]
    BY <1>5, Zenon DEF TypeOK
  <2>2. newer' \in [Popups -> SUBSET Popups]
    BY <1>3, <1>1 DEF TypeOK
  <2>3. signal' \in {"none", "started", "finished"}
    BY DEF AddPopup, TypeOK
  <2>4. misread' \in SUBSET Popups
    BY <1>1 DEF AddPopup, Misreads, TypeOK
  <2> QED BY <1>1, <1>2, <1>4, <1>7, <2>1, <2>2, <2>3, <2>4 DEF TypeOK
<1>9. Ownership' /\ Fresh'
  BY <1>1, <1>2, <1>4, <1>5 DEF Ownership, Fresh, TypeOK, ListsAgree
<1>10. ListsAgree'
  <2>1. list' = {q \in Popups : Alive(q)'}
    BY <1>1, <1>2 DEF ListsAgree, Alive, TypeOK
  <2>2. \A q \in list : q < p
    BY <1>1 DEF Ownership, ListsAgree, Alive, TypeOK
  <2>3. \A o \in Popups : newer'[o] = IF o \in list' THEN {q \in list' : q > o} ELSE {}
    <3> SUFFICES ASSUME NEW o \in Popups
                 PROVE  newer'[o] = IF o \in list' THEN {q \in list' : q > o} ELSE {}
      OBVIOUS
    <3>1. newer[o] = IF o \in list THEN {q \in list : q > o} ELSE {}
      BY DEF ListsAgree
    <3>2. list \subseteq Int /\ p \in Int /\ o \in Int
      BY <1>1 DEF TypeOK
    <3>3. CASE o \in list
      BY <1>2, <1>3, <2>2, <3>1, <3>2, <3>3
    <3>4. CASE o = p
      <4>1. \A q \in list' : ~(q > o)
        BY <1>2, <2>2, <3>2, <3>4
      <4> QED BY <1>1, <1>2, <1>3, <3>1, <3>4, <4>1
    <3>5. CASE o \notin list /\ o # p
      BY <1>2, <1>3, <3>1, <3>5
    <3> QED BY <3>3, <3>4, <3>5
  <2> QED BY <2>1, <2>3 DEF ListsAgree
<1>11. AnimRange'
  BY <1>1, <1>2, <1>4 DEF AnimRange, Full, Fresh, TypeOK, ListsAgree
<1>12. TimerDiscipline'
  BY <1>1, <1>2, <1>4, <1>5 DEF TimerDiscipline, Full, Fresh, TypeOK, ListsAgree
<1>13. StackConsistent'
  BY <1>6 DEF StackConsistent, Top, StackHeight
<1>14. SignalsTrackList'
  BY DEF AddPopup, SignalsTrackList
<1> QED BY <1>8, <1>9, <1>10, <1>11, <1>12, <1>13, <1>14

-----------------------------------------------------------------------------

\* The popups whose draw() a tick reaches, and the popups those stand on.
LEMMA CascadeFacts ==
  ASSUME TypeOK, ListsAgree, NEW p \in list
  PROVE  /\ p \in Popups /\ p \in Cascade(p) /\ Cascade(p) \subseteq list
         /\ \A o \in list : p \in newer[o] => o \in Cascade(p)
  BY DEF TypeOK, ListsAgree, Cascade

\* A draw() finds nothing to cut back when animH is in range already.
LEMMA PlacedClampsNothing ==
  ASSUME TypeOK, NEW D \in SUBSET Popups, NEW g \in [Popups -> Int],
         NEW nw, Placed(D, g, nw), height' = height, \A q \in D : g[q] <= Full(q)
  PROVE  animH' = g
<1>1. \A q \in D : Clamp(q, g[q]) = g[q]
  <2> SUFFICES ASSUME NEW q \in D PROVE Clamp(q, g[q]) = g[q]
    OBVIOUS
  <2>1. g[q] \in Int /\ Full(q) \in Int /\ g[q] <= Full(q)
    BY HeightsAreInts
  <2> QED BY <2>1 DEF Clamp, Full
<1>2. animH' = [q \in Popups |-> IF q \in D THEN Clamp(q, g[q]) ELSE g[q]]
  BY DEF Placed
<1> QED BY <1>1, <1>2

\* The same of the whole draw().
LEMMA DrawClampsNothing ==
  ASSUME TypeOK, NEW D \in SUBSET Popups, NEW g \in [Popups -> Int],
         NEW st, NEW nw, NEW ht, Draw(D, g, st, nw, ht),
         height' = height, \A q \in D : g[q] <= Full(q)
  PROVE  animH' = g
BY PlacedClampsNothing DEF Draw

\* When p slides, every popup above it is drawn again, and the popups that are
\* not drawn stand on popups that did not move.
LEMMA SlideKeepsStack ==
  ASSUME TypeOK, ListsAgree, StackConsistent, NEW p \in list,
         NEW g, \A q \in Popups \ {p} : g[q] = animH[q],
         NEW st, NEW ht, Draw(Cascade(p), g, st, newer, ht),
         animH' = g, UNCHANGED <<list, newer>>
  PROVE  StackConsistent'
<1> SUFFICES ASSUME NEW o \in list PROVE pos'[o] = Top(o, newer[o], animH')
  BY DEF StackConsistent, Top, StackHeight
<1>1. o \in Popups
  BY DEF TypeOK
<1>2. CASE o \in Cascade(p)
  BY <1>1, <1>2 DEF Draw, Placed
<1>3. CASE o \notin Cascade(p)
  <2>1. p \notin newer[o] \cup {o} /\ newer[o] \cup {o} \subseteq Popups
    BY <1>1, <1>3, CascadeFacts DEF TypeOK
  <2>2. Top(o, newer[o], animH') = Top(o, newer[o], animH)
    BY <2>1, TopCongruence
  <2>3. pos'[o] = pos[o]
    BY <1>1, <1>3 DEF Draw, Placed
  <2> QED BY <2>2, <2>3 DEF StackConsistent
<1> QED BY <1>2, <1>3

\* A step of animation in lifts one popup and whatever is above it.
LEMMA SlideInIInv ==
  ASSUME IInv, NEW p \in Popups, SlideIn(p)
  PROVE  IInv'
<1> DEFINE h == animH[p] + AnimSpeed
           open == h >= Full(p)
           g == [animH EXCEPT ![p] = IF open THEN Full(p) ELSE h]
<1>1. /\ TypeOK /\ Ownership /\ Fresh /\ ListsAgree /\ AnimRange
      /\ TimerDiscipline /\ StackConsistent /\ SignalsTrackList
  BY DEF IInv
<1>2. p \in list /\ AnimSpeed \in Nat /\ animH[p] \in Int /\ animH[p] >= 0 /\ Full(p) \in Int
      /\ Full(p) >= 0 /\ p < next
  BY <1>1, HeightsAreInts, PopupConstants
     DEF SlideIn, ListsAgree, Alive, AnimRange, TypeOK, Ownership, Popups
<1>3. UNCHANGED <<next, life, height, newer, list, signal, dialogOpen>>
  BY DEF SlideIn
<1>4. state' = [state EXCEPT ![p] = IF open THEN "Open" ELSE "Opening"]
      /\ animTimer' = [animTimer EXCEPT ![p] = ~open]
  BY DEF SlideIn
<1>5. Draw(Cascade(p), g, state', newer, hideTimer)
  BY DEF SlideIn
<1>6. Cascade(p) \subseteq list /\ p \in Cascade(p) /\ list \subseteq Popups
  BY <1>1, <1>2, CascadeFacts DEF TypeOK
<1>7. g \in [Popups -> Int] /\ g[p] >= 0 /\ g[p] <= Full(p)
  BY <1>1, <1>2 DEF TypeOK
<1>8. animH' = g
  <2>1. \A q \in Cascade(p) : g[q] <= Full(q)
    BY <1>1, <1>6, <1>7 DEF AnimRange, TypeOK
  <2> QED BY <1>1, <1>3, <1>5, <1>6, <1>7, <2>1, DrawClampsNothing
<1>9. hideTimer' = [q \in Popups |-> hideTimer[q] \/ (q \in Cascade(p) /\ state'[q] = "Open")]
      /\ DOMAIN pos' = Popups
  BY <1>5 DEF Draw, Placed
<1>10. TypeOK'
  <2>1. hideTimer' \in [Popups -> BOOLEAN]
    BY <1>9, Zenon
  <2>2. animTimer' \in [Popups -> BOOLEAN]
    BY <1>1, <1>4 DEF TypeOK
  <2>3. misread' \in SUBSET Popups
    BY <1>6 DEF SlideIn, Misreads
  <2> QED BY <1>1, <1>3, <1>4, <1>7, <1>8, <1>9, <2>1, <2>2, <2>3 DEF TypeOK
<1>11. Ownership' /\ ListsAgree' /\ SignalsTrackList'
  BY <1>1, <1>3 DEF Ownership, ListsAgree, SignalsTrackList, Alive
<1>12. Fresh'
  BY <1>1, <1>2, <1>3, <1>4, <1>6, <1>8, <1>9
     DEF Fresh, TypeOK, Popups, ListsAgree, Alive, Ownership
<1>13. AnimRange'
  BY <1>1, <1>2, <1>3, <1>6, <1>7, <1>8, PopupConstants
     DEF AnimRange, TypeOK, Full, SlideIn
<1>14. TimerDiscipline'
  BY <1>1, <1>2, <1>3, <1>4, <1>6, <1>8, <1>9 DEF TimerDiscipline, TypeOK, Full
<1>15. StackConsistent'
  BY <1>1, <1>2, <1>3, <1>5, <1>8, SlideKeepsStack DEF TypeOK
<1> QED BY <1>10, <1>11, <1>12, <1>13, <1>14, <1>15 DEF IInv

\* A step of animation out lowers one popup and whatever is above it.
LEMMA SlideOutIInv ==
  ASSUME IInv, NEW p \in Popups, SlideOut(p)
  PROVE  IInv'
<1> DEFINE h == animH[p] - AnimSpeed
           gone == h <= 0
           g == [animH EXCEPT ![p] = h]
<1>1. /\ TypeOK /\ Ownership /\ Fresh /\ ListsAgree /\ AnimRange
      /\ TimerDiscipline /\ StackConsistent /\ SignalsTrackList
  BY DEF IInv
<1>2. /\ p \in list /\ AnimSpeed \in Nat \ {0} /\ animH[p] \in Int
      /\ animH[p] >= 0 /\ animH[p] <= Full(p) /\ Full(p) \in Int /\ p < next
  BY <1>1, HeightsAreInts, PopupConstants
     DEF SlideOut, ListsAgree, Alive, AnimRange, TypeOK, Ownership, Popups
<1>3. UNCHANGED <<next, state, height, animTimer, newer, list, signal, dialogOpen>>
      /\ life' = [life EXCEPT ![p] = IF gone THEN "hidden" ELSE "shown"]
  BY DEF SlideOut
<1>4. Draw(Cascade(p), g, state, newer, [hideTimer EXCEPT ![p] = @ /\ ~gone])
      /\ state[p] = "Closing" /\ life[p] = "shown" /\ animTimer[p]
  BY DEF SlideOut
<1>5. Cascade(p) \subseteq list /\ p \in Cascade(p) /\ list \subseteq Popups
  BY <1>1, <1>2, CascadeFacts DEF TypeOK
<1>6. g \in [Popups -> Int] /\ -AnimSpeed <= g[p] /\ g[p] <= Full(p)
      /\ (~gone => g[p] >= 0)
  BY <1>1, <1>2 DEF TypeOK
<1>7. animH' = g
  <2>1. \A q \in Cascade(p) : g[q] <= Full(q)
    BY <1>1, <1>5, <1>6 DEF AnimRange, TypeOK
  <2> QED BY <1>1, <1>3, <1>4, <1>5, <1>6, <2>1, DrawClampsNothing
<1>8. /\ hideTimer' \in [Popups -> BOOLEAN]
      /\ \A q \in Popups \ {p} :
           hideTimer'[q] = (hideTimer[q] \/ (q \in Cascade(p) /\ state[q] = "Open"))
      /\ DOMAIN pos' = Popups
  <2> DEFINE ht == [hideTimer EXCEPT ![p] = @ /\ ~gone]
  <2>1. hideTimer' = [q \in Popups |-> ht[q] \/ (q \in Cascade(p) /\ state[q] = "Open")]
    BY <1>4 DEF Draw, Placed
  <2>2. hideTimer' \in [Popups -> BOOLEAN]
    BY <2>1, Zenon
  <2>3. \A q \in Popups \ {p} : ht[q] = hideTimer[q]
    BY <1>1 DEF TypeOK
  <2> HIDE DEF ht
  <2> QED BY <1>4, <2>1, <2>2, <2>3 DEF Draw, Placed
<1>9. TypeOK'
  <2>1. misread' \in SUBSET Popups
    BY <1>5 DEF SlideOut, Misreads
  <2> QED BY <1>1, <1>3, <1>6, <1>7, <1>8, <2>1 DEF TypeOK
<1>10. Ownership' /\ ListsAgree' /\ SignalsTrackList'
  BY <1>1, <1>2, <1>3, <1>4
     DEF Ownership, ListsAgree, SignalsTrackList, Alive, TypeOK
<1>11. Fresh'
  BY <1>1, <1>2, <1>3, <1>5, <1>7, <1>8
     DEF Fresh, TypeOK, Popups, ListsAgree, Alive, Ownership
<1>12. AnimRange'
  BY <1>1, <1>2, <1>3, <1>6, <1>7 DEF AnimRange, TypeOK, Full
<1>13. TimerDiscipline'
  BY <1>1, <1>3, <1>4, <1>5, <1>7, <1>8 DEF TimerDiscipline, TypeOK, Full
<1>14. StackConsistent'
  BY <1>1, <1>2, <1>3, <1>4, <1>7, SlideKeepsStack DEF TypeOK
<1> QED BY <1>9, <1>10, <1>11, <1>12, <1>13, <1>14 DEF IInv

\* A click or a time-out moves nothing.
LEMMA HideIInv ==
  ASSUME IInv, NEW p \in Popups, life[p] = "shown", Hide(p)
  PROVE  IInv'
<1>1. p < next
  BY DEF IInv, TypeOK, Ownership, Popups
<1> USE <1>1 DEF IInv, Hide
<1>2. TypeOK' /\ Ownership' /\ Fresh' /\ ListsAgree' /\ SignalsTrackList'
  BY DEF TypeOK, Ownership, Fresh, ListsAgree, SignalsTrackList, Alive, Popups
<1>3. AnimRange' /\ TimerDiscipline'
  BY DEF TypeOK, AnimRange, TimerDiscipline, Full
<1>4. StackConsistent'
  BY DEF StackConsistent, Top, StackHeight
<1> QED BY <1>2, <1>3, <1>4

\* The destructor takes the popup out of the list and lets the one above it
\* follow the one below.
LEMMA DeleteIInv ==
  ASSUME IInv, NEW p \in Popups, Delete(p)
  PROVE  IInv'
<1> DEFINE D == Cascade(p) \ {p}
<1>1. /\ TypeOK /\ Ownership /\ Fresh /\ ListsAgree /\ AnimRange
      /\ TimerDiscipline /\ StackConsistent /\ SignalsTrackList
  BY DEF IInv
<1>2. p \in list /\ p < next /\ life[p] = "hidden"
  BY <1>1 DEF Delete, ListsAgree, Alive, TypeOK, Ownership, Popups
<1>3. UNCHANGED <<next, state, height, dialogOpen>>
      /\ life' = [life EXCEPT ![p] = "dead"] /\ list' = list \ {p}
      /\ animTimer' = [animTimer EXCEPT ![p] = FALSE]
  BY DEF Delete
<1>4. newer' = [o \in Popups |-> IF o = p THEN {} ELSE newer[o] \ {p}]
  BY DEF Delete, Forget
<1>5. Draw(D, animH, state, newer', [hideTimer EXCEPT ![p] = FALSE])
  BY DEF Delete
<1>6. D \subseteq list' /\ list \subseteq Popups
  BY <1>1, <1>2, <1>3, CascadeFacts DEF TypeOK
<1>7. animH' = animH
  <2>1. \A q \in D : animH[q] <= Full(q)
    BY <1>1, <1>3, <1>6 DEF AnimRange
  <2> QED BY <1>1, <1>3, <1>5, <1>6, <2>1, DrawClampsNothing DEF TypeOK
<1>8. /\ hideTimer' \in [Popups -> BOOLEAN]
      /\ \A q \in Popups \ {p} :
           hideTimer'[q] = (hideTimer[q] \/ (q \in D /\ state[q] = "Open"))
      /\ DOMAIN pos' = Popups
  <2> DEFINE ht == [hideTimer EXCEPT ![p] = FALSE]
  <2>1. hideTimer' = [q \in Popups |-> ht[q] \/ (q \in D /\ state[q] = "Open")]
    BY <1>5 DEF Draw, Placed
  <2>2. hideTimer' \in [Popups -> BOOLEAN]
    BY <2>1, Zenon
  <2>3. \A q \in Popups \ {p} : ht[q] = hideTimer[q]
    BY <1>1 DEF TypeOK
  <2> HIDE DEF ht
  <2> QED BY <1>5, <2>1, <2>2, <2>3 DEF Draw, Placed
<1>9. TypeOK'
  <2>1. newer' \in [Popups -> SUBSET Popups]
    BY <1>1, <1>4 DEF TypeOK
  <2>2. signal' \in {"none", "started", "finished"}
    BY <1>1 DEF Delete, TypeOK
  <2>3. misread' \in SUBSET Popups
    <3>1. misread' = MisreadsAtDeath(p, newer, Dead')
      BY DEF Delete
    <3>2. \A o : Cascade(o) \subseteq list \cup {o}
      BY DEF Cascade
    <3> QED BY <1>6, <3>1, <3>2 DEF MisreadsAtDeath, Misreads
  <2> QED BY <1>1, <1>3, <1>7, <1>8, <2>1, <2>2, <2>3 DEF TypeOK
<1>10. Ownership' /\ Fresh'
  BY <1>1, <1>2, <1>3, <1>6, <1>7, <1>8
     DEF Ownership, Fresh, TypeOK, Popups, ListsAgree, Alive
<1>11. ListsAgree'
  <2>1. list' = {q \in Popups : Alive(q)'}
    BY <1>1, <1>3 DEF ListsAgree, Alive, TypeOK
  <2>2. \A o \in Popups : newer'[o] = IF o \in list' THEN {q \in list' : q > o} ELSE {}
    BY <1>1, <1>3, <1>4 DEF ListsAgree
  <2> QED BY <2>1, <2>2 DEF ListsAgree
<1>12. AnimRange'
  BY <1>1, <1>3, <1>6, <1>7 DEF AnimRange, TypeOK, Full
<1>13. TimerDiscipline'
  BY <1>1, <1>3, <1>6, <1>7, <1>8 DEF TimerDiscipline, TypeOK, Full
<1>14. StackConsistent'
  <2> SUFFICES ASSUME NEW o \in list' PROVE pos'[o] = Top(o, newer'[o], animH')
    BY DEF StackConsistent, Top, StackHeight
  <2>1. o \in Popups /\ o \in list /\ o # p
    BY <1>3, <1>6
  <2>2. CASE o \in D
    BY <1>5, <2>1, <2>2 DEF Draw, Placed
  <2>3. CASE o \notin D
    <3>1. p \notin newer[o]
      BY <1>1, <1>2, <2>1, <2>3, CascadeFacts
    <3>2. newer'[o] = newer[o]
      BY <1>4, <2>1, <3>1
    <3>3. pos'[o] = pos[o]
      BY <1>5, <2>1, <2>3 DEF Draw, Placed
    <3> QED BY <1>1, <1>7, <2>1, <3>2, <3>3 DEF StackConsistent
  <2> QED BY <2>2, <2>3
<1>15. SignalsTrackList'
  BY <1>1, <1>2 DEF SignalsTrackList, Delete, Empties
<1> QED BY <1>9, <1>10, <1>11, <1>12, <1>13, <1>14, <1>15 DEF IInv

\* Closing the dialog leaves no popup, so nothing has to be in place any more; the
\* popups still to be created are untouched.
LEMMA CloseDialogIInv ==
  ASSUME IInv, CloseDialog
  PROVE  IInv'
<1> DEFINE D == {p \in list : newer[p] # {}}
<1>1. /\ TypeOK /\ Ownership /\ Fresh /\ ListsAgree /\ AnimRange
  BY DEF IInv
<1>2. /\ dialogOpen' = FALSE /\ list' = {} /\ newer' = [p \in Popups |-> {}]
      /\ life' = [p \in Popups |-> IF p \in list THEN "dead" ELSE life[p]]
      /\ animTimer' = [p \in Popups |-> FALSE] /\ hideTimer' = [p \in Popups |-> FALSE]
      /\ signal' = IF list = {} THEN signal ELSE "finished"
      /\ UNCHANGED <<next, state, height>>
  BY DEF CloseDialog
<1>3. D \subseteq list /\ list \subseteq Popups
  BY <1>1 DEF TypeOK
<1>4. Placed(D, animH, newer')
  BY DEF CloseDialog
<1>5. animH' = animH
  <2>1. animH \in [Popups -> Int] /\ \A q \in D : animH[q] <= Full(q)
    BY <1>1, <1>3 DEF TypeOK, AnimRange
  <2> QED BY <1>1, <1>2, <1>3, <1>4, <2>1, PlacedClampsNothing
<1>6. misread' \in SUBSET Popups
  <2> DEFINE Nw(p) == [x \in Popups |-> {q \in newer[x] : q <= p}]
             Fr(p) == Dead \cup {q \in list : q >= p}
  <2>1. misread' = UNION {MisreadsAtDeath(p, Nw(p), Fr(p)) : p \in list}
    BY DEF CloseDialog
  <2>2. \A o \in list : Cascade(o) \subseteq list
    BY DEF Cascade
  <2>3. \A p \in list : MisreadsAtDeath(p, Nw(p), Fr(p)) \subseteq list
    BY <2>2 DEF MisreadsAtDeath, Misreads
  <2> HIDE DEF Nw, Fr
  <2> QED BY <1>3, <2>1, <2>3
<1>7. TypeOK'
  <2>1. DOMAIN pos' = Popups
    BY <1>4 DEF Placed
  <2> QED BY <1>1, <1>2, <1>5, <1>6, <2>1 DEF TypeOK
<1>8. Ownership' /\ Fresh' /\ ListsAgree'
  BY <1>1, <1>2, <1>5 DEF TypeOK, Ownership, Fresh, Popups, ListsAgree, Alive
<1>9. AnimRange' /\ TimerDiscipline' /\ StackConsistent' /\ SignalsTrackList'
  BY <1>2 DEF IInv, AnimRange, TimerDiscipline, StackConsistent, SignalsTrackList
<1> QED BY <1>7, <1>8, <1>9 DEF IInv

-----------------------------------------------------------------------------

\* Every step keeps the invariant, and so does doing nothing.
LEMMA NextIInv == IInv /\ [Next]_vars => IInv'
<1> SUFFICES ASSUME IInv, [Next]_vars PROVE IInv'
  OBVIOUS
<1>1. ASSUME NEW h \in Heights, AddPopup(h) PROVE IInv'
  BY <1>1, AddPopupIInv
<1>2. ASSUME NEW p \in Popups, SlideIn(p) PROVE IInv'
  BY <1>2, SlideInIInv
<1>3. ASSUME NEW p \in Popups, SlideOut(p) PROVE IInv'
  BY <1>3, SlideOutIInv
<1>4. ASSUME NEW p \in Popups, Click(p) \/ HideTimeout(p) PROVE IInv'
  BY <1>4, HideIInv DEF Click, HideTimeout
<1>5. ASSUME NEW p \in Popups, Delete(p) PROVE IInv'
  BY <1>5, DeleteIInv
<1>6. CASE CloseDialog
  BY <1>6, CloseDialogIInv
<1>7. CASE UNCHANGED vars
  BY <1>7 DEF vars, IInv, TypeOK, Ownership, Fresh, ListsAgree, AnimRange,
              TimerDiscipline, StackConsistent, SignalsTrackList, Alive, Full,
              Top, StackHeight
<1> QED BY <1>1, <1>2, <1>3, <1>4, <1>5, <1>6, <1>7 DEF Next

\* The inductive invariant holds in every reachable state.
THEOREM PopupInvariant == Spec => []IInv
BY InitIInv, NextIInv, PTL DEF Spec

\* Type correctness of the popup stack.
THEOREM PopupTypeOK == Spec => []TypeOK
<1>1. IInv => TypeOK
  BY DEF IInv
<1> QED BY <1>1, PopupInvariant, PTL

\* Every popup always stands where the popups below it put it.
THEOREM PopupStackConsistent == Spec => []StackConsistent
<1>1. IInv => StackConsistent
  BY DEF IInv
<1> QED BY <1>1, PopupInvariant, PTL

\* A sum is a fold that takes the elements in whatever order CHOOSE has.
Plus(x, y) == x + y
AnyOf(S) == CHOOSE x \in S : TRUE
Sums == INSTANCE FoldLemmas WITH Op <- Plus, Pick <- AnyOf

\* The sum the model uses is the fold with addition.
LEMMA SumIsFold ==
  ASSUME NEW f, NEW S
  PROVE  SumFunctionOnSet(f, S) = Sums!Fold(0, f, S)
BY Zenon DEF SumFunctionOnSet, FoldFunctionOnSet, MapThenFoldSet, Sums!Fold,
             Sums!Folds, Plus, AnyOf

\* Every finite set can be summed.
LEMMA SumFoldable ==
  ASSUME NEW S, IsFiniteSet(S)
  PROVE  Sums!Foldable(S)
<1>1. \A T \in SUBSET S : T # {} => AnyOf(T) \in T
  BY DEF AnyOf
<1>2. Sums!IsFiniteSet(S)
  BY Zenon DEF IsFiniteSet, Sums!IsFiniteSet
<1> QED BY <1>1, <1>2 DEF Sums!Foldable

\* The height of a stack is that of any of its popups and of the others.
LEMMA StackHeightWithout ==
  ASSUME NEW S, IsFiniteSet(S), NEW h, \A q \in S : h[q] \in Int, NEW q \in S
  PROVE  /\ StackHeight(S, h) \in Int
         /\ StackHeight(S, h) = h[q] + StackHeight(S \ {q}, h)
<1>1. PICK f : f = [r \in S |-> h[r]]
  OBVIOUS
<1>2. PICK g : g = [r \in S \ {q} |-> h[r]]
  OBVIOUS
<1>3. Sums!Foldable(S) /\ Sums!Foldable(S \ {q})
  BY SumFoldable, FS_RemoveElement
<1>4. Sums!Closed(f, S, Int) /\ Sums!AnyOrder(f, S, Int) /\ 0 \in Int
  BY <1>1 DEF Sums!Closed, Sums!AnyOrder, Plus
<1>5. Sums!Fold(0, f, S) \in Int
  BY <1>3, <1>4, Sums!FoldIn, Zenon
<1>6. \A r \in S : Sums!Fold(0, f, S) = Plus(f[r], Sums!Fold(0, f, S \ {r}))
  BY <1>3, <1>4, Sums!FoldAny, SMTT(20)
<1>7. Sums!Fold(0, f, S \ {q}) = Sums!Fold(0, g, S \ {q})
  <2>1. \A r \in S \ {q} : f[r] = g[r]
    BY <1>1, <1>2
  <2> QED BY <1>3, <2>1, Sums!FoldSame, Zenon
<1>8. /\ StackHeight(S, h) = Sums!Fold(0, f, S)
      /\ StackHeight(S \ {q}, h) = Sums!Fold(0, g, S \ {q})
  <2>1. DOMAIN f = S /\ DOMAIN g = S \ {q}
    BY <1>1, <1>2
  <2> QED BY <1>1, <1>2, <2>1, SumIsFold, Zenon DEF StackHeight, SumFunction
<1>9. f[q] = h[q]
  BY <1>1
<1> QED BY <1>5, <1>6, <1>7, <1>8, <1>9, Zenon DEF Plus

\* Nothing is as high as nothing.
LEMMA StackHeightOfNone == ASSUME NEW h PROVE StackHeight({}, h) = 0
<1>1. PICK f : f = [r \in {} |-> h[r]]
  OBVIOUS
<1>2. DOMAIN f = {}
  BY <1>1
<1>3. StackHeight({}, h) = Sums!Fold(0, f, {})
  BY <1>1, <1>2, SumIsFold, Zenon DEF StackHeight, SumFunction
<1> QED BY <1>3, Sums!FoldEmpty, Zenon

\* The height of any finite stack is a number.
LEMMA StackHeightIsInt ==
  ASSUME NEW S, IsFiniteSet(S), NEW h, \A q \in S : h[q] \in Int
  PROVE  StackHeight(S, h) \in Int
<1>1. CASE S = {}
  BY <1>1, StackHeightOfNone
<1>2. CASE S # {}
  BY <1>2, StackHeightWithout
<1> QED BY <1>1, <1>2

\* The popup next to o is the lowest of those created after it, and stands on all
\* others of them: the sum below o is that below its neighbour and the neighbour.
LEMMA ConsistentAbuts ==
  ASSUME IInv
  PROVE  StackAbuts
<1>1. TypeOK /\ ListsAgree /\ StackConsistent
  BY DEF IInv
<1>2. \A o \in list : newer[o] = {p \in list : p > o}
  BY <1>1 DEF ListsAgree, TypeOK
<1>3. \A o \in list : pos[o] = DesktopBottom - StackHeight(newer[o], animH) - animH[o]
  BY <1>1 DEF StackConsistent, Top
<1>4. list \subseteq Popups /\ Popups \subseteq Nat /\ \A p \in Popups : animH[p] \in Int
  BY <1>1, PopupConstants DEF TypeOK, Popups
<1>5. \A S \in SUBSET Popups : IsFiniteSet(S)
  <2>1. IsFiniteSet(Popups)
    BY FS_Interval, PopupConstants DEF Popups
  <2> QED BY <2>1, FS_Subset
<1>6. SUFFICES ASSUME NEW o \in list
               PROVE  pos[o] + animH[o] =
                        IF newer[o] = {} THEN DesktopBottom
                        ELSE pos[CHOOSE q \in newer[o] : \A r \in newer[o] : q <= r]
  BY DEF StackAbuts
<1>7. CASE newer[o] = {}
  <2>1. StackHeight(newer[o], animH) = 0
    BY <1>7, StackHeightOfNone, Zenon
  <2>2. pos[o] = DesktopBottom - 0 - animH[o] /\ animH[o] \in Int /\ DesktopBottom \in Int
    BY <1>3, <1>4, <2>1, PopupConstants
  <2>3. pos[o] + animH[o] = DesktopBottom
    BY <2>2
  <2> QED BY <1>7, <2>3
<1>8. CASE newer[o] # {}
  <2>1. newer[o] \in SUBSET Popups
    BY <1>2, <1>4
  <2>2. PICK q \in newer[o] : \A r \in newer[o] : q <= r
    BY <1>4, <1>8, <2>1, Sums!LeastOfNaturals
  <2>3. q = CHOOSE c \in newer[o] : \A r \in newer[o] : c <= r
    BY <1>4, <2>1, <2>2
  <2>4. q \in list /\ newer[q] = newer[o] \ {q}
    <3>1. q \in list /\ q > o
      BY <1>2
    <3>2. \A p \in list : p > q <=> p > o /\ p # q
      <4> SUFFICES ASSUME NEW p \in list PROVE p > q <=> p > o /\ p # q
        OBVIOUS
      <4>1. p \in Nat /\ q \in Nat /\ o \in Nat
        BY <1>4, <3>1
      <4>2. p > o => q <= p
        BY <1>2, <2>2
      <4> QED BY <3>1, <4>1, <4>2
    <3> QED BY <1>2, <3>1, <3>2
  <2>5. /\ StackHeight(newer[o], animH) \in Int
        /\ StackHeight(newer[o], animH) = animH[q] + StackHeight(newer[o] \ {q}, animH)
    BY <1>4, <1>5, <2>1, StackHeightWithout
  <2>6. StackHeight(newer[q], animH) \in Int
    BY <1>4, <1>5, <2>1, <2>4, StackHeightIsInt
  <2>7. pos[o] + animH[o] = DesktopBottom - StackHeight(newer[o], animH)
    BY <1>3, <1>4, <2>5, PopupConstants
  <2>8. pos[q] = DesktopBottom - StackHeight(newer[q], animH) - animH[q]
    BY <1>3, <2>4
  <2>9. pos[o] + animH[o] = pos[q]
    BY <1>4, <2>4, <2>5, <2>6, <2>7, <2>8, PopupConstants
  <2> QED BY <1>8, <2>3, <2>9
<1> QED BY <1>7, <1>8

\* The stack has no gap and no overlap: what slides in at the bottom lifts every
\* older popup by exactly what shows of it, and what goes lowers them by as much.
THEOREM PopupStackAbuts == Spec => []StackAbuts
<1>1. IInv => StackAbuts
  BY ConsistentAbuts
<1> QED BY <1>1, PopupInvariant, PTL

\* The animation never over- or undershoots by more than the code allows for,
\* and no popup on the screen is left without the timer that takes it away.
THEOREM PopupTimers == Spec => []SlidingOK
<1>1. IInv => SlidingOK
  BY DEF IInv, SlidingOK
<1> QED BY <1>1, PopupInvariant, PTL

\* started() and finished() alternate with the contents of the list, and nothing
\* outlives the dialog.
THEOREM PopupSignals == Spec => []SignalsOK
<1>1. IInv => SignalsOK
  BY DEF IInv, SignalsOK
<1> QED BY <1>1, PopupInvariant, PTL

\* One step of the popups never takes one back: not from closing to open, not
\* from hidden or deleted to the screen.
LEMMA StepNoComeback ==
  ASSUME IInv, [Next]_vars, NEW p \in Popups
  PROVE  /\ Alive(p) /\ state[p] = "Closing" => state'[p] = "Closing"
         /\ life[p] = "hidden" => life'[p] \in {"hidden", "dead"}
         /\ life[p] = "dead" => life'[p] = "dead" /\ pos'[p] = pos[p]
<1> DEFINE Kept == /\ Alive(p) /\ state[p] = "Closing" => state'[p] = "Closing"
                   /\ life[p] = "hidden" => life'[p] \in {"hidden", "dead"}
                   /\ life[p] = "dead" => life'[p] = "dead" /\ pos'[p] = pos[p]
<1>1. TypeOK /\ ListsAgree /\ Ownership
  BY DEF IInv
<1>2. p \in list <=> Alive(p)
  BY <1>1 DEF ListsAgree
<1>3. ASSUME NEW h \in Heights, AddPopup(h) PROVE Kept
  BY <1>1, <1>2, <1>3 DEF AddPopup, Draw, Placed, Alive, TypeOK, Ownership, Popups
<1>4. ASSUME NEW q \in Popups, SlideIn(q) PROVE Kept
  BY <1>1, <1>2, <1>4 DEF SlideIn, Draw, Placed, Cascade, Alive, TypeOK
<1>5. ASSUME NEW q \in Popups, SlideOut(q) PROVE Kept
  BY <1>1, <1>2, <1>5 DEF SlideOut, Draw, Placed, Cascade, Alive, TypeOK
<1>6. ASSUME NEW q \in Popups, Click(q) \/ HideTimeout(q) PROVE Kept
  BY <1>1, <1>6 DEF Click, HideTimeout, Hide, TypeOK
<1>7. ASSUME NEW q \in Popups, Delete(q) PROVE Kept
  BY <1>1, <1>2, <1>7 DEF Delete, Draw, Placed, Cascade, Alive, TypeOK
<1>8. CASE CloseDialog
  BY <1>1, <1>2, <1>8 DEF CloseDialog, Placed, Alive, TypeOK
<1>9. CASE UNCHANGED vars
  BY <1>9 DEF vars
<1> QED BY <1>3, <1>4, <1>5, <1>6, <1>7, <1>8, <1>9 DEF Next

\* A popup that closes never opens again and one that is gone never moves.
THEOREM PopupNoComeback == Spec => NoComeback
<1>1. IInv /\ [Next]_vars =>
        [\A p \in Popups :
           /\ Alive(p) /\ state[p] = "Closing" => state'[p] = "Closing"
           /\ life[p] = "hidden" => life'[p] \in {"hidden", "dead"}
           /\ life[p] = "dead" => life'[p] = "dead" /\ pos'[p] = pos[p]]_vars
  BY StepNoComeback
<1> QED BY <1>1, PopupInvariant, PTL DEF Spec, NoComeback

-----------------------------------------------------------------------------

\* Who misreads in a step: with more popups than a run has, and whatever the order
\* of the events, those that have a popup between themselves and a dying one.
LEMMA StepFreedReads ==
  ASSUME IInv, IInv', [Next]_vars
  PROVE  \/ misread' = {o \in list : \E p, q \in newer[o] :
                           q < p /\ life[p] # "dead" /\ life'[p] = "dead"}
         \/ UNCHANGED vars
<1> DEFINE Cut == {o \in list : \E p, q \in newer[o] :
                     q < p /\ life[p] # "dead" /\ life'[p] = "dead"}
<1>1. /\ TypeOK /\ ListsAgree /\ ListsAgree' /\ list \subseteq Popups
      /\ Popups \subseteq Int
  BY DEF IInv, TypeOK, Popups
<1>2. \A o \in list : newer[o] = {p \in list : p > o}
  BY <1>1 DEF ListsAgree
<1>3. \A p \in list : life[p] # "dead"
  BY <1>1 DEF ListsAgree, Alive
<1>4. ASSUME \A p \in list : life'[p] # "dead" PROVE Cut = {}
  BY <1>2, <1>4
<1>5. ASSUME NEW h \in Heights, AddPopup(h) PROVE misread' = Cut
  <2>1. misread' = Misreads({next} \cup list, newer', Dead') /\ next \in Popups
    BY <1>5 DEF AddPopup
  <2>2. misread' = {}
    BY <1>1, <2>1, LivingListsAreReadWell
  <2>3. \A p \in list : life'[p] # "dead"
    BY <1>1, <1>3, <1>5 DEF AddPopup, TypeOK
  <2> QED BY <1>4, <2>2, <2>3
<1>6. ASSUME NEW r \in Popups, SlideIn(r) PROVE misread' = Cut
  <2>1. misread' = Misreads(Cascade(r), newer', Dead') /\ Cascade(r) \subseteq Popups
    BY <1>1, <1>6 DEF SlideIn, Cascade
  <2>2. misread' = {}
    BY <1>1, <2>1, LivingListsAreReadWell
  <2>3. \A p \in list : life'[p] # "dead"
    BY <1>3, <1>6 DEF SlideIn
  <2> QED BY <1>4, <2>2, <2>3
<1>7. ASSUME NEW r \in Popups, SlideOut(r) PROVE misread' = Cut
  <2>1. misread' = Misreads(Cascade(r), newer', Dead') /\ Cascade(r) \subseteq Popups
    BY <1>1, <1>7 DEF SlideOut, Cascade
  <2>2. misread' = {}
    BY <1>1, <2>1, LivingListsAreReadWell
  <2>3. \A p \in list : life'[p] # "dead"
    BY <1>1, <1>3, <1>7 DEF SlideOut, TypeOK
  <2> QED BY <1>4, <2>2, <2>3
<1>8. ASSUME NEW r \in Popups, Click(r) \/ HideTimeout(r) PROVE misread' = Cut
  BY <1>3, <1>4, <1>8 DEF Click, HideTimeout, Hide
<1>9. ASSUME NEW r \in Popups, Delete(r) PROVE misread' = Cut
  <2>1. r \in list /\ misread' = MisreadsAtDeath(r, newer, Dead')
        /\ life' = [life EXCEPT ![r] = "dead"]
    BY <1>1, <1>9 DEF Delete, ListsAgree, Alive
  <2>2. \A p \in list : life'[p] = "dead" <=> p = r
    BY <1>1, <1>3, <2>1 DEF TypeOK
  <2>3. \A o \in list : r \in newer[o] => newer[o] \cap Dead' = {r}
    BY <1>1, <1>2, <2>2 DEF Dead
  <2>4. misread' = {x \in list : \E o \in newer[x] : o < r /\ r \in newer[x]}
    BY <1>1, <2>1, <2>3, MisreadsAtDeathAre
  <2>5. Cut = {x \in list : \E o \in newer[x] : o < r /\ r \in newer[x]}
    BY <1>2, <1>3, <2>2
  <2> QED BY <2>4, <2>5
<1>10. CASE CloseDialog
  <2> DEFINE Nw(p) == [x \in Popups |-> {q \in newer[x] : q <= p}]
             Fr(p) == Dead \cup {q \in list : q >= p}
             At(p) == MisreadsAtDeath(p, Nw(p), Fr(p))
  <2>1. misread' = UNION {At(p) : p \in list} /\ \A p \in list : life'[p] = "dead"
    BY <1>1, <1>10 DEF CloseDialog
  <2>2. ASSUME NEW p \in list
        PROVE  At(p) = {x \in list : \E o \in newer[x] : o < p /\ p \in newer[x]}
    <3>1. \A o \in list : p \in newer[o] => Nw(p)[o] \cap Fr(p) = {p}
      <4> SUFFICES ASSUME NEW o \in list, p \in newer[o], NEW q
                   PROVE  q \in Nw(p)[o] \cap Fr(p) <=> q = p
        OBVIOUS
      <4>1. Nw(p)[o] = {t \in newer[o] : t <= p} /\ newer[o] \subseteq list
        BY <1>1, <1>2
      <4>2. \A t \in list : t \notin Dead /\ t \in Int
        BY <1>1, <1>3 DEF Dead
      <4>3. ASSUME q \in Nw(p)[o] \cap Fr(p) PROVE q = p
        <5>1. q \in list /\ q <= p /\ (q \in Dead \/ q >= p)
          BY <4>1, <4>3
        <5> QED BY <4>2, <5>1
      <4>4. p \in Nw(p)[o] \cap Fr(p)
        BY <4>1, <4>2
      <4> QED BY <4>3, <4>4
    <3> HIDE DEF Nw, Fr
    <3> QED BY <1>1, <3>1, MisreadsAtDeathAre
  <2> HIDE DEF At
  <2>3. \A x : x \in misread' <=>
              \E p \in list : x \in list /\ \E o \in newer[x] : o < p /\ p \in newer[x]
    BY <2>1, <2>2
  <2>4. \A x : x \in Cut <=>
              \E p \in list : x \in list /\ \E o \in newer[x] : o < p /\ p \in newer[x]
    BY <1>2, <1>3, <2>1
  <2> QED BY <2>3, <2>4
<1> QED BY <1>5, <1>6, <1>7, <1>8, <1>9, <1>10 DEF Next

\* The freed memory a draw() reads is that of a popup whose death has been told to
\* a popup in between, and no list outlives the signal with a dead popup in it.
THEOREM PopupFreedReads == Spec => FreedReadInBetween
<1>1. IInv /\ IInv' /\ [Next]_vars =>
        [misread' = {o \in list : \E p, q \in newer[o] :
                       q < p /\ life[p] # "dead" /\ life'[p] = "dead"}]_vars
  BY StepFreedReads
<1> QED BY <1>1, PopupInvariant, PTL DEF Spec, FreedReadInBetween

=============================================================================
