------------------------------ MODULE WindowSnap ------------------------------
(***************************************************************************)
(* Windows that stick to the edges of the screen and of other windows      *)
(* (advwidget/advwidget.cpp, the Windows build): posChanging() adjusts the *)
(* geometry that the system is about to give the window.  It goes through  *)
(* a list of the top-level windows that all advanced widgets share, that   *)
(* is made at the first change and deleted 250 ms after the last one.      *)
(*                                                                         *)
(* A geometry has two axes, each with the position and the size of the     *)
(* frame.  The other windows are plain ones that open and close; all are   *)
(* on one screen.                                                          *)
(***************************************************************************)
EXTENDS Integers, Sequences, SequencesExt

CONSTANTS Others,      \* the other top-level windows
          OtherGeo,    \* the geometry of each
          Desktop,     \* stands for the desktop widget in the list
          Screen,      \* its available geometry
          Proposals,   \* geometries the window is moved and resized to
          StickAts     \* values of stickAt

Axes == {"x", "y"}
Geometries == [Axes -> [pos : Int, size : Int]]

ASSUME SnapConstants ==
  /\ Desktop \notin Others
  /\ OtherGeo \in [Others -> Geometries] /\ Screen \in Geometries
  /\ Proposals \subseteq Geometries /\ Proposals # {}
  /\ StickAts \subseteq Int

VARIABLES
  geo,            \* frame geometry of the window
  opened,         \* the other windows that exist
  topWidgets,     \* the shared list, <<>> when there is none
  listTimer,      \* whether topWidgetsTimer runs
  stickAt, stickToWindows, stickEnabled,
  dangled         \* a pointer to a closed window has been used

snapVars == <<geo, opened, topWidgets, listTimer, stickAt,
              stickToWindows, stickEnabled, dangled>>

Far(a) == a.pos + a.size - 1
OtherAxis(k) == IF k = "x" THEN "y" ELSE "x"

\* Whether the window, where it is now, overlaps w on axis k.
Overlaps(w, k) ==
  Far(geo[k]) >= OtherGeo[w][k].pos /\ geo[k].pos <= Far(OtherGeo[w][k])

\* The edges on axis k that stick, low for the near side of the window and
\* high for its far side: of the screen the inner, of a window the outer ones.
LowEdge(w, k) == IF w = Desktop THEN Screen[k].pos ELSE Far(OtherGeo[w][k])
HighEdge(w, k) == IF w = Desktop THEN Far(Screen[k]) ELSE OtherGeo[w][k].pos
Sticks(w, k) == w = Desktop \/ Overlaps(w, OtherAxis(k))

\* Variant: the near side is looked at also when it does not move.
NearLowAlways(o, a, edge) == a.pos <= edge + stickAt /\ a.pos > edge - stickAt

\* Whether the near side of the window, at o before, comes to stick at edge.
NearLow(o, a, edge) ==
  a.pos # o.pos /\ a.pos <= edge + stickAt /\ a.pos > edge - stickAt

NearHigh(a, edge) ==
  a.pos + a.size >= edge - stickAt /\ a.pos + a.size <= edge + stickAt

\* One axis of a proposed geometry, made to stick to w: first its near side,
\* then its far side.  In resizing the near side takes the far side of before
\* with it.
AxisSnapped(k, a, w, resizing) ==
  LET o == geo[k]
      low == LowEdge(w, k)
      high == HighEdge(w, k)
      b == IF Sticks(w, k) /\ NearLow(o, a, low)
           THEN [pos |-> low,
                 size |-> IF resizing THEN o.size + o.pos - low ELSE a.size]
           ELSE a
  IN IF ~(Sticks(w, k) /\ NearHigh(b, high)) THEN b
     ELSE IF resizing THEN [b EXCEPT !.size = high - b.pos + 1]
     ELSE [b EXCEPT !.pos = high - b.size + 1]

Resizing(q) == \E k \in Axes : q[k].size # geo[k].size

\* Both axes of the geometry g, made to stick to w in moving and in resizing.
Dragged(g, w) == [k \in Axes |-> AxisSnapped(k, g[k], w, FALSE)]
Resized(g, w) == [k \in Axes |-> AxisSnapped(k, g[k], w, TRUE)]

\* posChanging() for the proposal q with the given list.
PosChanging(list, q) ==
  IF Resizing(q) THEN FoldLeft(Resized, q, list) ELSE FoldLeft(Dragged, q, list)

\* The lists that can be made now, in whatever order the windows come.
NewLists ==
  IF stickToWindows THEN {Append(s, Desktop) : s \in SetToSeqs(opened)}
                    ELSE {<<Desktop>>}

\* Variant: only a list that is there already gets its time prolonged.
ProlongsList == topWidgets # <<>>

\* Whether a change starts the timer of the list.
StartsTimer == TRUE

-----------------------------------------------------------------------------

SnapInit ==
  /\ geo \in Proposals
  /\ opened = {} /\ topWidgets = <<>> /\ listTimer = FALSE
  /\ stickAt \in StickAts
  /\ stickToWindows = TRUE /\ stickEnabled = TRUE
  /\ dangled = FALSE

\* WM_WINDOWPOSCHANGING when nothing sticks.
MoveFreely(q) ==
  /\ ~dangled /\ (stickAt <= 0 \/ ~stickEnabled)
  /\ geo' = q
  /\ UNCHANGED <<opened, topWidgets, listTimer, stickAt, stickToWindows,
                 stickEnabled, dangled>>

\* WM_WINDOWPOSCHANGING otherwise.  The list may have pointers to windows that
\* were closed since it was made.
Move(q) ==
  /\ ~dangled /\ stickAt > 0 /\ stickEnabled /\ q # geo
  /\ listTimer' = (listTimer \/ StartsTimer)
  /\ topWidgets' \in IF topWidgets = <<>> THEN NewLists ELSE {topWidgets}
  /\ IF ToSet(topWidgets') \subseteq opened \cup {Desktop}
     THEN geo' = PosChanging(topWidgets', q) /\ dangled' = dangled
     ELSE geo' = geo /\ dangled' = TRUE
  /\ UNCHANGED <<opened, stickAt, stickToWindows, stickEnabled>>

\* deleteTopWidgets(), of a single-shot timer.
DeleteTopWidgets ==
  /\ ~dangled /\ listTimer
  /\ listTimer' = FALSE /\ topWidgets' = <<>>
  /\ UNCHANGED <<geo, opened, stickAt, stickToWindows, stickEnabled, dangled>>

\* Another window is created or deleted.
OpenOrClose(w) ==
  /\ ~dangled
  /\ opened' = IF w \in opened THEN opened \ {w} ELSE opened \cup {w}
  /\ UNCHANGED <<geo, topWidgets, listTimer, stickAt, stickToWindows,
                 stickEnabled, dangled>>

\* setStickAt, setStickToWindows and setStickEnabled.
SetStick ==
  /\ ~dangled
  /\ \/ stickAt' \in StickAts /\ UNCHANGED <<stickToWindows, stickEnabled>>
     \/ stickToWindows' \in BOOLEAN /\ UNCHANGED <<stickAt, stickEnabled>>
     \/ stickEnabled' \in BOOLEAN /\ UNCHANGED <<stickAt, stickToWindows>>
  /\ UNCHANGED <<geo, opened, topWidgets, listTimer, dangled>>

SnapNext ==
  \/ \E q \in Proposals : MoveFreely(q) \/ Move(q)
  \/ DeleteTopWidgets
  \/ \E w \in Others : OpenOrClose(w)
  \/ SetStick

SnapSpec == SnapInit /\ [][SnapNext]_snapVars

-----------------------------------------------------------------------------

SnapTypeOK ==
  /\ geo \in Geometries
  /\ opened \in SUBSET Others
  /\ topWidgets \in Seq(Others \cup {Desktop})
  /\ stickAt \in StickAts
  /\ listTimer \in BOOLEAN /\ stickToWindows \in BOOLEAN
  /\ stickEnabled \in BOOLEAN /\ dangled \in BOOLEAN

\* A pointer to a window that was closed since the list was made is used, if at
\* all, while the timer of the list runs: without a timer there is no list.
StaleWhileTimed == topWidgets # <<>> => listTimer

\* The geometry q was asked for, and the window was given one that is as asked or
\* flush with an edge it faces, without a gap and off by none.  In resizing the
\* near side stays when it is not dragged, and the far side stays, goes where it
\* is asked to or to an edge.
ComesFlush(q) ==
  \A k \in Axes :
    LET facing == {w \in ToSet(topWidgets') : Sticks(w, k)}
        lows == {LowEdge(w, k) : w \in facing}
        highs == {HighEdge(w, k) : w \in facing}
        ask == q[k]
        old == geo[k]
        new == geo'[k]
    IN IF Resizing(q)
       THEN /\ new.pos \in {ask.pos} \cup lows
            /\ ask.pos = old.pos => new.pos = old.pos
            /\ Far(new) \in {Far(ask), Far(old)} \cup highs
       ELSE /\ new.size = old.size
            /\ new.pos = ask.pos \/ new.pos \in lows \/ Far(new) \in highs

\* What sticking does to a change (lines 175 to 221): whatever windows are in the
\* list, and in whatever order, the window comes to be flush or where it is asked
\* to be.
FlushOrAsAsked ==
  [][\A q \in Proposals : Move(q) /\ ~dangled' => ComesFlush(q)]_snapVars
=============================================================================
