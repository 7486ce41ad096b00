----------------------------- MODULE IconClients -----------------------------
(***************************************************************************)
(* The widgets that show icons of the iconsets (psiwidgets/fancylabel.cpp, *)
(* iconwidget.cpp, iconselect.cpp, psitextview.cpp).  Each activates an    *)
(* icon when it begins to show it and stops it when it ends.  Labels, text *)
(* icons and the display keep a bare pointer to an icon of an Iconset; a   *)
(* row of the list of iconsets keeps an Iconset object of its own, as the  *)
(* selection menu does; a button keeps a copy of its icon.                 *)
(*                                                                         *)
(* The program is as test/main.cpp and test/select.ui.h: it registers its  *)
(* iconsets in the factory, where labels, buttons and text icons look them *)
(* up by name, makes a row of each, hands the menu the iconset of a row,   *)
(* and deletes an iconset after the labels and texts that point into it.   *)
(***************************************************************************)
EXTENDS Integers, Sequences, FiniteSets, Functions

CONSTANTS IconSets,    \* the iconsets the program loads
          IconOrder,   \* the icons of each, in the order of its dictionary
          Labels, Buttons, Texts, Rows,   \* the widgets of each kind
          Display,     \* the modal list of all icons of one iconset
          Menu,        \* the selection menu
          NoSet,       \* an Iconset object that has no icons
          displayNumIcons,   \* icons a row shows
          MenuRoom     \* buttons the menu has room for

Icons == UNION {Range(IconOrder[s]) : s \in IconSets}
Clients == Labels \cup Buttons \cup Texts \cup Rows \cup {Display, Menu}

ASSUME ClientConstants ==
  /\ IsFiniteSet(Clients)
  /\ IconOrder \in [IconSets -> Seq(Icons)]
  /\ \A s, t \in IconSets :
       s # t => Range(IconOrder[s]) \cap Range(IconOrder[t]) = {}
  /\ NoSet \notin IconSets
  /\ Menu \notin Labels \cup Buttons \cup Texts \cup Rows \cup {Display}
  /\ Display \notin Labels \cup Buttons \cup Texts \cup Rows
  /\ Labels \cap (Buttons \cup Texts \cup Rows) = {}
  /\ Buttons \cap (Texts \cup Rows) = {} /\ Texts \cap Rows = {}
  /\ displayNumIcons \in Nat /\ MenuRoom \in Nat

VARIABLES
  program,     \* the iconsets the program keeps and the factory knows
  held,        \* the Iconset object of each row and of the menu
  lit,         \* the icons each client has activated and not yet stopped
  activations, \* activatedCount of each icon
  open,        \* whether the menu is on the screen
  fault        \* a pointer that was freed or null has been used

clientVars == <<program, held, lit, activations, open, fault>>

IconsOf(s) == IF s = NoSet THEN {} ELSE Range(IconOrder[s])
FirstIcons(s, n) ==
  IF s = NoSet THEN {}
  ELSE {IconOrder[s][k] : k \in {j \in DOMAIN IconOrder[s] : j <= n}}

\* Somebody keeps an Iconset object with the data of s.
Alive(s) == s \in program \/ \E h \in DOMAIN held : held[h] = s

\* What labels, buttons and text icons find in the factory.
Registered == UNION {IconsOf(s) : s \in program}

Began(cnt, S) == [i \in Icons |-> IF i \in S THEN cnt[i] + 1 ELSE cnt[i]]

\* Icon::stop() never lets the count become negative.
Ended(cnt, S) ==
  [i \in Icons |-> IF i \notin S THEN cnt[i]
                   ELSE IF cnt[i] - 1 <= 0 THEN 0 ELSE cnt[i] - 1]

\* The client stops the icons it showed and activates those in S.
Shows(c, S) ==
  /\ lit' = [lit EXCEPT ![c] = S]
  /\ activations' = Began(Ended(activations, lit[c]), S)

\* Variant: the row remembers whose iconset it shows and has no copy of it.
RowKeepsNothing(r, s) == held

\* The row takes an Iconset object that shares the data of s.
RowKeeps(r, s) == [held EXCEPT ![r] = s]

\* The buttons of the menu; those beyond its room are not made.
MenuIcons == FirstIcons(held[Menu], MenuRoom)

\* Variant: the animated flag of the buttons is not looked at.
UnlitAll == MenuIcons

\* The buttons aboutToShow() has to activate the icons of.
Unlit == MenuIcons \ lit[Menu]

\* Variant: aboutToHide() leaves the last icon running.
LitButOne == IF lit[Menu] = {} THEN {} ELSE {CHOOSE i \in lit[Menu] : TRUE}

\* The icons that still run when the menu has been hidden.
LitAfterHide == {}

-----------------------------------------------------------------------------

ClientsInit ==
  /\ program = IconSets
  /\ held = [h \in Rows \cup {Menu} |-> NoSet]
  /\ lit = [c \in Clients |-> {}]
  /\ activations = [i \in Icons |-> 0]
  /\ open = FALSE
  /\ fault = "none"

\* IconLabel::setIcon, also with no icon, and the destruction of the label.
SetLabel(l) ==
  /\ fault = "none"
  /\ \E S \in {{i} : i \in Registered} \cup {{}} : Shows(l, S)
  /\ UNCHANGED <<program, held, open, fault>>

\* IconButton::setIcon: the icon of before is stopped and deleted, the new one
\* copied, which a null pointer for an unknown name does not survive.
SetButton(b) ==
  /\ fault = "none"
  /\ \/ \E i \in Registered : Shows(b, {i}) /\ fault' = fault
     \/ Shows(b, {}) /\ fault' = "null"
  /\ UNCHANGED <<program, held, open>>

\* The destruction of a button.
DeleteButton(b) ==
  /\ fault = "none" /\ lit[b] # {}
  /\ Shows(b, {})
  /\ UNCHANGED <<program, held, open, fault>>

\* A TextIcon is made for a tag in a text and goes with the text.
MakeTextIcon(t) ==
  /\ fault = "none" /\ lit[t] = {}
  /\ \E i \in Registered : Shows(t, {i})
  /\ UNCHANGED <<program, held, open, fault>>

DeleteTextIcon(t) ==
  /\ fault = "none" /\ lit[t] # {}
  /\ Shows(t, {})
  /\ UNCHANGED <<program, held, open, fault>>

\* IconsetSelect::insert: a new row shows the first icons of its iconset.
InsertRow(r) ==
  /\ fault = "none" /\ held[r] = NoSet /\ lit[r] = {}
  /\ \E s \in program :
       /\ Shows(r, FirstIcons(s, displayNumIcons))
       /\ held' = RowKeeps(r, s)
  /\ UNCHANGED <<program, open, fault>>

\* ~IconsetSelectItem: the icons are stopped, then the Iconset object goes.  A
\* modal display of its icons is closed before.
DeleteRow(r) ==
  /\ fault = "none" /\ held[r] # NoSet /\ lit[Display] = {}
  /\ Shows(r, {})
  /\ held' = [held EXCEPT ![r] = NoSet]
  /\ UNCHANGED <<program, open, fault>>

\* SelectDlg::displayAll: a dialog with all icons of the selected row.
OpenDisplay ==
  /\ fault = "none" /\ lit[Display] = {}
  /\ \E r \in Rows : held[r] # NoSet /\ Shows(Display, IconsOf(held[r]))
  /\ UNCHANGED <<program, held, open, fault>>

CloseDisplay ==
  /\ fault = "none" /\ lit[Display] # {}
  /\ Shows(Display, {})
  /\ UNCHANGED <<program, held, open, fault>>

\* IconSelect::setIconset, and with NoSet also ~IconSelect: the Iconset object
\* of before goes first, then its buttons, each of which disconnects from its
\* icon and stops it if it had activated it.
MenuTakes(s) ==
  LET gone == held[Menu] IN
  /\ fault = "none"
  /\ held' = [held EXCEPT ![Menu] = s]
  /\ Shows(Menu, {})
  /\ fault' = IF MenuIcons # {} /\ gone # s /\ gone \notin program
                   /\ \A r \in Rows : held[r] # gone
              THEN "freed" ELSE fault
  /\ UNCHANGED <<program, open>>

SetMenu ==
  \E s \in {held[r] : r \in Rows} \cup {NoSet} : MenuTakes(s)

\* aboutToShow() reaches every button.  The menu may be popped up again while
\* it is on the screen.
MenuAboutToShow ==
  /\ fault = "none"
  /\ lit' = [lit EXCEPT ![Menu] = @ \cup Unlit]
  /\ activations' = Began(activations, Unlit)
  /\ open' = TRUE
  /\ UNCHANGED <<program, held, fault>>

MenuAboutToHide ==
  /\ fault = "none" /\ open
  /\ lit' = [lit EXCEPT ![Menu] = LitAfterHide]
  /\ activations' = Ended(activations, lit[Menu] \ LitAfterHide)
  /\ open' = FALSE
  /\ UNCHANGED <<program, held, fault>>

\* The program deletes an iconset, which leaves the factory, when no label and
\* no text shows an icon of it any more.
DeleteIconset(s) ==
  /\ fault = "none" /\ s \in program
  /\ \A c \in Labels \cup Texts : lit[c] \cap IconsOf(s) = {}
  /\ program' = program \ {s}
  /\ UNCHANGED <<held, lit, activations, open, fault>>

ClientsNext ==
  \/ \E l \in Labels : SetLabel(l)
  \/ \E b \in Buttons : SetButton(b) \/ DeleteButton(b)
  \/ \E t \in Texts : MakeTextIcon(t) \/ DeleteTextIcon(t)
  \/ \E r \in Rows : InsertRow(r) \/ DeleteRow(r)
  \/ OpenDisplay \/ CloseDisplay
  \/ SetMenu \/ MenuAboutToShow \/ MenuAboutToHide
  \/ \E s \in IconSets : DeleteIconset(s)

ClientsSpec == ClientsInit /\ [][ClientsNext]_clientVars

-----------------------------------------------------------------------------

ClientsTypeOK ==
  /\ program \in SUBSET IconSets
  /\ held \in [Rows \cup {Menu} -> IconSets \cup {NoSet}]
  /\ lit \in [Clients -> SUBSET Icons]
  /\ activations \in [Icons -> Nat]
  /\ open \in BOOLEAN
  /\ fault \in {"none", "freed", "null"}

\* "For EACH activated() function call there must be associated stop() call"
\* (iconset.cpp:580): the count of every icon is the number of widgets that
\* show it, whatever is set, exchanged, opened, closed and deleted in between.
ActivationsPaired ==
  \A i \in Icons : activations[i] = Cardinality({c \in Clients : i \in lit[c]})

\* No widget with a bare pointer shows an icon of an iconset that is freed: the
\* rows and the menu keep their own Iconset objects for that, and a display is
\* closed before its row goes.  Buttons show copies.
ShownAreAlive ==
  fault = "none" =>
    \A c \in Clients \ Buttons : \A s \in IconSets :
      lit[c] \cap IconsOf(s) # {} => Alive(s)

\* A menu that is not on the screen has no icon running, also when its iconset
\* was exchanged while it was.
HiddenMenuRests == ~open => lit[Menu] = {}
=============================================================================
