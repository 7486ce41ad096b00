----------------------------- MODULE PartsProofs -----------------------------
(***************************************************************************)
(* Theorems about the components that do not interact, each for all values *)
(* of its constants: what the clients of icons show (IconClients), where a *)
(* window sticks (WindowSnap), when it stops to flash (WindowFlash), what  *)
(* XData objects share (XDataShared), and what a form makes of its fields  *)
(* (XDataForm).  Those about options, addresses and vCards are in          *)
(* TextProofs; the last ones here are about all of them together           *)
(* (Components).                                                           *)
(*                                                                         *)
(* The fold over a list of windows is an instance of FoldLemmas.           *)
(***************************************************************************)
EXTENDS Components, TextProofs

Showers(i) == {c \in Clients : i \in lit[c]}

CInv == ClientsTypeOK /\ ActivationsPaired

\* Finitely many clients show an icon, and none of them do when their number is
\* zero.
LEMMA ShowersFinite ==
  ASSUME NEW i
  PROVE  /\ IsFiniteSet(Showers(i)) /\ Cardinality(Showers(i)) \in Nat
         /\ Cardinality(Showers(i)) = 0 <=> Showers(i) = {}
<1>1. IsFiniteSet(Showers(i))
  BY ClientConstants, FS_Subset DEF Showers
<1> QED BY <1>1, FS_CardinalityType, FS_EmptySet

\* The widgets that show an icon when one of them shows other icons than before.
LEMMA ShowersChange ==
  ASSUME ClientsTypeOK, NEW c \in Clients, NEW S \in SUBSET Icons,
         lit' = [lit EXCEPT ![c] = S], NEW i \in Icons
  PROVE  /\ i \in S => Cardinality(Showers(i)') =
              IF i \in lit[c] THEN Cardinality(Showers(i)) ELSE Cardinality(Showers(i)) + 1
         /\ i \notin S => Cardinality(Showers(i)') =
              IF i \in lit[c] THEN Cardinality(Showers(i)) - 1 ELSE Cardinality(Showers(i))
<1>1. IsFiniteSet(Showers(i))
  BY ShowersFinite
<1>2. c \in Showers(i) <=> i \in lit[c]
  BY DEF Showers
<1>3. CASE i \in S
  <2>1. Showers(i)' = Showers(i) \cup {c}
    BY <1>3 DEF Showers, ClientsTypeOK
  <2> QED BY <1>1, <1>2, <1>3, <2>1, FS_AddElement
<1>4. CASE i \notin S
  <2>1. Showers(i)' = Showers(i) \ {c}
    BY <1>4 DEF Showers, ClientsTypeOK
  <2> QED BY <1>1, <1>2, <1>4, <2>1, FS_RemoveElement
<1> QED BY <1>3, <1>4

\* stop() of the icons a widget shows takes one from their counts, which are not
\* at 0 then: the clamp in Icon::stop() has nothing to do.
LEMMA EndedCounts ==
  ASSUME CInv, NEW c \in Clients, NEW S \in SUBSET lit[c], NEW i \in Icons
  PROVE  /\ activations[i] = Cardinality(Showers(i)) /\ activations[i] \in Nat
         /\ Ended(activations, S)[i] = IF i \in S THEN activations[i] - 1 ELSE activations[i]
         /\ i \in S => activations[i] >= 1
<1>1. activations[i] = Cardinality(Showers(i)) /\ activations[i] \in Nat
  BY DEF CInv, ActivationsPaired, ClientsTypeOK, Showers
<1>2. i \in S => activations[i] # 0
  BY <1>1, ShowersFinite DEF Showers
<1> QED BY <1>1, <1>2 DEF Ended

\* A widget that shows other icons stops and activates exactly the right ones.
LEMMA ShowsKeeps ==
  ASSUME CInv, NEW c \in Clients, NEW S \in SUBSET Icons, Shows(c, S)
  PROVE  lit' \in [Clients -> SUBSET Icons] /\ activations' \in [Icons -> Nat]
         /\ ActivationsPaired'
<1>1. lit' = [lit EXCEPT ![c] = S]
  BY DEF Shows
<1>2. ASSUME NEW i \in Icons
      PROVE  activations'[i] = Cardinality(Showers(i)') /\ activations'[i] \in Nat
  <2>1. /\ activations[i] = Cardinality(Showers(i)) /\ activations[i] \in Nat
        /\ Ended(activations, lit[c])[i] =
             IF i \in lit[c] THEN activations[i] - 1 ELSE activations[i]
        /\ i \in lit[c] => activations[i] >= 1
    BY EndedCounts
  <2>2. activations'[i] = IF i \in S THEN Ended(activations, lit[c])[i] + 1
                          ELSE Ended(activations, lit[c])[i]
    BY DEF Shows, Began
  <2>3. ClientsTypeOK
    BY DEF CInv
  <2>4. /\ i \in S => Cardinality(Showers(i)') =
             IF i \in lit[c] THEN Cardinality(Showers(i)) ELSE Cardinality(Showers(i)) + 1
        /\ i \notin S => Cardinality(Showers(i)') =
             IF i \in lit[c] THEN Cardinality(Showers(i)) - 1 ELSE Cardinality(Showers(i))
    BY <1>1, <2>3, ShowersChange
  <2> QED BY <2>1, <2>2, <2>4
<1>3. activations' = [i \in Icons |-> activations'[i]]
  BY DEF Shows, Began
<1>4. activations' \in [Icons -> Nat]
  BY <1>2, <1>3
<1>5. lit' \in [Clients -> SUBSET Icons]
  BY <1>1 DEF CInv, ClientsTypeOK
<1> QED BY <1>2, <1>4, <1>5 DEF ActivationsPaired, Showers

\* The icons of iconsets, the first few of one and those that are found by name.
LEMMA IconsAreIcons ==
  /\ \A s \in IconSets \cup {NoSet} : IconsOf(s) \in SUBSET Icons
  /\ \A s \in IconSets \cup {NoSet}, n \in Nat :
       FirstIcons(s, n) \in SUBSET IconsOf(s)
  /\ ClientsTypeOK => Registered \in SUBSET Icons
<1>1. ASSUME NEW s \in IconSets \cup {NoSet} PROVE IconsOf(s) \in SUBSET Icons
  BY <1>1 DEF IconsOf, Icons
<1>2. ASSUME NEW s \in IconSets \cup {NoSet}, NEW n \in Nat
      PROVE  FirstIcons(s, n) \in SUBSET IconsOf(s)
  BY <1>2 DEF FirstIcons, IconsOf, Range
<1>3. ASSUME ClientsTypeOK PROVE Registered \in SUBSET Icons
  BY <1>1, <1>3 DEF Registered, ClientsTypeOK
<1> QED BY <1>1, <1>2, <1>3

\* The menu shows icons of the iconset it holds.
LEMMA MenuIconsAreIcons ==
  ASSUME ClientsTypeOK
  PROVE  MenuIcons \in SUBSET IconsOf(held[Menu]) /\ MenuIcons \in SUBSET Icons
<1>1. held[Menu] \in IconSets \cup {NoSet}
  BY DEF ClientsTypeOK
<1> QED BY <1>1, IconsAreIcons, ClientConstants DEF MenuIcons

\* Opening the menu activates each of its icons once.
LEMMA MenuShowKeeps ==
  ASSUME CInv, MenuAboutToShow
  PROVE  lit' \in [Clients -> SUBSET Icons] /\ activations' \in [Icons -> Nat]
         /\ ActivationsPaired'
<1>1. ClientsTypeOK /\ Menu \in Clients /\ Unlit \in SUBSET Icons
      /\ Unlit \cap lit[Menu] = {} /\ lit[Menu] \in SUBSET Icons
  BY MenuIconsAreIcons DEF CInv, ClientsTypeOK, Clients, Unlit
<1>2. lit' = [lit EXCEPT ![Menu] = lit[Menu] \cup Unlit]
  BY DEF MenuAboutToShow
<1>3. ASSUME NEW i \in Icons
      PROVE  activations'[i] = Cardinality(Showers(i)') /\ activations'[i] \in Nat
  <2>1. activations[i] = Cardinality(Showers(i)) /\ activations[i] \in Nat
    BY DEF CInv, ActivationsPaired, ClientsTypeOK, Showers
  <2>2. activations'[i] = IF i \in Unlit THEN activations[i] + 1 ELSE activations[i]
    BY DEF MenuAboutToShow, Began
  <2>3. Cardinality(Showers(i)') =
          IF i \in Unlit THEN Cardinality(Showers(i)) + 1 ELSE Cardinality(Showers(i))
    <3>1. PICK S \in SUBSET Icons : S = lit[Menu] \cup Unlit
      BY <1>1
    <3>2. lit' = [lit EXCEPT ![Menu] = S]
      BY <1>2, <3>1
    <3>3. /\ i \in S => Cardinality(Showers(i)') =
               IF i \in lit[Menu] THEN Cardinality(Showers(i)) ELSE Cardinality(Showers(i)) + 1
          /\ i \notin S => Cardinality(Showers(i)') =
               IF i \in lit[Menu] THEN Cardinality(Showers(i)) - 1 ELSE Cardinality(Showers(i))
      BY <1>1, <3>2, ShowersChange
    <3> QED BY <1>1, <3>1, <3>3
  <2> QED BY <2>1, <2>2, <2>3
<1>4. activations' = [i \in Icons |-> activations'[i]]
  BY DEF MenuAboutToShow, Began
<1>5. activations' \in [Icons -> Nat]
  BY <1>3, <1>4
<1>6. lit' \in [Clients -> SUBSET Icons]
  BY <1>1, <1>2 DEF ClientsTypeOK
<1> QED BY <1>3, <1>5, <1>6 DEF ActivationsPaired, Showers

\* Closing the menu stops each of the icons it has activated.
LEMMA MenuHideKeeps ==
  ASSUME CInv, MenuAboutToHide
  PROVE  lit' \in [Clients -> SUBSET Icons] /\ activations' \in [Icons -> Nat]
         /\ ActivationsPaired'
<1>1. ClientsTypeOK /\ Menu \in Clients /\ {} \in SUBSET Icons
      /\ lit' = [lit EXCEPT ![Menu] = {}] /\ activations' = Ended(activations, lit[Menu])
  <2>1. lit[Menu] \ {} = lit[Menu]
    OBVIOUS
  <2> QED BY <2>1 DEF CInv, Clients, MenuAboutToHide, LitAfterHide
<1>2. ASSUME NEW i \in Icons
      PROVE  activations'[i] = Cardinality(Showers(i)') /\ activations'[i] \in Nat
  <2>1. /\ activations[i] = Cardinality(Showers(i)) /\ activations[i] \in Nat
        /\ Ended(activations, lit[Menu])[i] =
             IF i \in lit[Menu] THEN activations[i] - 1 ELSE activations[i]
        /\ i \in lit[Menu] => activations[i] >= 1
    BY <1>1, EndedCounts
  <2>2. Cardinality(Showers(i)') =
          IF i \in lit[Menu] THEN Cardinality(Showers(i)) - 1 ELSE Cardinality(Showers(i))
    BY <1>1, ShowersChange
  <2> QED BY <1>1, <2>1, <2>2
<1>3. activations' = [i \in Icons |-> activations'[i]]
  BY <1>1 DEF Ended
<1>4. activations' \in [Icons -> Nat]
  BY <1>2, <1>3
<1>5. lit' \in [Clients -> SUBSET Icons]
  BY <1>1 DEF ClientsTypeOK
<1> QED BY <1>2, <1>4, <1>5 DEF ActivationsPaired, Showers

\* Every step keeps the counts equal to the numbers of widgets that show an icon.
LEMMA StepKeepsCounts ==
  ASSUME CInv, [ClientsNext]_clientVars
  PROVE  CInv'
<1> USE DEF CInv
<1>0. /\ program \in SUBSET IconSets
      /\ held \in [Rows \cup {Menu} -> IconSets \cup {NoSet}]
      /\ open \in BOOLEAN /\ fault \in {"none", "freed", "null"}
      /\ Registered \in SUBSET Icons /\ {} \in SUBSET Icons
      /\ \A i \in Registered : {i} \in SUBSET Icons
  BY IconsAreIcons DEF ClientsTypeOK
<1>1. ASSUME NEW l \in Labels, SetLabel(l) PROVE CInv'
  <2>1. PICK S \in SUBSET Icons : Shows(l, S)
    BY <1>0, <1>1 DEF SetLabel
  <2>2. l \in Clients
    BY DEF Clients
  <2> QED BY <1>0, <1>1, <2>1, <2>2, ShowsKeeps DEF SetLabel, ClientsTypeOK
<1>2. ASSUME NEW b \in Buttons, SetButton(b) PROVE CInv'
  <2>1. PICK S \in SUBSET Icons : Shows(b, S)
    BY <1>0, <1>2 DEF SetButton
  <2>2. b \in Clients
    BY DEF Clients
  <2> QED BY <1>0, <1>2, <2>1, <2>2, ShowsKeeps DEF SetButton, ClientsTypeOK
<1>3. ASSUME NEW b \in Buttons, DeleteButton(b) PROVE CInv'
  <2>1. b \in Clients
    BY DEF Clients
  <2> QED BY <1>0, <1>3, <2>1, ShowsKeeps DEF DeleteButton, ClientsTypeOK
<1>4. ASSUME NEW t \in Texts, MakeTextIcon(t) PROVE CInv'
  <2>1. PICK S \in SUBSET Icons : Shows(t, S)
    BY <1>0, <1>4 DEF MakeTextIcon
  <2>2. t \in Clients
    BY DEF Clients
  <2> QED BY <1>0, <1>4, <2>1, <2>2, ShowsKeeps DEF MakeTextIcon, ClientsTypeOK
<1>5. ASSUME NEW t \in Texts, DeleteTextIcon(t) PROVE CInv'
  <2>1. t \in Clients
    BY DEF Clients
  <2> QED BY <1>0, <1>5, <2>1, ShowsKeeps DEF DeleteTextIcon, ClientsTypeOK
<1>6. ASSUME NEW r \in Rows, InsertRow(r) PROVE CInv'
  <2>1. PICK s \in program : /\ Shows(r, FirstIcons(s, displayNumIcons))
                             /\ held' = [held EXCEPT ![r] = s]
    BY <1>6 DEF InsertRow, RowKeeps
  <2>2. FirstIcons(s, displayNumIcons) \in SUBSET Icons /\ r \in Clients
    BY <1>0, IconsAreIcons, ClientConstants DEF Clients
  <2>3. held' \in [Rows \cup {Menu} -> IconSets \cup {NoSet}]
    BY <1>0, <2>1
  <2> QED BY <1>0, <1>6, <2>1, <2>2, <2>3, ShowsKeeps DEF InsertRow, ClientsTypeOK
<1>7. ASSUME NEW r \in Rows, DeleteRow(r) PROVE CInv'
  <2>1. r \in Clients
    BY DEF Clients
  <2>2. held' \in [Rows \cup {Menu} -> IconSets \cup {NoSet}]
    BY <1>0, <1>7 DEF DeleteRow
  <2> QED BY <1>0, <1>7, <2>1, <2>2, ShowsKeeps DEF DeleteRow, ClientsTypeOK
<1>8. CASE OpenDisplay
  <2>1. PICK r \in Rows : Shows(Display, IconsOf(held[r]))
    BY <1>8 DEF OpenDisplay
  <2>2. IconsOf(held[r]) \in SUBSET Icons /\ Display \in Clients
    BY <1>0, IconsAreIcons DEF Clients
  <2> QED BY <1>0, <1>8, <2>1, <2>2, ShowsKeeps DEF OpenDisplay, ClientsTypeOK
<1>9. CASE CloseDisplay
  <2>1. Display \in Clients
    BY DEF Clients
  <2> QED BY <1>0, <1>9, <2>1, ShowsKeeps DEF CloseDisplay, ClientsTypeOK
<1>10. CASE SetMenu
  <2>1. PICK s \in {held[r] : r \in Rows} \cup {NoSet} : MenuTakes(s)
    BY <1>10 DEF SetMenu
  <2>2. Menu \in Clients /\ s \in IconSets \cup {NoSet}
    BY <1>0 DEF Clients
  <2>3. held' \in [Rows \cup {Menu} -> IconSets \cup {NoSet}]
    BY <1>0, <2>1, <2>2 DEF MenuTakes
  <2> QED BY <1>0, <2>1, <2>2, <2>3, ShowsKeeps DEF MenuTakes, ClientsTypeOK
<1>11. CASE MenuAboutToShow
  BY <1>0, <1>11, MenuShowKeeps DEF MenuAboutToShow, ClientsTypeOK
<1>12. CASE MenuAboutToHide
  BY <1>0, <1>12, MenuHideKeeps DEF MenuAboutToHide, ClientsTypeOK
<1>13. ASSUME NEW s \in IconSets, DeleteIconset(s) PROVE CInv'
  BY <1>0, <1>13 DEF DeleteIconset, ClientsTypeOK, ActivationsPaired
<1>14. CASE UNCHANGED clientVars
  BY <1>14 DEF clientVars, ClientsTypeOK, ActivationsPaired
<1> QED
  BY <1>1, <1>2, <1>3, <1>4, <1>5, <1>6, <1>7, <1>8, <1>9, <1>10, <1>11, <1>12,
     <1>13, <1>14 DEF ClientsNext

\* The count of every icon is the number of widgets that show it, in every
\* behaviour (activated() and stop() in iconwidget.cpp, iconselect.cpp).
THEOREM ClientsCounts == ClientsSpec => []CInv
<1>1. ASSUME ClientsInit PROVE CInv
  <2>1. ClientsTypeOK
    BY <1>1 DEF ClientsInit, ClientsTypeOK
  <2>2. ASSUME NEW i \in Icons
        PROVE  activations[i] = Cardinality({c \in Clients : i \in lit[c]})
    <3>1. {c \in Clients : i \in lit[c]} = {} /\ activations[i] = 0
      BY <1>1 DEF ClientsInit
    <3> QED BY <3>1, FS_EmptySet
  <2> QED BY <2>1, <2>2 DEF CInv, ActivationsPaired
<1> QED BY <1>1, StepKeepsCounts, PTL DEF ClientsSpec

\* Widgets, iconsets and counts keep their types; no count becomes negative.
THEOREM ClientsTypes == ClientsSpec => []ClientsTypeOK
<1>1. CInv => ClientsTypeOK
  BY DEF CInv
<1> QED BY <1>1, ClientsCounts, PTL

\* For each activated() there is a stop(), whatever widgets are set, exchanged,
\* opened, closed and deleted in whatever order.
THEOREM ClientsPaired == ClientsSpec => []ActivationsPaired
<1>1. CInv => ActivationsPaired
  BY DEF CInv
<1> QED BY <1>1, ClientsCounts, PTL

\* What keeps the icons that a widget points to: the Iconset objects of rows and
\* menu for their own, a row for the display, the factory for labels and texts.
Anchored ==
  /\ \A r \in Rows : lit[r] \subseteq IconsOf(held[r])
  /\ lit[Menu] \subseteq IconsOf(held[Menu])
  /\ lit[Display] # {} => \E r \in Rows : lit[Display] \subseteq IconsOf(held[r])
  /\ \A c \in Labels \cup Texts : lit[c] \subseteq Registered
  /\ HiddenMenuRests

\* Every step keeps what a widget shows anchored.
LEMMA StepKeepsAnchors ==
  ASSUME ClientsTypeOK, Anchored, [ClientsNext]_clientVars
  PROVE  Anchored'
<1>0. /\ program \in SUBSET IconSets
      /\ held \in [Rows \cup {Menu} -> IconSets \cup {NoSet}]
      /\ lit \in [Clients -> SUBSET Icons]
      /\ Rows \subseteq Clients /\ Menu \in Clients /\ Display \in Clients
      /\ Labels \cup Texts \subseteq Clients /\ Buttons \subseteq Clients
      /\ Menu # Display /\ Menu \notin Labels \cup Buttons \cup Texts \cup Rows
      /\ Display \notin Labels \cup Buttons \cup Texts \cup Rows
      /\ Rows \cap (Labels \cup Buttons \cup Texts) = {}
      /\ Buttons \cap (Labels \cup Texts) = {}
  BY ClientConstants DEF ClientsTypeOK, Clients
<1>1. ASSUME NEW c \in Labels \cup Texts, NEW S \in SUBSET Registered, Shows(c, S),
             UNCHANGED <<program, held, open>>
      PROVE  Anchored'
  <2>1. Registered' = Registered
    BY <1>1 DEF Registered, IconsOf
  <2> QED BY <1>0, <1>1, <2>1 DEF Shows, Anchored, HiddenMenuRests, IconsOf
<1>2. ASSUME NEW b \in Buttons, NEW S, Shows(b, S), UNCHANGED <<program, held, open>>
      PROVE  Anchored'
  <2>1. Registered' = Registered
    BY <1>2 DEF Registered, IconsOf
  <2> QED BY <1>0, <1>2, <2>1 DEF Shows, Anchored, HiddenMenuRests, IconsOf
<1>3. ASSUME NEW r \in Rows, InsertRow(r) PROVE Anchored'
  <2>1. PICK s \in program : /\ Shows(r, FirstIcons(s, displayNumIcons))
                             /\ held' = [held EXCEPT ![r] = s]
    BY <1>3 DEF InsertRow, RowKeeps
  <2>2. FirstIcons(s, displayNumIcons) \subseteq IconsOf(s)
    BY <1>0, IconsAreIcons, ClientConstants
  <2>3. Registered' = Registered /\ open' = open /\ held[r] = NoSet
    BY <1>3 DEF InsertRow, Registered, IconsOf
  <2>4. /\ \A k \in Rows : k # r => held'[k] = held[k] /\ lit'[k] = lit[k]
        /\ held'[r] = s /\ lit'[r] = FirstIcons(s, displayNumIcons)
        /\ held'[Menu] = held[Menu] /\ lit'[Menu] = lit[Menu] /\ lit'[Display] = lit[Display]
        /\ \A c \in Labels \cup Texts : lit'[c] = lit[c]
    BY <1>0, <2>1 DEF Shows
  <2>5. IconsOf(NoSet) = {} /\ \A k \in Rows : IconsOf(held[k])' = IconsOf(held'[k])
    BY DEF IconsOf
  <2>6. lit'[Display] # {} => \E k \in Rows : lit'[Display] \subseteq IconsOf(held'[k])
    <3>1. ASSUME lit[Display] # {} PROVE \E k \in Rows : lit[Display] \subseteq IconsOf(held'[k])
      <4>1. PICK k \in Rows : lit[Display] \subseteq IconsOf(held[k])
        BY <3>1 DEF Anchored
      <4>2. k # r
        BY <2>3, <2>5, <3>1, <4>1
      <4> QED BY <2>4, <4>1, <4>2
    <3> QED BY <2>4, <3>1
  <2> QED BY <2>2, <2>3, <2>4, <2>6 DEF Anchored, HiddenMenuRests, IconsOf
<1>4. ASSUME NEW r \in Rows, DeleteRow(r) PROVE Anchored'
  <2>1. /\ lit' = [lit EXCEPT ![r] = {}] /\ held' = [held EXCEPT ![r] = NoSet]
        /\ lit[Display] = {} /\ open' = open /\ program' = program
    BY <1>4 DEF DeleteRow, Shows
  <2>2. Registered' = Registered
    BY <2>1 DEF Registered, IconsOf
  <2> QED BY <1>0, <2>1, <2>2 DEF Anchored, HiddenMenuRests, IconsOf
<1>5. CASE OpenDisplay \/ CloseDisplay
  <2>1. /\ \/ lit' = [lit EXCEPT ![Display] = {}]
           \/ \E r \in Rows : lit' = [lit EXCEPT ![Display] = IconsOf(held[r])]
        /\ UNCHANGED <<program, held, open>>
    BY <1>5 DEF OpenDisplay, CloseDisplay, Shows
  <2>2. Registered' = Registered
    BY <2>1 DEF Registered, IconsOf
  <2> QED BY <1>0, <2>1, <2>2 DEF Anchored, HiddenMenuRests, IconsOf
<1>6. CASE SetMenu
  <2>1. PICK s : /\ lit' = [lit EXCEPT ![Menu] = {}] /\ held' = [held EXCEPT ![Menu] = s]
                 /\ UNCHANGED <<program, open>>
    BY <1>6 DEF SetMenu, MenuTakes, Shows
  <2>2. Registered' = Registered
    BY <2>1 DEF Registered, IconsOf
  <2> QED BY <1>0, <2>1, <2>2 DEF Anchored, HiddenMenuRests, IconsOf
<1>7. CASE MenuAboutToShow
  <2>1. /\ lit' = [lit EXCEPT ![Menu] = lit[Menu] \cup Unlit] /\ open' = TRUE
        /\ UNCHANGED <<program, held>>
    BY <1>7 DEF MenuAboutToShow
  <2>2. Unlit \subseteq IconsOf(held[Menu])
    BY MenuIconsAreIcons DEF Unlit
  <2>3. Registered' = Registered
    BY <2>1 DEF Registered, IconsOf
  <2> QED BY <1>0, <2>1, <2>2, <2>3 DEF Anchored, HiddenMenuRests, IconsOf
<1>8. CASE MenuAboutToHide
  <2>1. lit' = [lit EXCEPT ![Menu] = {}] /\ UNCHANGED <<program, held>>
    BY <1>8 DEF MenuAboutToHide, LitAfterHide
  <2>2. Registered' = Registered
    BY <2>1 DEF Registered, IconsOf
  <2> QED BY <1>0, <2>1, <2>2 DEF Anchored, HiddenMenuRests, IconsOf
<1>9. ASSUME NEW s \in IconSets, DeleteIconset(s) PROVE Anchored'
  <2>1. /\ \A c \in Labels \cup Texts : lit[c] \cap IconsOf(s) = {}
        /\ program' = program \ {s} /\ UNCHANGED <<held, lit, open>>
    BY <1>9 DEF DeleteIconset
  <2>2. Registered \ IconsOf(s) \subseteq Registered'
    BY <2>1 DEF Registered, IconsOf
  <2> QED BY <2>1, <2>2 DEF Anchored, HiddenMenuRests, IconsOf
<1>10. CASE UNCHANGED clientVars
  BY <1>10 DEF clientVars, Anchored, HiddenMenuRests, IconsOf, Registered
<1>11. ASSUME NEW l \in Labels, SetLabel(l) PROVE Anchored'
  BY <1>1, <1>11 DEF SetLabel
<1>12. ASSUME NEW b \in Buttons, SetButton(b) \/ DeleteButton(b) PROVE Anchored'
  BY <1>2, <1>12 DEF SetButton, DeleteButton
<1>13. ASSUME NEW t \in Texts, MakeTextIcon(t) \/ DeleteTextIcon(t) PROVE Anchored'
  BY <1>1, <1>13 DEF MakeTextIcon, DeleteTextIcon
<1> QED
  BY <1>3, <1>4, <1>5, <1>6, <1>7, <1>8, <1>9, <1>10, <1>11, <1>12, <1>13 DEF ClientsNext

\* What a widget shows is kept by an iconset that is held, in every behaviour.
THEOREM ClientsAnchored == ClientsSpec => []Anchored
<1>1. ASSUME ClientsInit PROVE Anchored
  BY <1>1, ClientConstants DEF ClientsInit, Anchored, HiddenMenuRests, Clients
<1> QED BY <1>1, StepKeepsAnchors, ClientsTypes, PTL DEF ClientsSpec

\* A menu that is hidden has no icon running.
THEOREM ClientsMenuRests == ClientsSpec => []HiddenMenuRests
<1>1. Anchored => HiddenMenuRests
  BY DEF Anchored
<1> QED BY <1>1, ClientsAnchored, PTL

\* No widget with a bare pointer shows an icon of an iconset that is freed.
THEOREM ClientsShownAlive == ClientsSpec => []ShownAreAlive
<1>1. ASSUME ClientsTypeOK, Anchored,
             NEW c \in Clients \ Buttons, NEW s \in IconSets, lit[c] \cap IconsOf(s) # {}
      PROVE  Alive(s)
  <2>1. ASSUME NEW t \in IconSets \cup {NoSet}, lit[c] \subseteq IconsOf(t) PROVE t = s
    <3>1. IconsOf(t) \cap IconsOf(s) # {}
      BY <1>1, <2>1
    <3> QED BY <3>1, ClientConstants DEF IconsOf
  <2>2. ASSUME NEW h \in Rows \cup {Menu}, lit[c] \subseteq IconsOf(held[h]) PROVE Alive(s)
    BY <1>1, <2>1, <2>2 DEF ClientsTypeOK, Alive
  <2>3. CASE c \in Rows \cup {Menu, Display}
    BY <1>1, <2>2, <2>3 DEF Anchored
  <2>4. CASE c \in Labels \cup Texts
    <3>1. PICK i \in lit[c] : i \in IconsOf(s)
      BY <1>1
    <3>2. PICK t \in program : i \in IconsOf(t)
      BY <1>1, <2>4, <3>1 DEF Anchored, Registered
    <3>3. t = s
      BY <1>1, <3>1, <3>2, ClientConstants DEF IconsOf, ClientsTypeOK
    <3> QED BY <3>2, <3>3 DEF Alive
  <2> QED BY <2>3, <2>4 DEF Clients
<1>2. ClientsTypeOK /\ Anchored => ShownAreAlive
  BY <1>1 DEF ShownAreAlive
<1> QED BY <1>2, ClientsTypes, ClientsAnchored, PTL

-----------------------------------------------------------------------------

\* Every step keeps the timer running as long as there is a list.
LEMMA StepTimed ==
  ASSUME StaleWhileTimed, [SnapNext]_snapVars
  PROVE  StaleWhileTimed'
<1>1. ASSUME NEW q \in Proposals, MoveFreely(q) \/ Move(q) PROVE StaleWhileTimed'
  BY <1>1 DEF MoveFreely, Move, StartsTimer, StaleWhileTimed
<1>2. CASE DeleteTopWidgets
  BY <1>2 DEF DeleteTopWidgets, StaleWhileTimed
<1>3. ASSUME NEW w \in Others, OpenOrClose(w) PROVE StaleWhileTimed'
  BY <1>3 DEF OpenOrClose, StaleWhileTimed
<1>4. CASE SetStick
  BY <1>4 DEF SetStick, StaleWhileTimed
<1>5. CASE UNCHANGED snapVars
  BY <1>5 DEF snapVars, StaleWhileTimed
<1> QED BY <1>1, <1>2, <1>3, <1>4, <1>5 DEF SnapNext

\* Pointers to closed windows are at most used while the list's timer runs.
THEOREM SnapStaleWhileTimed == SnapSpec => []StaleWhileTimed
<1>1. SnapInit => StaleWhileTimed
  BY DEF SnapInit, StaleWhileTimed
<1> QED BY <1>1, StepTimed, PTL DEF SnapSpec

\* The geometry of windows and screen consists of integers.
LEMMA EdgesAreInt ==
  ASSUME NEW w \in Others \cup {Desktop}, NEW k \in Axes
  PROVE  LowEdge(w, k) \in Int /\ HighEdge(w, k) \in Int
<1>1. CASE w = Desktop
  <2>1. Screen[k].pos \in Int /\ Screen[k].size \in Int
    BY SnapConstants DEF Geometries
  <2> QED BY <1>1, <2>1 DEF LowEdge, HighEdge, Far
<1>2. CASE w # Desktop
  <2>1. OtherGeo[w][k].pos \in Int /\ OtherGeo[w][k].size \in Int
    BY <1>2, SnapConstants DEF Geometries
  <2> QED BY <1>2, <2>1 DEF LowEdge, HighEdge, Far
<1> QED BY <1>1, <1>2

\* One window of the list moves a window that is not resized to where its near
\* or far side is flush with an edge it faces, by at most twice the distance of
\* stickAt and one, or leaves it where it is; it never changes its size.
THEOREM MovedFlush ==
  ASSUME NEW w \in Others \cup {Desktop}, NEW k \in Axes, NEW a \in [pos : Int, size : Int],
         geo \in Geometries, stickAt \in Int
  PROVE  LET b == AxisSnapped(k, a, w, FALSE)
         IN /\ b \in [pos : Int, size : Int] /\ b.size = a.size
            /\ \/ b.pos = a.pos
               \/ Sticks(w, k) /\ (b.pos = LowEdge(w, k) \/ Far(b) = HighEdge(w, k))
            /\ stickAt \in Nat => b.pos - a.pos \in -(2 * stickAt + 1) .. 2 * stickAt + 1
<1> DEFINE low == LowEdge(w, k)
<1> DEFINE high == HighEdge(w, k)
<1> DEFINE c == IF Sticks(w, k) /\ NearLow(geo[k], a, low)
                THEN [pos |-> low, size |-> a.size] ELSE a
<1> DEFINE b == IF ~(Sticks(w, k) /\ NearHigh(c, high)) THEN c
                ELSE [c EXCEPT !.pos = high - c.size + 1]
<1>1. low \in Int /\ high \in Int
  BY EdgesAreInt
<1>2. AxisSnapped(k, a, w, FALSE) = b
  BY DEF AxisSnapped
<1> HIDE DEF low, high
<1>3. /\ c \in [pos : Int, size : Int] /\ c.size = a.size
      /\ c.pos = a.pos \/ (Sticks(w, k) /\ c.pos = low)
      /\ stickAt \in Nat => c.pos - a.pos \in -stickAt .. stickAt
  BY <1>1 DEF NearLow
<1> HIDE DEF c
<1>4. /\ b \in [pos : Int, size : Int] /\ b.size = a.size
      /\ b = c \/ (Sticks(w, k) /\ Far(b) = high)
      /\ stickAt \in Nat => b.pos - c.pos \in -(stickAt + 1) .. stickAt + 1
  <2>1. CASE Sticks(w, k) /\ NearHigh(c, high)
    <3>1. c.pos + c.size >= high - stickAt /\ c.pos + c.size <= high + stickAt
      BY <2>1 DEF NearHigh
    <3>2. b = [c EXCEPT !.pos = high - c.size + 1]
      BY <2>1
    <3>3. b \in [pos : Int, size : Int] /\ b.size = c.size /\ b.pos = high - c.size + 1
      BY <1>1, <1>3, <3>2
    <3> QED BY <1>1, <1>3, <2>1, <3>1, <3>3 DEF Far
  <2>2. CASE ~(Sticks(w, k) /\ NearHigh(c, high))
    BY <1>1, <1>3, <2>2
  <2> QED BY <2>1, <2>2
<1> HIDE DEF b
<1>5. stickAt \in Nat => b.pos - a.pos \in -(2 * stickAt + 1) .. 2 * stickAt + 1
  BY <1>3, <1>4
<1>6. b.pos = a.pos \/ (Sticks(w, k) /\ (b.pos = low \/ Far(b) = high))
  BY <1>3, <1>4
<1> QED BY <1>2, <1>4, <1>5, <1>6 DEF low, high

\* In resizing one window of the list leaves the near side where it is or makes
\* it flush with an edge it faces, which happens only when the near side is
\* dragged, and the far side where it is asked to be, where it was, or flush.
THEOREM ResizedFlush ==
  ASSUME NEW w \in Others \cup {Desktop}, NEW k \in Axes, NEW a \in [pos : Int, size : Int],
         geo \in Geometries, stickAt \in Int
  PROVE  LET b == AxisSnapped(k, a, w, TRUE)
         IN /\ b \in [pos : Int, size : Int]
            /\ \/ b.pos = a.pos
               \/ Sticks(w, k) /\ b.pos = LowEdge(w, k) /\ a.pos # geo[k].pos
            /\ \/ Far(b) \in {Far(a), Far(geo[k])}
               \/ Sticks(w, k) /\ Far(b) = HighEdge(w, k)
<1> DEFINE low == LowEdge(w, k)
<1> DEFINE high == HighEdge(w, k)
<1> DEFINE o == geo[k]
<1> DEFINE c == IF Sticks(w, k) /\ NearLow(o, a, low)
                THEN [pos |-> low, size |-> o.size + o.pos - low] ELSE a
<1> DEFINE b == IF ~(Sticks(w, k) /\ NearHigh(c, high)) THEN c
                ELSE [c EXCEPT !.size = high - c.pos + 1]
<1>1. low \in Int /\ high \in Int /\ o.pos \in Int /\ o.size \in Int
  BY EdgesAreInt DEF Geometries
<1>2. AxisSnapped(k, a, w, TRUE) = b
  BY DEF AxisSnapped
<1> HIDE DEF low, high, o
<1>3. /\ c \in [pos : Int, size : Int]
      /\ c.pos = a.pos \/ (Sticks(w, k) /\ c.pos = low /\ a.pos # o.pos)
      /\ Far(c) \in {Far(a), Far(o)}
  BY <1>1 DEF NearLow, Far
<1> HIDE DEF c
<1>4. /\ b \in [pos : Int, size : Int] /\ b.pos = c.pos
      /\ Far(b) = Far(c) \/ (Sticks(w, k) /\ Far(b) = high)
  BY <1>1, <1>3 DEF Far
<1> HIDE DEF b
<1>5. /\ b.pos = a.pos \/ (Sticks(w, k) /\ b.pos = low /\ a.pos # o.pos)
      /\ Far(b) \in {Far(a), Far(o)} \/ (Sticks(w, k) /\ Far(b) = high)
  BY <1>3, <1>4
<1> QED BY <1>2, <1>4, <1>5 DEF low, high, o

\* posChanging() is a fold over the positions of the list, first to last.
Greatest(S) == CHOOSE i \in S : \A j \in S : i >= j
DraggedBy(w, g) == Dragged(g, w)
ResizedBy(w, g) == Resized(g, w)
Drags == INSTANCE FoldLemmas WITH Op <- DraggedBy, Pick <- Greatest
Resizes == INSTANCE FoldLemmas WITH Op <- ResizedBy, Pick <- Greatest

\* Dragging and resizing, as the folds with the one step or the other.
LEMMA ChangeIsFold ==
  ASSUME NEW seq, NEW q
  PROVE  PosChanging(seq, q) = IF Resizing(q) THEN Resizes!Fold(q, seq, DOMAIN seq)
                                              ELSE Drags!Fold(q, seq, DOMAIN seq)
<1>1. FoldLeft(Dragged, q, seq) = Drags!Fold(q, seq, DOMAIN seq)
  BY Zenon DEF FoldLeft, MapThenFoldSet, Max, Drags!Fold, Drags!Folds, DraggedBy, Greatest
<1>2. FoldLeft(Resized, q, seq) = Resizes!Fold(q, seq, DOMAIN seq)
  BY Zenon DEF FoldLeft, MapThenFoldSet, Max, Resizes!Fold, Resizes!Folds, ResizedBy, Greatest
<1> QED BY <1>1, <1>2 DEF PosChanging

\* A list of windows can be folded.
LEMMA ListFoldable ==
  ASSUME NEW list \in Seq(Others \cup {Desktop})
  PROVE  Drags!Foldable(DOMAIN list) /\ Resizes!Foldable(DOMAIN list)
<1>1. PICK k \in Nat : DOMAIN list = 1 .. k
  OBVIOUS
<1>2. \A S \in SUBSET (1 .. k) : Greatest(S) = CHOOSE i \in S : \A j \in S : i >= j
  BY Zenon DEF Greatest
<1>3. Drags!Foldable(1 .. k)
  BY <1>2, Drags!GreatestLast, Zenon
<1>4. Resizes!Foldable(1 .. k)
  BY <1>2, Resizes!GreatestLast, Zenon
<1> QED BY <1>1, <1>3, <1>4

\* The windows of the list that the window faces.
Facing(list, k) == {w \in ToSet(list) : Sticks(w, k)}
Lows(list, k) == {LowEdge(w, k) : w \in Facing(list, k)}
Highs(list, k) == {HighEdge(w, k) : w \in Facing(list, k)}

\* What the list makes of a proposal q that moves the window, and of one that
\* resizes it.
DragOK(list, q, g) ==
  \A k \in Axes : /\ g[k].size = q[k].size
                  /\ g[k].pos = q[k].pos \/ g[k].pos \in Lows(list, k)
                                         \/ Far(g[k]) \in Highs(list, k)
ResizeOK(list, q, g) ==
  \A k \in Axes : /\ g[k].pos \in {q[k].pos} \cup Lows(list, k)
                  /\ q[k].pos = geo[k].pos => g[k].pos = geo[k].pos
                  /\ Far(g[k]) \in {Far(q[k]), Far(geo[k])} \cup Highs(list, k)

\* A window of the list that a drag meets leaves the geometry where it was
\* asked or at an edge.
LEMMA DragStepOK ==
  ASSUME geo \in Geometries, stickAt \in Int, NEW list \in Seq(Others \cup {Desktop}),
         NEW q \in Geometries, NEW i \in DOMAIN list,
         NEW g \in Geometries, DragOK(list, q, g)
  PROVE  Dragged(g, list[i]) \in Geometries /\ DragOK(list, q, Dragged(g, list[i]))
<1>1. PICK w \in Others \cup {Desktop} : w = list[i] /\ w \in ToSet(list)
  BY DEF ToSet
<1>2. PICK h : h = Dragged(g, w)
  OBVIOUS
<1>3. ASSUME NEW k \in Axes
      PROVE  /\ h[k] \in [pos : Int, size : Int]
             /\ h[k].size = q[k].size
             /\ h[k].pos = q[k].pos \/ h[k].pos \in Lows(list, k) \/ Far(h[k]) \in Highs(list, k)
  <2>1. PICK a \in [pos : Int, size : Int] : a = g[k]
    BY DEF Geometries
  <2>2. PICK b : b = AxisSnapped(k, a, w, FALSE)
    OBVIOUS
  <2>3. h[k] = b
    BY <1>2, <2>1, <2>2 DEF Dragged
  <2>4. /\ b \in [pos : Int, size : Int] /\ b.size = a.size
        /\ \/ b.pos = a.pos
           \/ Sticks(w, k) /\ (b.pos = LowEdge(w, k) \/ Far(b) = HighEdge(w, k))
    BY <2>2, MovedFlush
  <2>5. Sticks(w, k) => LowEdge(w, k) \in Lows(list, k) /\ HighEdge(w, k) \in Highs(list, k)
    BY <1>1 DEF Lows, Highs, Facing
  <2>6. /\ a.size = q[k].size
        /\ a.pos = q[k].pos \/ a.pos \in Lows(list, k) \/ Far(a) \in Highs(list, k)
    BY <2>1 DEF DragOK
  <2>7. b.pos = a.pos => Far(b) = Far(a)
    BY <2>4 DEF Far
  <2> QED BY <2>3, <2>4, <2>5, <2>6, <2>7
<1>4. h = [k \in Axes |-> h[k]]
  BY <1>2 DEF Dragged
<1> QED BY <1>1, <1>2, <1>3, <1>4 DEF Geometries, DragOK

\* A window of the list that a resize meets leaves each side where it was asked
\* or at an edge.
LEMMA ResizeStepOK ==
  ASSUME geo \in Geometries, stickAt \in Int, NEW list \in Seq(Others \cup {Desktop}),
         NEW q \in Geometries, NEW i \in DOMAIN list,
         NEW g \in Geometries, ResizeOK(list, q, g)
  PROVE  Resized(g, list[i]) \in Geometries /\ ResizeOK(list, q, Resized(g, list[i]))
<1>1. PICK w \in Others \cup {Desktop} : w = list[i] /\ w \in ToSet(list)
  BY DEF ToSet
<1>2. PICK h : h = Resized(g, w)
  OBVIOUS
<1>3. ASSUME NEW k \in Axes
      PROVE  /\ h[k] \in [pos : Int, size : Int]
             /\ h[k].pos \in {q[k].pos} \cup Lows(list, k)
             /\ q[k].pos = geo[k].pos => h[k].pos = geo[k].pos
             /\ Far(h[k]) \in {Far(q[k]), Far(geo[k])} \cup Highs(list, k)
  <2>1. PICK a \in [pos : Int, size : Int] : a = g[k]
    BY DEF Geometries
  <2>2. PICK b : b = AxisSnapped(k, a, w, TRUE)
    OBVIOUS
  <2>3. h[k] = b
    BY <1>2, <2>1, <2>2 DEF Resized
  <2>4. /\ b \in [pos : Int, size : Int]
        /\ b.pos = a.pos \/ (Sticks(w, k) /\ b.pos = LowEdge(w, k) /\ a.pos # geo[k].pos)
        /\ Far(b) \in {Far(a), Far(geo[k])} \/ (Sticks(w, k) /\ Far(b) = HighEdge(w, k))
    <3>1. w \in Others \cup {Desktop} /\ k \in Axes /\ a \in [pos : Int, size : Int]
      BY <2>1
    <3>2. LET c == AxisSnapped(k, a, w, TRUE)
          IN /\ c \in [pos : Int, size : Int]
             /\ \/ c.pos = a.pos
                \/ Sticks(w, k) /\ c.pos = LowEdge(w, k) /\ a.pos # geo[k].pos
             /\ \/ Far(c) \in {Far(a), Far(geo[k])}
                \/ Sticks(w, k) /\ Far(c) = HighEdge(w, k)
      BY <3>1, ResizedFlush, Zenon
    <3> QED BY <2>2, <3>2, Zenon
  <2>5. Sticks(w, k) => LowEdge(w, k) \in Lows(list, k) /\ HighEdge(w, k) \in Highs(list, k)
    BY <1>1 DEF Lows, Highs, Facing
  <2>6. /\ a.pos \in {q[k].pos} \cup Lows(list, k)
        /\ q[k].pos = geo[k].pos => a.pos = geo[k].pos
        /\ Far(a) \in {Far(q[k]), Far(geo[k])} \cup Highs(list, k)
    BY <2>1 DEF ResizeOK
  <2> QED BY <2>3, <2>4, <2>5, <2>6
<1>4. h = [k \in Axes |-> h[k]]
  BY <1>2 DEF Resized
<1> QED BY <1>1, <1>2, <1>3, <1>4 DEF Geometries, ResizeOK

\* What the whole list makes of a proposal.
LEMMA PosChangingOK ==
  ASSUME geo \in Geometries, stickAt \in Int, NEW list \in Seq(Others \cup {Desktop}),
         NEW q \in Geometries
  PROVE  /\ PosChanging(list, q) \in Geometries
         /\ IF Resizing(q) THEN ResizeOK(list, q, PosChanging(list, q))
                           ELSE DragOK(list, q, PosChanging(list, q))
<1>1. CASE Resizing(q)
  <2> DEFINE V == {g \in Geometries : ResizeOK(list, q, g)}
  <2>1. q \in V
    BY DEF ResizeOK
  <2>2. Resizes!Closed(list, DOMAIN list, V)
    BY ResizeStepOK DEF Resizes!Closed, ResizedBy
  <2> HIDE DEF V
  <2>3. Resizes!Fold(q, list, DOMAIN list) \in V
    BY <2>1, <2>2, ListFoldable, Resizes!FoldIn, Zenon
  <2> QED BY <1>1, <2>3, ChangeIsFold DEF V
<1>2. CASE ~Resizing(q)
  <2> DEFINE V == {g \in Geometries : DragOK(list, q, g)}
  <2>1. q \in V
    BY DEF DragOK
  <2>2. Drags!Closed(list, DOMAIN list, V)
    BY DragStepOK DEF Drags!Closed, DraggedBy
  <2> HIDE DEF V
  <2>3. Drags!Fold(q, list, DOMAIN list) \in V
    BY <2>1, <2>2, ListFoldable, Drags!FoldIn, Zenon
  <2> QED BY <1>2, <2>3, ChangeIsFold DEF V
<1> QED BY <1>1, <1>2

\* The types, with finitely many windows, of which the lists are made.
SnapInv == SnapTypeOK /\ IsFiniteSet(opened)

\* The lists a move may build are lists of the other windows and the desktop.
LEMMA NewListsType ==
  ASSUME SnapInv
  PROVE  NewLists \subseteq Seq(Others \cup {Desktop})
<1>1. PICK n \in Nat : n = Cardinality(opened)
  BY FS_CardinalityType DEF SnapInv
<1>2. ASSUME NEW s \in SetToSeqs(opened)
      PROVE  Append(s, Desktop) \in Seq(Others \cup {Desktop})
  <2>1. s \in [1 .. n -> opened]
    BY <1>1, <1>2 DEF SetToSeqs
  <2>2. s \in Seq(Others \cup {Desktop})
    BY <1>1, <2>1 DEF SnapInv, SnapTypeOK
  <2> QED BY <2>2
<1>3. <<Desktop>> \in Seq(Others \cup {Desktop})
  OBVIOUS
<1>4. CASE stickToWindows
  <2>1. NewLists = {Append(s, Desktop) : s \in SetToSeqs(opened)}
    BY <1>4 DEF NewLists
  <2> QED BY <1>2, <2>1
<1>5. CASE ~stickToWindows
  <2>1. NewLists = {<<Desktop>>}
    BY <1>5 DEF NewLists
  <2> QED BY <1>3, <2>1
<1> QED BY <1>4, <1>5

\* A move gives a list of windows, and a geometry that is the fold over it.
LEMMA MoveLists ==
  ASSUME SnapInv, NEW q \in Proposals, Move(q)
  PROVE  /\ topWidgets' \in Seq(Others \cup {Desktop})
         /\ geo' \in Geometries /\ dangled' \in BOOLEAN /\ listTimer' \in BOOLEAN
         /\ ~dangled' => geo' = PosChanging(topWidgets', q)
<1>1. topWidgets' \in Seq(Others \cup {Desktop})
  BY NewListsType DEF Move, SnapInv, SnapTypeOK
<1>2. q \in Geometries /\ geo \in Geometries /\ stickAt \in Int
  BY SnapConstants DEF SnapInv, SnapTypeOK
<1>3. PosChanging(topWidgets', q) \in Geometries
  BY <1>1, <1>2, PosChangingOK
<1> QED BY <1>1, <1>2, <1>3 DEF Move, StartsTimer, SnapInv, SnapTypeOK

\* The types of the snapping window hold in every execution.
THEOREM SnapTypes == SnapSpec => [](SnapTypeOK /\ IsFiniteSet(opened))
<1>0. << >> \in Seq(Others \cup {Desktop})
  OBVIOUS
<1>1. SnapInit => SnapInv
  BY <1>0, SnapConstants, FS_EmptySet DEF SnapInit, SnapInv, SnapTypeOK
<1>2. SnapInv /\ [SnapNext]_snapVars => SnapInv'
  <2> SUFFICES ASSUME SnapInv, [SnapNext]_snapVars
               PROVE  SnapInv'
    OBVIOUS
  <2>1. ASSUME NEW q \in Proposals, MoveFreely(q) PROVE SnapInv'
    BY <2>1, SnapConstants DEF MoveFreely, SnapInv, SnapTypeOK
  <2>2. ASSUME NEW q \in Proposals, Move(q) PROVE SnapInv'
    <3>1. UNCHANGED <<opened, stickAt, stickToWindows, stickEnabled>>
      BY <2>2 DEF Move
    <3> QED BY <2>2, <3>1, MoveLists DEF SnapInv, SnapTypeOK
  <2>3. CASE DeleteTopWidgets
    BY <1>0, <2>3 DEF DeleteTopWidgets, SnapInv, SnapTypeOK
  <2>4. ASSUME NEW w \in Others, OpenOrClose(w) PROVE SnapInv'
    <3>1. IsFiniteSet(opened')
      BY <2>4, FS_AddElement, FS_RemoveElement DEF OpenOrClose, SnapInv
    <3> QED BY <2>4, <3>1 DEF OpenOrClose, SnapInv, SnapTypeOK
  <2>5. CASE SetStick
    BY <2>5 DEF SetStick, SnapInv, SnapTypeOK
  <2>6. CASE UNCHANGED snapVars
    BY <2>6 DEF snapVars, SnapInv, SnapTypeOK
  <2> QED BY <2>1, <2>2, <2>3, <2>4, <2>5, <2>6 DEF SnapNext
<1> QED BY <1>1, <1>2, PTL DEF SnapSpec, SnapInv

\* Whatever windows the list holds and in whatever order, the window is put where
\* it is asked to be or flush with an edge it faces.
THEOREM SnapFlushOrAsAsked == SnapSpec => FlushOrAsAsked
<1>1. ASSUME SnapInv, NEW q \in Proposals, Move(q), ~dangled'
      PROVE  ComesFlush(q)
  <2>1. topWidgets' \in Seq(Others \cup {Desktop}) /\ geo' = PosChanging(topWidgets', q)
    BY <1>1, MoveLists
  <2>2. q \in Geometries /\ geo \in Geometries /\ stickAt \in Int
    BY <1>1, SnapConstants DEF SnapInv, SnapTypeOK
  <2>3. IF Resizing(q) THEN ResizeOK(topWidgets', q, geo') ELSE DragOK(topWidgets', q, geo')
    BY <2>1, <2>2, PosChangingOK
  <2>4. CASE Resizing(q)
    BY <2>3, <2>4 DEF ComesFlush, ResizeOK, Facing, Lows, Highs
  <2>5. CASE ~Resizing(q)
    <3>1. \A k \in Axes : q[k].size = geo[k].size
      BY <2>5 DEF Resizing
    <3> QED BY <2>3, <2>5, <3>1 DEF ComesFlush, DragOK, Facing, Lows, Highs
  <2> QED BY <2>4, <2>5
<1>2. SnapInv => [\A q \in Proposals : Move(q) /\ ~dangled' => ComesFlush(q)]_snapVars
  BY <1>1
<1>3. SnapTypeOK /\ IsFiniteSet(opened) <=> SnapInv
  BY DEF SnapInv
<1> QED BY <1>2, <1>3, SnapTypes, PTL DEF FlushOrAsAsked

-----------------------------------------------------------------------------

\* The count stays below the limit while the title flashes.
LEMMA StepFlash ==
  ASSUME FlashTypeOK, [FlashNext]_flashVars
  PROVE  FlashTypeOK'
<1>1. Flashes \in Nat /\ Flashes >= 2
  BY FlashConstants
<1>2. CASE StartFlash
  BY <1>1, <1>2 DEF StartFlash, Counted, FlashTypeOK
<1>3. CASE StopFlash
  BY <1>3 DEF StopFlash, FlashTypeOK
<1>4. CASE FlashAnimate
  BY <1>1, <1>4 DEF FlashAnimate, Counted, FlashTypeOK
<1>5. CASE ActivationChange
  BY <1>5 DEF ActivationChange, FlashTypeOK
<1>6. CASE UNCHANGED flashVars
  BY <1>6 DEF flashVars, FlashTypeOK
<1> QED BY <1>2, <1>3, <1>4, <1>5, <1>6 DEF FlashNext

\* The count of inversions never passes the limit it is compared with, so that the
\* comparison for equality cannot miss it.
THEOREM FlashNeverPasses == FlashSpec => []FlashTypeOK
<1>1. FlashInit => FlashTypeOK
  BY FlashConstants DEF FlashInit, FlashTypeOK
<1> QED BY <1>1, StepFlash, PTL DEF FlashSpec

-----------------------------------------------------------------------------

\* Each place counts at least the objects that own what is there, also places
\* that no object has: XDataAlive alone does not say that new ones are unowned.
RefsCovered == \A p \in Storage : refs[p] >= Cardinality(Owners(p))

SInv == SharedTypeOK /\ RefsCovered

\* The owners of a place are finitely many, none exactly when they number 0.
LEMMA OwnersFinite ==
  ASSUME NEW p
  PROVE  /\ IsFiniteSet(Owners(p)) /\ Cardinality(Owners(p)) \in Nat
         /\ Cardinality(Owners(p)) = 0 <=> Owners(p) = {}
<1>1. IsFiniteSet(Owners(p))
  BY XDataConstants, FS_Subset DEF Owners
<1> QED BY <1>1, FS_CardinalityType, FS_EmptySet

\* Storage that is about to be used has no references and no owners.
LEMMA NewPlaceUnused ==
  ASSUME SInv, Unused # {}
  PROVE  /\ NewPlace \in Storage /\ refs[NewPlace] = 0
         /\ Owners(NewPlace) = {}
<1>1. NewPlace \in Storage /\ refs[NewPlace] = 0
  BY DEF NewPlace, Unused
<1> QED BY <1>1, OwnersFinite DEF SInv, RefsCovered

\* An object that lives keeps its Private counted.
LEMMA OwnedIsCounted ==
  ASSUME SInv, NEW g \in Objects, Lives(g)
  PROVE  at[g] \in Storage /\ refs[at[g]] >= 1
<1>1. at[g] \in Storage
  BY DEF SInv, SharedTypeOK, Lives
<1>2. g \in Owners(at[g])
  BY DEF Owners
<1>3. Cardinality(Owners(at[g])) >= 1
  BY <1>2, OwnersFinite
<1> QED BY <1>1, <1>3, OwnersFinite DEF SInv, SharedTypeOK, RefsCovered

\* When one object moves from its place to another, the owners of both change by
\* it and those of all others stay.
LEMMA OwnersMove ==
  ASSUME SharedTypeOK, NEW g \in Objects, NEW q \in Storage \cup {Nowhere},
         at' = [at EXCEPT ![g] = q], NEW p \in Storage
  PROVE  /\ p = q => Owners(p)' = Owners(p) \cup {g}
         /\ p # q => Owners(p)' = Owners(p) \ {g}
  BY DEF SharedTypeOK, Owners

\* Pointing one object elsewhere takes one owner from a storage and gives one
\* to another.
LEMMA MovedCount ==
  ASSUME SharedTypeOK, NEW g \in Objects, NEW q \in Storage \cup {Nowhere},
         at' = [at EXCEPT ![g] = q], NEW p \in Storage
  PROVE  /\ Cardinality(Owners(p)) \in Nat
         /\ p = q => Cardinality(Owners(p)') =
              IF at[g] = p THEN Cardinality(Owners(p)) ELSE Cardinality(Owners(p)) + 1
         /\ p # q => Cardinality(Owners(p)') =
              IF at[g] = p THEN Cardinality(Owners(p)) - 1 ELSE Cardinality(Owners(p))
<1>1. IsFiniteSet(Owners(p)) /\ Cardinality(Owners(p)) \in Nat
  BY OwnersFinite
<1>2. g \in Owners(p) <=> at[g] = p
  BY DEF Owners
<1>3. CASE p = q
  <2>1. Owners(p)' = Owners(p) \cup {g}
    BY <1>3, OwnersMove
  <2>2. Cardinality(Owners(p) \cup {g}) =
          IF g \in Owners(p) THEN Cardinality(Owners(p)) ELSE Cardinality(Owners(p)) + 1
    BY <1>1, FS_AddElement
  <2> QED BY <1>1, <1>2, <1>3, <2>1, <2>2
<1>4. CASE p # q
  <2>1. Owners(p)' = Owners(p) \ {g}
    BY <1>4, OwnersMove
  <2>2. Cardinality(Owners(p) \ {g}) =
          IF g \in Owners(p) THEN Cardinality(Owners(p)) - 1 ELSE Cardinality(Owners(p))
    BY <1>1, FS_RemoveElement
  <2> QED BY <1>1, <1>2, <1>4, <2>1, <2>2
<1> QED BY <1>3, <1>4

\* XData() makes storage of its own with one reference.
LEMMA ConstructKeeps ==
  ASSUME SInv, NEW g \in Objects, ConstructXData(g)
  PROVE  SInv'
<1>0. PICK n : n = NewPlace
  OBVIOUS
<1>1. /\ at[g] = Nowhere /\ at' = [at EXCEPT ![g] = n]
      /\ refs' = [refs EXCEPT ![n] = 1]
      /\ holds' = [holds EXCEPT ![n] = Blank]
  BY <1>0 DEF ConstructXData, Lives
<1>2. n \in Storage /\ refs[n] = 0
  BY <1>0, NewPlaceUnused DEF ConstructXData
<1>3. SharedTypeOK'
  BY <1>1, <1>2, XDataConstants DEF SInv, SharedTypeOK
<1>4. ASSUME NEW p \in Storage PROVE refs'[p] >= Cardinality(Owners(p)')
  <2>1. SharedTypeOK /\ refs[p] >= Cardinality(Owners(p)) /\ at[g] # p
    BY <1>1, XDataConstants DEF SInv, RefsCovered
  <2>2. Cardinality(Owners(p)) \in Nat
    BY OwnersFinite
  <2>3. /\ p = n => Cardinality(Owners(p)') =
             IF at[g] = p THEN Cardinality(Owners(p)) ELSE Cardinality(Owners(p)) + 1
        /\ p # n => Cardinality(Owners(p)') =
             IF at[g] = p THEN Cardinality(Owners(p)) - 1 ELSE Cardinality(Owners(p))
    <3>1. SharedTypeOK /\ n \in Storage \cup {Nowhere} /\ at' = [at EXCEPT ![g] = n]
      BY <1>1, <1>2, <2>1
    <3> QED BY <3>1, MovedCount, Zenon
  <2> QED BY <1>1, <1>2, <2>1, <2>2, <2>3 DEF SharedTypeOK
<1> QED BY <1>3, <1>4 DEF SInv, RefsCovered

\* The copy constructor adds a reference and an owner to the storage.
LEMMA CopyKeeps ==
  ASSUME SInv, NEW g \in Objects, NEW h \in Objects, CopyXData(g, h)
  PROVE  SInv'
<1>1. /\ at[g] = Nowhere /\ at' = [at EXCEPT ![g] = at[h]]
      /\ refs' = [refs EXCEPT ![at[h]] = refs[at[h]] + 1] /\ holds' = holds
  BY DEF CopyXData, Lives, Reffed
<1>2. at[h] \in Storage
  BY OwnedIsCounted DEF CopyXData
<1>3. SharedTypeOK'
  BY <1>1, <1>2 DEF SInv, SharedTypeOK
<1>4. ASSUME NEW p \in Storage PROVE refs'[p] >= Cardinality(Owners(p)')
  <2>0. PICK q : q = at[h]
    OBVIOUS
  <2>1. SharedTypeOK /\ refs[p] >= Cardinality(Owners(p)) /\ at[g] # p
    BY <1>1, XDataConstants DEF SInv, RefsCovered
  <2>2. Cardinality(Owners(p)) \in Nat
    BY OwnersFinite
  <2>3. Cardinality(Owners(p)') =
          IF p = at[h] THEN Cardinality(Owners(p)) + 1 ELSE Cardinality(Owners(p))
    <3>1. SharedTypeOK /\ q \in Storage \cup {Nowhere} /\ at' = [at EXCEPT ![g] = q]
      BY <1>1, <1>2, <2>1, <2>0
    <3>2. /\ p = q => Cardinality(Owners(p)') =
               IF at[g] = p THEN Cardinality(Owners(p)) ELSE Cardinality(Owners(p)) + 1
          /\ p # q => Cardinality(Owners(p)') =
               IF at[g] = p THEN Cardinality(Owners(p)) - 1 ELSE Cardinality(Owners(p))
      BY <3>1, MovedCount, Zenon
    <3> QED BY <2>0, <2>1, <3>2
  <2> QED BY <1>1, <1>2, <2>1, <2>2, <2>3 DEF SharedTypeOK
<1> QED BY <1>3, <1>4 DEF SInv, RefsCovered

\* The destructor takes a reference and an owner, and the storage with the last
\* one.
LEMMA DestroyKeeps ==
  ASSUME SInv, NEW g \in Objects, DestroyXData(g)
  PROVE  SInv'
<1>1. /\ at' = [at EXCEPT ![g] = Nowhere]
      /\ refs' = [refs EXCEPT ![at[g]] = refs[at[g]] - 1] /\ holds' = holds
  BY DEF DestroyXData, Dereffed
<1>2. at[g] \in Storage /\ refs[at[g]] >= 1
  BY OwnedIsCounted DEF DestroyXData
<1>3. SharedTypeOK'
  BY <1>1, <1>2 DEF SInv, SharedTypeOK
<1>4. ASSUME NEW p \in Storage PROVE refs'[p] >= Cardinality(Owners(p)')
  <2>1. SharedTypeOK /\ refs[p] >= Cardinality(Owners(p)) /\ p # Nowhere
    BY XDataConstants DEF SInv, RefsCovered
  <2>2. Cardinality(Owners(p)) \in Nat
    BY OwnersFinite
  <2>3. Cardinality(Owners(p)') =
          IF p = at[g] THEN Cardinality(Owners(p)) - 1 ELSE Cardinality(Owners(p))
    <3>1. SharedTypeOK /\ Nowhere \in Storage \cup {Nowhere} /\ at' = [at EXCEPT ![g] = Nowhere]
      BY <1>1, <2>1
    <3>2. /\ p = Nowhere => Cardinality(Owners(p)') =
               IF at[g] = p THEN Cardinality(Owners(p)) ELSE Cardinality(Owners(p)) + 1
          /\ p # Nowhere => Cardinality(Owners(p)') =
               IF at[g] = p THEN Cardinality(Owners(p)) - 1 ELSE Cardinality(Owners(p))
      BY <3>1, MovedCount, Zenon
    <3> QED BY <2>1, <3>2
  <2> QED BY <1>1, <1>2, <2>1, <2>2, <2>3 DEF SharedTypeOK
<1> QED BY <1>3, <1>4 DEF SInv, RefsCovered

\* operator= takes an owner from one storage and gives one to the other.
LEMMA AssignKeeps ==
  ASSUME SInv, NEW g \in Objects, NEW h \in Objects, AssignXData(g, h)
  PROVE  SInv'
<1> DEFINE a == at[g]
<1> DEFINE b == at[h]
<1>1. /\ at' = [at EXCEPT ![g] = b]
      /\ refs' = Reffed(Dereffed(refs, a), b) /\ holds' = holds
  BY DEF AssignXData
<1>2. a \in Storage /\ b \in Storage /\ refs[a] >= 1
  BY OwnedIsCounted DEF AssignXData
<1>3. ASSUME NEW p \in Storage
      PROVE  refs'[p] = (IF p = a THEN refs[p] - 1 ELSE refs[p])
                          + (IF p = b THEN 1 ELSE 0)
  BY <1>1, <1>2, <1>3 DEF Reffed, Dereffed, SInv, SharedTypeOK
<1>4. refs' \in [Storage -> Nat]
  BY <1>1, <1>2 DEF Reffed, Dereffed, SInv, SharedTypeOK
<1>5. SharedTypeOK'
  BY <1>1, <1>2, <1>4 DEF SInv, SharedTypeOK
<1>6. ASSUME NEW p \in Storage PROVE refs'[p] >= Cardinality(Owners(p)')
  <2>1. SharedTypeOK /\ refs[p] >= Cardinality(Owners(p)) /\ refs[p] \in Nat
    BY DEF SInv, RefsCovered, SharedTypeOK
  <2>2. Cardinality(Owners(p)) \in Nat
    BY OwnersFinite
  <2>3. /\ p = b => Cardinality(Owners(p)') =
             IF a = p THEN Cardinality(Owners(p)) ELSE Cardinality(Owners(p)) + 1
        /\ p # b => Cardinality(Owners(p)') =
             IF a = p THEN Cardinality(Owners(p)) - 1 ELSE Cardinality(Owners(p))
    <3>1. PICK q : q = b
      OBVIOUS
    <3>2. SharedTypeOK /\ q \in Storage \cup {Nowhere} /\ at' = [at EXCEPT ![g] = q]
      BY <1>1, <1>2, <2>1, <3>1
    <3>3. /\ p = q => Cardinality(Owners(p)') =
               IF at[g] = p THEN Cardinality(Owners(p)) ELSE Cardinality(Owners(p)) + 1
          /\ p # q => Cardinality(Owners(p)') =
               IF at[g] = p THEN Cardinality(Owners(p)) - 1 ELSE Cardinality(Owners(p))
      BY <3>2, MovedCount, Zenon
    <3> QED BY <3>1, <3>3
  <2> QED BY <1>3, <2>1, <2>2, <2>3
<1> QED BY <1>5, <1>6 DEF SInv, RefsCovered

\* A setter writes into storage of its own, detached before or not.
LEMMA ChangeKeeps ==
  ASSUME SInv, NEW g \in Objects, NEW v \in Contents,
         ChangeOwn(g, v) \/ ChangeDetached(g, v)
  PROVE  SInv'
<1> DEFINE a == at[g]
<1>1. a \in Storage /\ refs[a] >= 1 /\ refs[a] \in Nat
  BY OwnedIsCounted DEF ChangeOwn, ChangeDetached, SInv, SharedTypeOK
<1>2. CASE ChangeOwn(g, v)
  BY <1>1, <1>2 DEF ChangeOwn, SInv, SharedTypeOK, RefsCovered, Owners
<1>3. CASE ChangeDetached(g, v)
  <2>0. PICK n : n = NewPlace
    OBVIOUS
  <2>1. /\ at' = [at EXCEPT ![g] = n]
        /\ refs' = [Dereffed(refs, a) EXCEPT ![n] = refs[a]]
        /\ holds' = [holds EXCEPT ![n] = v]
    BY <1>3, <2>0 DEF ChangeDetached
  <2>2. n \in Storage /\ refs[n] = 0 /\ Owners(n) = {}
    BY <1>3, <2>0, NewPlaceUnused DEF ChangeDetached
  <2>3. a # n
    BY <1>1, <2>2
  <2>4. SharedTypeOK'
    BY <1>1, <2>1, <2>2 DEF Dereffed, SInv, SharedTypeOK
  <2>5. ASSUME NEW p \in Storage PROVE refs'[p] >= Cardinality(Owners(p)')
    <3>1. SharedTypeOK /\ refs[p] >= Cardinality(Owners(p)) /\ refs[p] \in Nat
      BY DEF SInv, RefsCovered, SharedTypeOK
    <3>2. Cardinality(Owners(p)) \in Nat /\ (p = n => Cardinality(Owners(p)) = 0)
      BY <2>2, OwnersFinite
    <3>3. /\ p = n => Cardinality(Owners(p)') = Cardinality(Owners(p)) + 1
          /\ p # n => Cardinality(Owners(p)') =
               IF a = p THEN Cardinality(Owners(p)) - 1 ELSE Cardinality(Owners(p))
      <4>1. SharedTypeOK /\ n \in Storage \cup {Nowhere} /\ at' = [at EXCEPT ![g] = n]
        BY <2>1, <2>2, <3>1
      <4>2. /\ p = n => Cardinality(Owners(p)') =
                 IF at[g] = p THEN Cardinality(Owners(p)) ELSE Cardinality(Owners(p)) + 1
            /\ p # n => Cardinality(Owners(p)') =
                 IF at[g] = p THEN Cardinality(Owners(p)) - 1 ELSE Cardinality(Owners(p))
        BY <4>1, MovedCount, Zenon
      <4> QED BY <2>3, <4>2
    <3>4. refs'[p] = IF p = n THEN refs[a] ELSE IF p = a THEN refs[p] - 1 ELSE refs[p]
      BY <1>1, <2>1, <2>2 DEF Dereffed, SInv, SharedTypeOK
    <3> QED BY <1>1, <3>1, <3>2, <3>3, <3>4
  <2> QED BY <2>4, <2>5 DEF SInv, RefsCovered
<1> QED BY <1>2, <1>3

\* No storage of XData counts fewer references than objects own it, in every
\* behaviour (QShared::ref() and deref()).
THEOREM SharedInvariant == SharedSpec => []SInv
<1>1. ASSUME SharedInit PROVE SInv
  <2>1. SharedTypeOK
    BY <1>1, XDataConstants DEF SharedInit, SharedTypeOK
  <2>2. ASSUME NEW p \in Storage PROVE refs[p] >= Cardinality(Owners(p))
    <3>1. Owners(p) = {} /\ refs[p] = 0
      BY <1>1, XDataConstants DEF SharedInit, Owners
    <3> QED BY <3>1, FS_EmptySet
  <2> QED BY <2>1, <2>2 DEF SInv, RefsCovered
<1>2. ASSUME SInv, [SharedNext]_sharedVars PROVE SInv'
  <2>1. CASE SharedNext
    BY <1>2, <2>1, ConstructKeeps, CopyKeeps, DestroyKeeps, AssignKeeps, ChangeKeeps
       DEF SharedNext
  <2>2. CASE UNCHANGED sharedVars
    BY <1>2, <2>2 DEF sharedVars, SInv, SharedTypeOK, RefsCovered, Owners
  <2> QED BY <1>2, <2>1, <2>2
<1> QED BY <1>1, <1>2, PTL DEF SharedSpec

\* Counts never become negative and objects point to places there are.
THEOREM SharedTypes == SharedSpec => []SharedTypeOK
<1>1. SInv => SharedTypeOK
  BY DEF SInv
<1> QED BY <1>1, SharedInvariant, PTL

\* Whatever is copied, assigned, changed and destroyed, and though detach() gives
\* copies the counts of their originals, no object is left with a Private that
\* was deleted.
THEOREM SharedAlive == SharedSpec => []XDataAlive
<1>1. ASSUME SInv PROVE XDataAlive
  BY <1>1, OwnedIsCounted DEF SInv, RefsCovered, XDataAlive
<1> QED BY <1>1, SharedInvariant, PTL

\* A Private that counts one reference has one owner.
LEMMA SoleOwner ==
  ASSUME SInv, NEW g \in Objects, NEW h \in Objects, Lives(g),
         refs[at[g]] = 1, at[h] = at[g]
  PROVE  g = h
<1>1. at[g] \in Storage /\ IsFiniteSet(Owners(at[g]))
  BY OwnedIsCounted, OwnersFinite
<1>2. g \in Owners(at[g]) /\ h \in Owners(at[g])
  BY DEF Owners
<1>3. Cardinality(Owners(at[g])) = 1
  BY <1>1, <1>2, OwnersFinite DEF SInv, RefsCovered
<1>4. PICK x : Owners(at[g]) = {x}
  BY <1>1, <1>3, FS_Singleton
<1> QED BY <1>2, <1>4

\* A step of one object changes the content of no other that lives before and
\* after it.
LEMMA StepApart ==
  ASSUME SInv, [SharedNext]_sharedVars,
         NEW g \in Objects, NEW h \in Objects, g # h,
         Lives(g), Lives(g)', Lives(h), Lives(h)', Content(g)' # Content(g)
  PROVE  Content(h)' = Content(h)
<1>1. at \in [Objects -> Storage \cup {Nowhere}] /\ refs \in [Storage -> Nat]
      /\ holds \in [Storage -> Contents]
  BY DEF SInv, SharedTypeOK
<1>2. /\ at[g] \in Storage /\ refs[at[g]] >= 1
      /\ at[h] \in Storage /\ refs[at[h]] >= 1
  BY OwnedIsCounted
<1>3. ASSUME Unused # {} PROVE NewPlace \in Storage /\ at[g] # NewPlace /\ at[h] # NewPlace
  BY <1>2, <1>3, NewPlaceUnused
<1>4. ASSUME NEW k \in Objects, ConstructXData(k) PROVE FALSE
  BY <1>1, <1>2, <1>3, <1>4 DEF ConstructXData, Lives, Content
<1>5. ASSUME NEW k \in Objects, DestroyXData(k) PROVE FALSE
  BY <1>1, <1>5 DEF DestroyXData, Lives, Content
<1>6. ASSUME NEW k \in Objects, NEW j \in Objects, CopyXData(k, j) PROVE FALSE
  BY <1>1, <1>6 DEF CopyXData, Lives, Content
<1>7. ASSUME NEW k \in Objects, NEW j \in Objects, AssignXData(k, j)
      PROVE  Content(h)' = Content(h)
  BY <1>1, <1>7 DEF AssignXData, Content
<1>8. ASSUME NEW k \in Objects, NEW v \in Contents, ChangeOwn(k, v)
      PROVE  Content(h)' = Content(h)
  <2>1. refs[at[k]] = 1 /\ Lives(k) /\ at' = at /\ holds' = [holds EXCEPT ![at[k]] = v]
    BY <1>8 DEF ChangeOwn, CopiesShared
  <2>2. h # k => at[h] # at[k]
    BY <2>1, SoleOwner
  <2>3. g # k => at[g] # at[k]
    BY <2>1, SoleOwner
  <2> QED BY <1>1, <2>1, <2>2, <2>3 DEF Content
<1>9. ASSUME NEW k \in Objects, NEW v \in Contents, ChangeDetached(k, v)
      PROVE  Content(h)' = Content(h)
  <2>1. /\ at' = [at EXCEPT ![k] = NewPlace]
        /\ holds' = [holds EXCEPT ![NewPlace] = v] /\ Unused # {}
    BY <1>9 DEF ChangeDetached
  <2> QED BY <1>1, <1>3, <2>1 DEF Content
<1>10. CASE UNCHANGED sharedVars
  BY <1>10 DEF sharedVars, Content
<1> QED BY <1>4, <1>5, <1>6, <1>7, <1>8, <1>9, <1>10 DEF SharedNext

\* Copy on write: a change of one object reaches no other.
THEOREM SharedApart == SharedSpec => XDataApart
<1>1. ASSUME SInv, [SharedNext]_sharedVars
      PROVE  [\A g, h \in Objects :
                /\ g # h /\ Lives(g) /\ Lives(g)' /\ Lives(h) /\ Lives(h)'
                /\ Content(g)' # Content(g)
                => Content(h)' = Content(h)]_sharedVars
  BY <1>1, StepApart
<1> QED BY <1>1, SharedInvariant, PTL DEF SharedSpec, XDataApart

-----------------------------------------------------------------------------

\* The text of an option is one, never empty.
LEMMA TextIsWording ==
  ASSUME NEW o \in Options
  PROVE  Text(o) \in Wording /\ Text(o) # "" /\ Text(o) \in {o.label, o.value} /\ Fits(o, Text(o))
BY FormConstants DEF Options, Text, Fits

\* field() finds the value of an option that fits, if there is one.
LEMMA FoundFits ==
  ASSUME NEW options \in Seq(Options), NEW text
  PROVE  \/ Found(options, text) = <<>> /\ \A n \in DOMAIN options : ~Fits(options[n], text)
         \/ \E n \in DOMAIN options :
              Fits(options[n], text) /\ Found(options, text) = <<options[n].value>>
<1>1. PICK S : S = {n \in DOMAIN options : Fits(options[n], text)}
  OBVIOUS
<1>2. Found(options, text) = IF S = {} THEN <<>> ELSE <<options[Min(S)].value>>
  BY <1>1, Zenon DEF Found
<1>3. S \in SUBSET Nat
  BY <1>1
<1>4. CASE S = {}
  BY <1>1, <1>2, <1>4
<1>5. CASE S # {}
  <2>1. Min(S) \in S
    BY <1>3, <1>5, LeastIs
  <2> QED BY <1>1, <1>2, <1>5, <2>1
<1> QED BY <1>4, <1>5

\* For the text of an item it finds one value, that of the item unless the text
\* could stand for another.
LEMMA FoundForItem ==
  ASSUME NEW options \in Seq(Options), NEW n \in DOMAIN options
  PROVE  /\ \E j \in DOMAIN options : /\ Fits(options[j], Text(options[n]))
                                      /\ Found(options, Text(options[n])) = <<options[j].value>>
         /\ Unambiguous(options) => Found(options, Text(options[n])) = <<options[n].value>>
<1>1. Fits(options[n], Text(options[n]))
  BY DEF Fits, Text
<1>2. PICK j \in DOMAIN options : /\ Fits(options[j], Text(options[n]))
                                  /\ Found(options, Text(options[n])) = <<options[j].value>>
  BY <1>1, FoundFits
<1>3. Unambiguous(options) => j = n
  BY <1>2 DEF Unambiguous
<1> QED BY <1>2, <1>3

\* What a field of a form consists of.
LEMMA FieldParts ==
  ASSUME NEW f \in Fields
  PROVE  /\ f.type \in Types /\ f.options \in Seq(Options) /\ f.value \in Seq(Wording)
         /\ DOMAIN f.options \in SUBSET Nat
         /\ \A n \in DOMAIN f.options : f.options[n] \in Options
         /\ \A v \in Seq(Wording) : [f EXCEPT !.value = v] \in Fields
<1>1. f.type \in Types /\ f.options \in Seq(Options) /\ f.value \in Seq(Wording)
  BY DEF Fields
<1>2. DOMAIN f.options \in SUBSET Nat /\ \A n \in DOMAIN f.options : f.options[n] \in Options
  BY <1>1
<1>3. \A v \in Seq(Wording) : [f EXCEPT !.value = v] \in Fields
  BY DEF Fields
<1> QED BY <1>1, <1>2, <1>3

\* The items with the value of the field.
WithValue(f) == {n \in DOMAIN f.options : Begins(f.value, f.options[n].value)}

\* The item of a combo box is its first, or has the text of the last option with
\* the value of the field.
LEMMA CurrentItemIs ==
  ASSUME NEW f \in Fields
  PROVE  \/ /\ CurrentItem(f) = 1
            /\ \A n \in DOMAIN f.options : ~Begins(f.value, f.options[n].value)
         \/ \E n \in DOMAIN f.options :
              /\ Begins(f.value, f.options[n].value)
              /\ CurrentItem(f) \in DOMAIN f.options
              /\ Text(f.options[CurrentItem(f)]) = Text(f.options[n])
<1> DEFINE S == WithValue(f)
<1>1. S = {n \in DOMAIN f.options : Begins(f.value, f.options[n].value)}
  BY DEF WithValue
<1>2. CurrentItem(f) = IF S = {} THEN 1
                       ELSE FirstWithText(f.options, CHOOSE n \in S : \A j \in S : j <= n)
  BY Zenon DEF CurrentItem, WithValue
<1>3. CASE S = {}
  BY <1>1, <1>2, <1>3
<1>4. CASE S # {}
  <2>1. S \in SUBSET Nat /\ Len(f.options) \in Nat /\ S \in SUBSET (1 .. Len(f.options))
    BY <1>1, FieldParts
  <2>2. PICK m : m = CHOOSE n \in S : \A j \in S : j <= n
    OBVIOUS
  <2>3. m \in S
    <3>1. \E n \in S : \A j \in S : j <= n
      BY <2>1, <1>4, Drags!GreatestOf, Zenon
    <3> QED BY <2>2, <3>1, Zenon
  <2>4. PICK c : c = FirstWithText(f.options, m)
    OBVIOUS
  <2>5. c \in 1 .. m /\ Text(f.options[c]) = Text(f.options[m])
    <3> DEFINE T == {j \in 1 .. m : Text(f.options[j]) = Text(f.options[m])}
    <3>1. m \in T /\ T \in SUBSET Nat
      BY <2>1, <2>3
    <3>2. PICK j \in T : \A i \in T : j <= i
      <4> HIDE DEF T
      <4> QED BY <3>1, Drags!LeastOfNaturals
    <3>3. j \in 1 .. m /\ Text(f.options[j]) = Text(f.options[m])
      OBVIOUS
    <3>4. \A i \in 1 .. j - 1 : Text(f.options[i]) # Text(f.options[m])
      <4>1. SUFFICES ASSUME NEW i \in 1 .. j - 1, Text(f.options[i]) = Text(f.options[m])
            PROVE  FALSE
        OBVIOUS
      <4>2. i \in 1 .. m /\ i < j
        BY <3>3, <2>1, <2>3
      <4>3. i \in T
        BY <4>1, <4>2
      <4> QED BY <3>2, <4>2, <4>3, <3>3
    <3>5. \E k \in 1 .. m : /\ Text(f.options[k]) = Text(f.options[m])
                            /\ \A i \in 1 .. k - 1 : Text(f.options[i]) # Text(f.options[m])
      BY <3>3, <3>4, Zenon
    <3> QED BY <2>4, <3>5, Zenon DEF FirstWithText
  <2>6. c \in DOMAIN f.options /\ m \in DOMAIN f.options /\ Begins(f.value, f.options[m].value)
    <3>1. m \in DOMAIN f.options /\ Begins(f.value, f.options[m].value)
      BY <1>1, <2>3
    <3>2. f.options \in Seq(Options)
      BY FieldParts
    <3> QED BY <2>5, <3>1, <3>2
  <2> QED BY <1>2, <1>4, <2>2, <2>4, <2>5, <2>6
<1> QED BY <1>3, <1>4

\* What the text editor gives back is a list of texts; it is the value again
\* unless that begins with an empty line or has none.
LEMMA LinesAreText ==
  ASSUME NEW value \in Seq(Wording)
  PROVE  /\ Lines(value) \in Seq(Wording)
         /\ value # <<>> /\ value[1] # "" => Lines(value) = value
<1>0. PICK e : e = ""
  BY Zenon
<1>1. PICK S : S = {n \in DOMAIN value : value[n] # e}
  BY Zenon
<1>2. Lines(value) = IF S = {} THEN <<e>> ELSE SubSeq(value, Min(S), Len(value))
  <2>1. Lines(value) = IF {n \in DOMAIN value : value[n] # ""} = {} THEN <<"">>
                       ELSE SubSeq(value, Min({n \in DOMAIN value : value[n] # ""}), Len(value))
    BY Zenon DEF Lines, Min
  <2> QED BY <2>1, <1>0, <1>1, Zenon
<1>3. e \in Wording
  BY <1>0, FormConstants
<1>4. S \in SUBSET Nat /\ Len(value) \in Nat /\ S \in SUBSET (1 .. Len(value))
  BY <1>1
<1>5. value # <<>> /\ value[1] # e => 1 \in S
  BY <1>1
<1>6. CASE S = {}
  <2>1. Lines(value) \in Seq(Wording)
    BY <1>2, <1>3, <1>6
  <2> QED BY <1>0, <1>5, <1>6, <2>1, Zenon
<1>7. CASE S # {}
  <2>1. Min(S) \in S /\ \A n \in S : Min(S) <= n
    BY <1>4, <1>7, LeastIs
  <2>2. PICK m : m = Min(S)
    OBVIOUS
  <2>7. m \in S /\ \A n \in S : m <= n
    BY <2>1, <2>2, Zenon
  <2>3. m \in 1 .. Len(value) /\ (1 \in S => m = 1)
    BY <1>4, <2>7
  <2>4. SubSeq(value, m, Len(value)) \in Seq(Wording)
    <3>1. \A i \in m .. Len(value) : value[i] \in Wording
      BY <2>3
    <3> QED BY <1>4, <2>3, <3>1, SubSeqProperties
  <2>5. SubSeq(value, 1, Len(value)) = value
    OBVIOUS
  <2>6. Lines(value) = SubSeq(value, m, Len(value))
    BY <1>2, <1>7, <2>2, Zenon
  <2> QED BY <1>0, <1>5, <2>3, <2>4, <2>5, <2>6, Zenon
<1> QED BY <1>6, <1>7

\* The items the widget selects are items of the field.
LEMMA ChosenItemsAre ==
  ASSUME NEW f \in Fields
  PROVE  ChosenItems(f) \subseteq DOMAIN f.options
BY DEF ChosenItems

\* What the widget of a field shows at first is something it can show.
LEMMA WidgetShows ==
  ASSUME NEW f \in Fields
  PROVE  CanShow(f, Widget(f))
<1>1. /\ f.type \in Types /\ f.options \in Seq(Options) /\ f.value \in Seq(Wording)
  BY FieldParts
<1>2. CASE f.type = "boolean"
  BY <1>2 DEF CanShow, Widget, IsTrue
<1>3. CASE f.type = "hidden"
  BY <1>3 DEF CanShow, Widget
<1>4. CASE f.type = "text-single"
  <2>1. "" \in Wording
    BY FormConstants
  <2>2. f.value # <<>> => f.value[1] \in Wording
    BY <1>1
  <2>3. (IF f.value = <<>> THEN "" ELSE f.value[1]) \in Wording
    BY <2>1, <2>2, Zenon
  <2> QED BY <1>4, <2>3 DEF CanShow, Widget
<1>5. CASE f.type = "list-single"
  <2>1. CurrentItem(f) \in DOMAIN f.options \/ CurrentItem(f) = 1
    BY CurrentItemIs
  <2>2. f.options # <<>> => 1 \in DOMAIN f.options
    BY <1>1
  <2> QED BY <1>5, <2>1, <2>2 DEF CanShow, Widget
<1>6. CASE f.type = "list-multi"
  BY <1>6, ChosenItemsAre DEF CanShow, Widget
<1>7. CASE f.type = "text-multi"
  BY <1>1, <1>7, LinesAreText DEF CanShow, Widget
<1> QED BY <1>1, <1>2, <1>3, <1>4, <1>5, <1>6, <1>7 DEF Types

\* The values found for the items of a list box.
FoundFor(f, w) ==
  [n \in DOMAIN f.options |-> IF n \in w THEN Found(f.options, Text(f.options[n])) ELSE <<>>]

\* They are one for each item that is chosen.
LEMMA FoundForIs ==
  ASSUME NEW f \in Fields, NEW w
  PROVE  /\ FoundFor(f, w) \in Seq(Seq(Wording))
         /\ Len(FoundFor(f, w)) = Len(f.options)
         /\ \A n \in DOMAIN f.options :
              n \in w => /\ Len(FoundFor(f, w)[n]) = 1
                         /\ \E o \in Range(f.options) : FoundFor(f, w)[n] = <<o.value>>
                         /\ Unambiguous(f.options) => FoundFor(f, w)[n] = <<f.options[n].value>>
         /\ \A n \in DOMAIN f.options : n \notin w => FoundFor(f, w)[n] = <<>>
<1>1. f.options \in Seq(Options) /\ DOMAIN f.options = 1 .. Len(f.options) /\ Len(f.options) \in Nat
  BY FieldParts
<1>2. ASSUME NEW n \in DOMAIN f.options, n \in w
      PROVE  /\ Len(FoundFor(f, w)[n]) = 1
             /\ \E o \in Range(f.options) : FoundFor(f, w)[n] = <<o.value>>
             /\ Unambiguous(f.options) => FoundFor(f, w)[n] = <<f.options[n].value>>
             /\ FoundFor(f, w)[n] \in Seq(Wording)
  <2>1. FoundFor(f, w)[n] = Found(f.options, Text(f.options[n]))
    BY <1>2 DEF FoundFor
  <2>2. PICK j \in DOMAIN f.options : Found(f.options, Text(f.options[n])) = <<f.options[j].value>>
    BY <1>1, FoundForItem
  <2>3. f.options[j] \in Range(f.options) /\ f.options[j].value \in Wording
    BY FieldParts DEF Range, Options
  <2>4. Unambiguous(f.options) => Found(f.options, Text(f.options[n])) = <<f.options[n].value>>
    BY <1>1, FoundForItem
  <2> QED BY <2>1, <2>2, <2>3, <2>4
<1>3. ASSUME NEW n \in DOMAIN f.options, n \notin w PROVE FoundFor(f, w)[n] = <<>>
  BY <1>3 DEF FoundFor
<1>4. \A n \in DOMAIN f.options : FoundFor(f, w)[n] \in Seq(Wording)
  <2>1. <<>> \in Seq(Wording)
    OBVIOUS
  <2> QED BY <1>2, <1>3, <2>1, Zenon
<1>5. FoundFor(f, w) \in [1 .. Len(f.options) -> Seq(Wording)]
  <2>1. FoundFor(f, w) = [n \in 1 .. Len(f.options) |-> FoundFor(f, w)[n]]
    BY <1>1, Zenon DEF FoundFor
  <2> QED BY <1>1, <1>4, <2>1
<1>6. FoundFor(f, w) \in Seq(Seq(Wording)) /\ Len(FoundFor(f, w)) = Len(f.options)
  BY <1>1, <1>5
<1> QED BY <1>2, <1>3, <1>6

\* The answer of a widget is a sequence of texts.
LEMMA ValueIsText ==
  ASSUME NEW f \in Fields, NEW w, CanShow(f, w)
  PROVE  ValueOf(f, w) \in Seq(Wording)
<1>1. f.type \in Types /\ f.options \in Seq(Options) /\ f.value \in Seq(Wording)
  BY FieldParts
<1>0. \A x \in Wording : <<x>> \in Seq(Wording)
  OBVIOUS
<1>2. CASE f.type = "boolean"
  <2>1. <<"true">> \in Seq(Wording) /\ <<"false">> \in Seq(Wording)
    BY <1>0, FormConstants, Zenon
  <2>2. ValueOf(f, w) = IF w THEN <<"true">> ELSE <<"false">>
    BY <1>2 DEF ValueOf
  <2>3. ValueOf(f, w) = <<"true">> \/ ValueOf(f, w) = <<"false">>
    BY <2>2, Zenon
  <2> QED BY <2>1, <2>3, Zenon
<1>3. CASE f.type = "hidden"
  BY <1>1, <1>3 DEF ValueOf
<1>4. CASE f.type = "text-single"
  BY <1>4 DEF ValueOf, CanShow
<1>5. CASE f.type = "list-single"
  <2>1. ValueOf(f, w) = IF f.options = <<>> THEN <<>> ELSE Found(f.options, Text(f.options[w]))
    BY <1>5 DEF ValueOf
  <2>2. Found(f.options, Text(f.options[w])) \in Seq(Wording)
    <3>1. \A j \in DOMAIN f.options : <<f.options[j].value>> \in Seq(Wording)
      <4>1. \A j \in DOMAIN f.options : f.options[j].value \in Wording
        BY FieldParts DEF Options
      <4> QED BY <1>0, <4>1, Zenon
    <3>2. <<>> \in Seq(Wording)
      OBVIOUS
    <3>3. \/ Found(f.options, Text(f.options[w])) = <<>>
          \/ \E j \in DOMAIN f.options : Found(f.options, Text(f.options[w])) = <<f.options[j].value>>
      BY <1>1, FoundFits, Zenon
    <3> QED BY <3>1, <3>2, <3>3, Zenon
  <2>3. <<>> \in Seq(Wording)
    OBVIOUS
  <2> QED BY <2>1, <2>2, <2>3, Zenon
<1>6. CASE f.type = "list-multi"
  <2>1. ValueOf(f, w) = FlattenSeq(FoundFor(f, w))
    BY <1>6 DEF ValueOf, FoundFor
  <2> QED BY <2>1, FoundForIs, FlattenRange
<1>7. CASE f.type = "text-multi"
  BY <1>7 DEF ValueOf, CanShow
<1> QED BY <1>1, <1>2, <1>3, <1>4, <1>5, <1>6, <1>7 DEF Types

\* What the answer depends on.
AnswerOf(type, options, value, w) ==
  CASE type = "boolean" -> IF w THEN <<"true">> ELSE <<"false">>
    [] type = "hidden" -> value
    [] type = "text-single" -> <<w>>
    [] type = "list-single" ->
         IF options = <<>> THEN <<>> ELSE Found(options, Text(options[w]))
    [] type = "list-multi" ->
         FlattenSeq([n \in DOMAIN options |->
                       IF n \in w THEN Found(options, Text(options[n])) ELSE <<>>])
    [] type = "text-multi" -> w

\* The answer does not depend on the value the field has, unless it is hidden.
LEMMA AnswerIsWidgets ==
  ASSUME NEW f \in Fields, NEW v \in Seq(Wording), NEW w,
         NEW g, g = [f EXCEPT !.value = v]
  PROVE  /\ g \in Fields /\ g.value = v /\ g.type = f.type /\ g.options = f.options
         /\ CanShow(g, w) = CanShow(f, w)
         /\ f.type # "hidden" => ValueOf(g, w) = ValueOf(f, w)
<1>1. g \in Fields /\ g.value = v /\ g.type = f.type /\ g.options = f.options
  BY DEF Fields
<1>2. CanShow(g, w) = CanShow(f, w)
  BY <1>1, Zenon DEF CanShow
<1>3. CASE f.type # "hidden"
  <2>1. AnswerOf(f.type, f.options, v, w) = AnswerOf(f.type, f.options, f.value, w)
    <3>1. f.type \in Types \ {"hidden"}
      BY <1>3, FieldParts
    <3>2. \A v1, v2 : /\ AnswerOf("boolean", f.options, v1, w) = AnswerOf("boolean", f.options, v2, w)
                      /\ AnswerOf("text-single", f.options, v1, w) = AnswerOf("text-single", f.options, v2, w)
                      /\ AnswerOf("list-single", f.options, v1, w) = AnswerOf("list-single", f.options, v2, w)
                      /\ AnswerOf("list-multi", f.options, v1, w) = AnswerOf("list-multi", f.options, v2, w)
                      /\ AnswerOf("text-multi", f.options, v1, w) = AnswerOf("text-multi", f.options, v2, w)
      BY Zenon DEF AnswerOf
    <3> QED BY <3>1, <3>2, Zenon DEF Types
  <2>2. ValueOf(f, w) = AnswerOf(f.type, f.options, f.value, w)
    BY Zenon DEF ValueOf, AnswerOf
  <2>3. ValueOf(g, w) = AnswerOf(g.type, g.options, g.value, w)
    BY Zenon DEF ValueOf, AnswerOf
  <2>4. AnswerOf(g.type, g.options, g.value, w) = AnswerOf(f.type, f.options, v, w)
    BY <1>1, Zenon
  <2> QED BY <1>1, <1>2, <1>3, <2>1, <2>2, <2>3, <2>4, Zenon
<1> QED BY <1>1, <1>2, <1>3

\* Without ambiguous texts the answer of a combo box is the item it shows, that of
\* a list box the items that are chosen, in their order.
LEMMA ComboAnswers ==
  ASSUME NEW f \in Fields, f.type = "list-single", NEW w, CanShow(f, w)
  PROVE  /\ f.options = <<>> => ValueOf(f, w) = <<>>
         /\ f.options # <<>> =>
              /\ w \in DOMAIN f.options
              /\ \E o \in Range(f.options) : ValueOf(f, w) = <<o.value>>
              /\ Unambiguous(f.options) => ValueOf(f, w) = <<f.options[w].value>>
<1>1. ValueOf(f, w) = IF f.options = <<>> THEN <<>> ELSE Found(f.options, Text(f.options[w]))
  BY DEF ValueOf
<1>2. f.options # <<>> => w \in DOMAIN f.options
  BY DEF CanShow
<1>3. CASE f.options # <<>>
  <2>1. f.options \in Seq(Options) /\ w \in DOMAIN f.options
    BY <1>2, <1>3, FieldParts
  <2>2. /\ \E j \in DOMAIN f.options : Found(f.options, Text(f.options[w])) = <<f.options[j].value>>
        /\ Unambiguous(f.options) => Found(f.options, Text(f.options[w])) = <<f.options[w].value>>
    BY <2>1, FoundForItem
  <2>3. \E o \in Range(f.options) : Found(f.options, Text(f.options[w])) = <<o.value>>
    <3>1. \A j \in DOMAIN f.options : f.options[j] \in Range(f.options)
      BY DEF Range
    <3> QED BY <2>2, <3>1
  <2> QED BY <1>1, <1>3, <2>1, <2>2, <2>3
<1> QED BY <1>1, <1>3

\* A list answers with the values of the items selected, in the order of the
\* options.
LEMMA ListAnswers ==
  ASSUME NEW f \in Fields, f.type = "list-multi", NEW w, CanShow(f, w)
  PROVE  /\ ValueOf(f, w) = FlattenSeq(FoundFor(f, w))
         /\ Range(ValueOf(f, w)) = UNION {Range(FoundFor(f, w)[n]) : n \in DOMAIN f.options}
         /\ Unambiguous(f.options) =>
              Range(ValueOf(f, w)) = {f.options[n].value : n \in w}
<1>1. ValueOf(f, w) = FlattenSeq(FoundFor(f, w))
  BY DEF ValueOf, FoundFor
<1>2. w \subseteq DOMAIN f.options /\ DOMAIN f.options = 1 .. Len(f.options)
  BY FieldParts DEF CanShow
<1>3. FoundFor(f, w) \in Seq(Seq(Wording)) /\ Len(FoundFor(f, w)) = Len(f.options)
  BY FoundForIs
<1>4. Range(ValueOf(f, w)) = UNION {Range(FoundFor(f, w)[n]) : n \in DOMAIN f.options}
  <2>1. Range(FlattenSeq(FoundFor(f, w))) = UNION {Range(FoundFor(f, w)[n]) : n \in 1 .. Len(FoundFor(f, w))}
    BY <1>3, FlattenRange, Zenon
  <2> QED BY <1>1, <1>2, <1>3, <2>1, Zenon
<1>5. ASSUME Unambiguous(f.options)
      PROVE  Range(ValueOf(f, w)) = {f.options[n].value : n \in w}
  <2>1. \A n \in DOMAIN f.options :
          FoundFor(f, w)[n] = IF n \in w THEN <<f.options[n].value>> ELSE <<>>
    <3>1. \A n \in DOMAIN f.options :
            /\ n \in w => (Unambiguous(f.options) => FoundFor(f, w)[n] = <<f.options[n].value>>)
            /\ n \notin w => FoundFor(f, w)[n] = <<>>
      BY FoundForIs, Zenon
    <3> QED BY <1>5, <3>1
  <2>2. \A n \in DOMAIN f.options :
          Range(FoundFor(f, w)[n]) = IF n \in w THEN {f.options[n].value} ELSE {}
    <3>1. Range(<<>>) = {} /\ \A x : Range(<<x>>) = {x}
      BY DEF Range
    <3> QED BY <2>1, <3>1
  <2>3. PICK U : U = Range(ValueOf(f, w))
    OBVIOUS
  <2>4. \A x : x \in U <=> \E n \in DOMAIN f.options : x \in Range(FoundFor(f, w)[n])
    BY <1>4, <2>3, Zenon
  <2>5. ASSUME NEW x PROVE x \in U <=> \E n \in w : x = f.options[n].value
    <3>1. ASSUME NEW n \in DOMAIN f.options
          PROVE  x \in Range(FoundFor(f, w)[n]) <=> n \in w /\ x = f.options[n].value
      <4>1. Range(FoundFor(f, w)[n]) = IF n \in w THEN {f.options[n].value} ELSE {}
        BY <2>2
      <4> QED BY <4>1
    <3>2. \A n \in w : n \in DOMAIN f.options
      BY <1>2
    <3> QED BY <2>4, <3>1, <3>2, Zenon
  <2> QED BY <2>3, <2>5
<1> QED BY <1>1, <1>4, <1>5

\* The element without labels is a field again, with the same values.
LEMMA RereadIsField ==
  ASSUME NEW f \in Fields
  PROVE  LET g == FieldToXml(f)
         IN /\ g \in Fields /\ g.type = f.type /\ g.value = f.value
            /\ DOMAIN g.options = DOMAIN f.options
            /\ \A n \in DOMAIN f.options :
                 g.options[n].label = "" /\ g.options[n].value = f.options[n].value
<1>1. PICK opts : opts = [n \in DOMAIN f.options |-> OptionElement(f.options[n])]
  OBVIOUS
<1>2. PICK g : g = FieldToXml(f)
  OBVIOUS
<1>3. g = [f EXCEPT !.options = opts]
  BY <1>1, <1>2, Zenon DEF FieldToXml
<1>4. /\ f.options \in Seq(Options) /\ DOMAIN f.options = 1 .. Len(f.options)
      /\ Len(f.options) \in Nat
  BY FieldParts
<1>5. \A n \in DOMAIN f.options : opts[n] = OptionElement(f.options[n])
  BY <1>1
<1>6. ASSUME NEW n \in DOMAIN f.options
      PROVE  opts[n] \in Options /\ opts[n].label = "" /\ opts[n].value = f.options[n].value
  <2>1. f.options[n] \in Options
    BY FieldParts
  <2>2. opts[n] = [f.options[n] EXCEPT !.label = ""]
    BY <1>5 DEF OptionElement
  <2> QED BY <2>1, <2>2, FormConstants DEF Options
<1>7. opts \in [1 .. Len(f.options) -> Options]
  BY <1>1, <1>4, <1>6
<1>8. opts \in Seq(Options) /\ DOMAIN opts = DOMAIN f.options
  BY <1>4, <1>7
<1>9. g \in Fields /\ g.type = f.type /\ g.value = f.value /\ g.options = opts
  BY <1>3, <1>8 DEF Fields
<1>10. \A n \in DOMAIN f.options :
         g.options[n].label = "" /\ g.options[n].value = f.options[n].value
  BY <1>6, <1>9
<1> QED BY <1>2, <1>8, <1>9, <1>10

\* What the user can make of a widget, it can show.
LEMMA EditsShow ==
  ASSUME NEW f \in Fields, NEW w, CanShow(f, w), NEW e \in Edits(f, w)
  PROVE  CanShow(f, e)
<1>1. f.type \in Types
  BY FieldParts
<1>2. CASE f.type = "boolean"
  BY <1>2 DEF CanShow, Edits
<1>3. CASE f.type = "hidden"
  BY <1>3 DEF CanShow, Edits
<1>4. CASE f.type = "text-single"
  <2>1. Edits(f, w) = Typed
    BY <1>4 DEF Edits
  <2>2. Typed \subseteq Wording
    BY FormConstants
  <2>3. e \in Wording
    BY <2>1, <2>2
  <2> QED BY <1>4, <2>3 DEF CanShow
<1>5. CASE f.type = "list-single"
  BY <1>5 DEF CanShow, Edits
<1>6. CASE f.type = "list-multi"
  BY <1>6 DEF CanShow, Edits
<1>7. CASE f.type = "text-multi"
  <2>1. Typed \subseteq Wording
    BY FormConstants
  <2>2. Edits(f, w) = {<<a>> : a \in Typed} \cup {<<a, b>> : a, b \in Typed}
    BY <1>7 DEF Edits
  <2>3. \A a, b \in Wording : <<a>> \in Seq(Wording) /\ <<a, b>> \in Seq(Wording)
    OBVIOUS
  <2>4. ASSUME e \in {<<a>> : a \in Typed} PROVE e \in Seq(Wording)
    <3>1. PICK a \in Typed : e = <<a>>
      BY <2>4
    <3> QED BY <2>1, <2>3, <3>1
  <2>5. ASSUME e \in {<<a, b>> : a, b \in Typed} PROVE e \in Seq(Wording)
    <3>1. PICK a \in Typed, b \in Typed : e = <<a, b>>
      BY <2>5
    <3> QED BY <2>1, <2>3, <3>1
  <2>6. e \in Seq(Wording)
    BY <2>2, <2>4, <2>5
  <2> QED BY <1>7, <2>6 DEF CanShow
<1> QED BY <1>1, <1>2, <1>3, <1>4, <1>5, <1>6, <1>7 DEF Types

\* A widget that nobody has touched shows the field, or was the last to answer.
Fresh == shown # NoField /\ ~touched =>
           shown = Widget(field) \/ field.value = ValueOf(field, shown)

FormInv == FormTypeOK /\ Fresh

\* A step of the form keeps the invariant, and so does doing nothing.
LEMMA StepForm ==
  ASSUME FormInv, [FormNext]_formVars
  PROVE  FormInv'
<1>1. CASE ReceiveForm
  BY <1>1, FormConstants DEF ReceiveForm, FormInv, FormTypeOK, Fresh
<1>2. CASE ShowForm
  <2>1. field \in Fields
    BY <1>2 DEF ShowForm, FormInv, FormTypeOK
  <2>2. CanShow(field, Widget(field))
    BY <2>1, WidgetShows
  <2>3. field' = field /\ shown' = Widget(field) /\ touched' = FALSE
    BY <1>2 DEF ShowForm
  <2>4. CanShow(field', shown') /\ shown' = Widget(field')
    BY <2>2, <2>3, Zenon
  <2> QED BY <1>2, <2>3, <2>4 DEF ShowForm, FormInv, FormTypeOK, Fresh
<1>3. CASE EditForm
  <2>1. field \in Fields /\ CanShow(field, shown) /\ field # NoField
    BY <1>3 DEF EditForm, FormInv, FormTypeOK
  <2>2. CanShow(field, shown')
    BY <1>3, <2>1, EditsShow DEF EditForm
  <2>3. field' = field /\ touched' = TRUE
    BY <1>3 DEF EditForm
  <2>4. CanShow(field', shown')
    BY <2>2, <2>3, Zenon
  <2> QED BY <2>1, <2>3, <2>4 DEF FormInv, FormTypeOK, Fresh
<1>4. CASE TakeForm
  <2>1. field \in Fields /\ CanShow(field, shown)
    BY <1>4 DEF TakeForm, FormInv, FormTypeOK
  <2>2. PICK v : v = ValueOf(field, shown)
    OBVIOUS
  <2>3. v \in Seq(Wording) /\ field' = [field EXCEPT !.value = v]
    BY <1>4, <2>1, <2>2, ValueIsText DEF TakeForm
  <2>4. /\ field' \in Fields /\ field'.value = v
        /\ CanShow(field', shown) = CanShow(field, shown)
        /\ field.type # "hidden" => ValueOf(field', shown) = ValueOf(field, shown)
    <3>1. field \in Fields /\ v \in Seq(Wording) /\ field' = [field EXCEPT !.value = v]
      BY <2>1, <2>3
    <3> QED BY <3>1, AnswerIsWidgets
  <2>5. field.type = "hidden" => ValueOf(field', shown) = field'.value
    <3>1. field'.type = field.type
      BY <2>1, <2>3 DEF Fields
    <3> QED BY <3>1, Zenon DEF ValueOf
  <2>6. field'.value = ValueOf(field', shown)
    BY <2>2, <2>4, <2>5, Zenon
  <2>7. shown' = shown /\ touched' = touched
    BY <1>4 DEF TakeForm
  <2>8. field' # NoField
    BY <2>4, FormConstants
  <2>9. CanShow(field', shown') /\ field'.value = ValueOf(field', shown')
    BY <2>1, <2>4, <2>6, <2>7, Zenon
  <2> QED BY <2>4, <2>7, <2>8, <2>9 DEF FormInv, FormTypeOK, Fresh
<1>5. CASE RereadForm
  <2>1. field \in Fields
    BY <1>5 DEF RereadForm, FormInv, FormTypeOK
  <2>2. field' \in Fields
    BY <1>5, <2>1, RereadIsField DEF RereadForm
  <2> QED BY <1>5, <2>2 DEF RereadForm, FormInv, FormTypeOK, Fresh
<1>6. CASE UNCHANGED formVars
  BY <1>6 DEF formVars, FormInv, FormTypeOK, Fresh
<1> QED BY <1>1, <1>2, <1>3, <1>4, <1>5, <1>6 DEF FormNext

-----------------------------------------------------------------------------

\* An option whose value or label is the value of another is that option.
LEMMA ValueIsOwn ==
  ASSUME NEW options \in Seq(Options), Unambiguous(options),
         NEW i \in DOMAIN options, NEW j \in DOMAIN options,
         Fits(options[j], options[i].value)
  PROVE  options[j].value = options[i].value
<1>1. options[i] \in Options /\ options[j] \in Options
  OBVIOUS
<1>2. CASE options[j].value = options[i].value
  BY <1>2
<1>3. CASE options[j].label = options[i].value
  <2>1. Text(options[j]) = options[i].value
    BY <1>1, <1>3 DEF Text, Options
  <2>2. Fits(options[i], Text(options[j]))
    BY <2>1 DEF Fits
  <2> QED BY <2>2 DEF Unambiguous
<1> QED BY <1>2, <1>3 DEF Fits

\* The answer of a widget that shows the field is the value of the field.
LEMMA SameFromWidget ==
  ASSUME NEW f \in Fields, Unambiguous(f.options)
  PROVE  Same(f, ValueOf(f, Widget(f)))
<1>1. f.type \in Types /\ f.options \in Seq(Options) /\ f.value \in Seq(Wording)
  BY FieldParts
<1>2. CASE f.type = "boolean"
  <2>1. ValueOf(f, Widget(f)) = IF IsTrue(f.value) THEN <<"true">> ELSE <<"false">>
    BY <1>2 DEF ValueOf, Widget
  <2>2. IsTrue(<<"true">>) /\ ~IsTrue(<<"false">>)
    BY DEF IsTrue, Begins
  <2>3. IsTrue(ValueOf(f, Widget(f))) <=> IsTrue(f.value)
    BY <2>1, <2>2, Zenon
  <2> QED BY <1>2, <2>3 DEF Same
<1>3. CASE f.type = "hidden"
  <2>1. ValueOf(f, Widget(f)) = f.value
    BY <1>3 DEF ValueOf
  <2> QED BY <1>3, <2>1 DEF Same
<1>4. CASE f.type = "text-single"
  <2>1. f.value # <<>> => ValueOf(f, Widget(f)) = <<f.value[1]>>
    BY <1>4 DEF ValueOf, Widget
  <2> QED BY <1>4, <2>1 DEF Same
<1>5. CASE f.type = "list-single"
  <2>1. PICK w : w = Widget(f)
    OBVIOUS
  <2>2. w = CurrentItem(f)
    BY <1>5, <2>1 DEF Widget
  <2>3. CanShow(f, w)
    BY <2>1, WidgetShows
  <2>4. SUFFICES ASSUME NEW o \in Range(f.options), Begins(f.value, o.value)
                 PROVE  ValueOf(f, w) = <<o.value>>
    BY <1>5, <2>1 DEF Same
  <2>5. PICK k \in DOMAIN f.options : f.options[k] = o
    BY DEF Range
  <2>6. PICK n \in DOMAIN f.options :
               /\ Begins(f.value, f.options[n].value)
               /\ w \in DOMAIN f.options
               /\ Text(f.options[w]) = Text(f.options[n])
    BY <2>2, <2>4, <2>5, CurrentItemIs
  <2>7. w = n
    <3>1. Fits(f.options[n], Text(f.options[w]))
      BY <2>6 DEF Fits, Text
    <3> QED BY <2>6, <3>1 DEF Unambiguous
  <2>8. ValueOf(f, w) = <<f.options[n].value>>
    <3>1. f.options # <<>>
      BY <1>1
    <3> QED BY <1>5, <2>3, <2>7, <3>1, ComboAnswers
  <2>9. f.options[n].value = o.value
    BY <2>4, <2>6 DEF Begins
  <2> QED BY <2>8, <2>9
<1>6. CASE f.type = "list-multi"
  <2>1. PICK w : w = Widget(f)
    OBVIOUS
  <2>2. w = {n \in DOMAIN f.options : \E v \in Range(f.value) : Fits(f.options[n], v)}
    BY <1>6, <2>1, Zenon DEF Widget, ChosenItems
  <2>3. CanShow(f, w)
    BY <2>1, WidgetShows
  <2>4. PICK U : U = Range(ValueOf(f, w))
    OBVIOUS
  <2>5. U = {f.options[n].value : n \in w}
    BY <1>6, <2>3, <2>4, ListAnswers, Zenon
  <2>6. PICK W : W = {o.value : o \in {p \in Range(f.options) : \E v \in Range(f.value) : Fits(p, v)}}
    OBVIOUS
  <2>7. \A x : x \in W <=> \E p \in Range(f.options) :
                              x = p.value /\ \E v \in Range(f.value) : Fits(p, v)
    BY <2>6, Zenon
  <2>8. \A x : x \in U <=> \E n \in DOMAIN f.options :
                              /\ x = f.options[n].value
                              /\ \E v \in Range(f.value) : Fits(f.options[n], v)
    BY <2>2, <2>5
  <2>9. \A p : p \in Range(f.options) <=> \E n \in DOMAIN f.options : p = f.options[n]
    BY Zenon DEF Range
  <2>10. \A x : x \in U <=> x \in W
    <3>1. ASSUME NEW x \in U PROVE x \in W
      <4>1. PICK n \in DOMAIN f.options : /\ x = f.options[n].value
                                         /\ \E v \in Range(f.value) : Fits(f.options[n], v)
        BY <2>8
      <4>2. f.options[n] \in Range(f.options)
        BY <2>9
      <4> QED BY <2>7, <4>1, <4>2
    <3>2. ASSUME NEW x \in W PROVE x \in U
      <4>1. PICK p \in Range(f.options) : x = p.value /\ \E v \in Range(f.value) : Fits(p, v)
        BY <2>7
      <4>2. PICK n \in DOMAIN f.options : p = f.options[n]
        BY <2>9
      <4> QED BY <2>8, <4>1, <4>2
    <3> QED BY <3>1, <3>2
  <2>11. Range(ValueOf(f, Widget(f))) = W
    BY <2>1, <2>4, <2>10
  <2> QED BY <1>6, <2>6, <2>11 DEF Same
<1>7. CASE f.type = "text-multi"
  <2>1. ValueOf(f, Widget(f)) = Lines(f.value)
    BY <1>7 DEF ValueOf, Widget
  <2>2. f.value # <<>> /\ f.value[1] # "" => Lines(f.value) = f.value
    BY <1>1, LinesAreText, Zenon
  <2> QED BY <1>7, <2>1, <2>2 DEF Same
<1> QED BY <1>1, <1>2, <1>3, <1>4, <1>5, <1>6, <1>7 DEF Types

\* A field that has the answer of a widget is the same as that answer.
LEMMA SameAgain ==
  ASSUME NEW f \in Fields, Unambiguous(f.options), NEW w, CanShow(f, w),
         f.value = ValueOf(f, w)
  PROVE  Same(f, f.value)
<1>1. f.type \in Types /\ f.options \in Seq(Options) /\ f.value \in Seq(Wording)
  BY FieldParts
<1>2. CASE f.type = "boolean"
  BY <1>2 DEF Same
<1>3. CASE f.type = "text-single"
  <2>1. f.value = <<w>>
    BY <1>3 DEF ValueOf
  <2>2. f.value = <<f.value[1]>>
    BY <2>1
  <2> QED BY <1>3, <2>2 DEF Same
<1>4. CASE f.type = "list-single"
  <2>1. SUFFICES ASSUME NEW o \in Range(f.options), Begins(f.value, o.value)
                 PROVE  f.value = <<o.value>>
    BY <1>4 DEF Same
  <2>2. PICK x : f.value = <<x>>
    BY <1>4, <2>1, ComboAnswers DEF Begins
  <2> QED BY <2>1, <2>2 DEF Begins
<1>5. CASE f.type = "list-multi"
  <2>1. \A x : x \in Range(f.value) <=> \E n \in w : x = f.options[n].value
    <3>1. Range(f.value) = {f.options[n].value : n \in w}
      BY <1>5, ListAnswers
    <3> QED BY <3>1
  <2>2. w \subseteq DOMAIN f.options
    BY <1>5 DEF CanShow
  <2>3. PICK W : W = {o.value : o \in {p \in Range(f.options) : \E v \in Range(f.value) : Fits(p, v)}}
    OBVIOUS
  <2>4. \A x : x \in W <=> \E p \in Range(f.options) :
                              x = p.value /\ \E v \in Range(f.value) : Fits(p, v)
    BY <2>3, Zenon
  <2>5. ASSUME NEW x \in Range(f.value) PROVE x \in W
    <3>1. PICK n \in w : x = f.options[n].value
      BY <2>1
    <3>2. f.options[n] \in Range(f.options) /\ Fits(f.options[n], x)
      BY <2>2, <3>1 DEF Range, Fits
    <3> QED BY <2>4, <3>1, <3>2
  <2>6. ASSUME NEW x \in W PROVE x \in Range(f.value)
    <3>1. PICK p \in Range(f.options), v \in Range(f.value) : x = p.value /\ Fits(p, v)
      BY <2>4
    <3>2. PICK j \in DOMAIN f.options : f.options[j] = p
      BY DEF Range
    <3>3. PICK n \in w : v = f.options[n].value
      BY <2>1
    <3>4. p.value = v
      BY <1>1, <2>2, <3>1, <3>2, <3>3, ValueIsOwn
    <3> QED BY <3>1, <3>4
  <2>7. Range(f.value) = W
    BY <2>5, <2>6
  <2> QED BY <1>5, <2>3, <2>7 DEF Same
<1>6. CASE f.type \in {"hidden", "text-multi"}
  BY <1>6 DEF Same
<1> QED BY <1>1, <1>2, <1>3, <1>4, <1>5, <1>6 DEF Types

\* What is taken from a widget.
LEMMA TakenIs ==
  ASSUME FormInv, TakeForm
  PROVE  /\ field \in Fields /\ CanShow(field, shown)
         /\ field'.value = ValueOf(field, shown)
<1>1. field \in Fields /\ CanShow(field, shown)
  BY DEF TakeForm, FormInv, FormTypeOK
<1>2. field' = [field EXCEPT !.value = ValueOf(field, shown)]
  BY DEF TakeForm
<1>3. field'.value = ValueOf(field, shown)
  BY <1>1, <1>2 DEF Fields
<1> QED BY <1>1, <1>3

\* A form submitted untouched answers as it was received.
LEMMA TakeKeeps ==
  ASSUME FormInv, TakeForm, ~touched, Unambiguous(field.options)
  PROVE  Same(field, field'.value)
<1>1. /\ field \in Fields /\ CanShow(field, shown)
      /\ field'.value = ValueOf(field, shown)
  BY TakenIs
<1>2. CASE shown = Widget(field)
  <2>1. Same(field, ValueOf(field, Widget(field)))
    BY <1>1, SameFromWidget
  <2> QED BY <1>1, <1>2, <2>1, Zenon
<1>3. CASE field.value = ValueOf(field, shown)
  <2>1. Same(field, field.value)
    BY <1>1, <1>3, SameAgain
  <2> QED BY <1>1, <1>3, <2>1, Zenon
<1> QED BY <1>2, <1>3 DEF FormInv, Fresh, TakeForm

\* The values of the chosen items, item by item.
Chosen(f, w) == [n \in DOMAIN f.options |-> IF n \in w THEN <<f.options[n].value>> ELSE <<>>]

\* The values the user chose, one sequence for each option.
LEMMA ChosenIs ==
  ASSUME NEW f \in Fields, NEW w
  PROVE  /\ Chosen(f, w) \in Seq(Seq(Wording))
         /\ Len(Chosen(f, w)) = Len(f.options)
         /\ \A n \in DOMAIN f.options :
              Chosen(f, w)[n] = IF n \in w THEN <<f.options[n].value>> ELSE <<>>
<1>1. /\ DOMAIN f.options = 1 .. Len(f.options) /\ Len(f.options) \in Nat
      /\ \A n \in DOMAIN f.options : f.options[n].value \in Wording
  <2>1. \A o \in Options : o.value \in Wording
    BY DEF Options
  <2> QED BY <2>1, FieldParts
<1>2. \A n \in DOMAIN f.options :
        Chosen(f, w)[n] = IF n \in w THEN <<f.options[n].value>> ELSE <<>>
  BY DEF Chosen
<1>3. ASSUME NEW n \in DOMAIN f.options PROVE Chosen(f, w)[n] \in Seq(Wording)
  <2>1. \A x \in Wording : <<x>> \in Seq(Wording)
    OBVIOUS
  <2>2. <<>> \in Seq(Wording)
    OBVIOUS
  <2> QED BY <1>1, <1>2, <2>1, <2>2, Zenon
<1>4. Chosen(f, w) \in [1 .. Len(f.options) -> Seq(Wording)]
  <2>1. Chosen(f, w) = [n \in 1 .. Len(f.options) |-> Chosen(f, w)[n]]
    BY <1>1, Zenon DEF Chosen
  <2> QED BY <1>1, <1>3, <2>1
<1>5. Chosen(f, w) \in Seq(Seq(Wording)) /\ Len(Chosen(f, w)) = Len(f.options)
  BY <1>1, <1>4
<1> QED BY <1>2, <1>5

\* A combo box answers with the value of the item it shows.
LEMMA ComboTakes ==
  ASSUME NEW f \in Fields, f.type = "list-single", NEW w, CanShow(f, w)
  PROVE  LET chosen == ChosenValues(f, w)
         IN /\ Len(ValueOf(f, w)) = Len(chosen)
            /\ Range(ValueOf(f, w)) \subseteq {o.value : o \in Range(f.options)}
            /\ Unambiguous(f.options) => ValueOf(f, w) = chosen
<1>1. PICK chosen : chosen = ChosenValues(f, w)
  OBVIOUS
<1>2. chosen = FlattenSeq(Chosen(f, {w}))
  BY <1>1, Zenon DEF ChosenValues, Chosen
<1>3. /\ Chosen(f, {w}) \in Seq(Seq(Wording))
      /\ Len(Chosen(f, {w})) = Len(f.options)
      /\ \A n \in DOMAIN f.options :
           Chosen(f, {w})[n] = IF n \in {w} THEN <<f.options[n].value>> ELSE <<>>
  BY ChosenIs, Zenon
<1>4. f.options \in Seq(Options) /\ DOMAIN f.options = 1 .. Len(f.options)
  BY FieldParts
<1>5. CASE f.options = <<>>
  <2>1. ValueOf(f, w) = <<>>
    BY <1>5, ComboAnswers
  <2>2. Len(Chosen(f, {w})) = 0
    BY <1>3, <1>5
  <2>3. FlattenSeq(Chosen(f, {w})) = Chosen(f, {w})
    BY <2>2, Zenon DEF FlattenSeq
  <2>4. chosen = <<>>
    BY <1>2, <1>3, <2>2, <2>3
  <2>5. Range(<<>>) = {}
    BY DEF Range
  <2> QED BY <1>1, <2>1, <2>4, <2>5
<1>6. CASE f.options # <<>>
  <2>1. w \in DOMAIN f.options
    BY <1>6, ComboAnswers
  <2>2. PICK o \in Range(f.options) : ValueOf(f, w) = <<o.value>>
    BY <1>6, ComboAnswers
  <2>3. Unambiguous(f.options) => ValueOf(f, w) = <<f.options[w].value>>
    BY <1>6, ComboAnswers
  <2>4. FlattenSeq(Chosen(f, {w})) = Chosen(f, {w})[w]
    <3>1. w \in 1 .. Len(Chosen(f, {w}))
      BY <1>3, <1>4, <2>1
    <3>2. \A i \in 1 .. Len(Chosen(f, {w})) : i # w => Chosen(f, {w})[i] = <<>>
      BY <1>3, <1>4
    <3> QED BY <1>3, <3>1, <3>2, FlattenOne, Zenon
  <2>5. chosen = <<f.options[w].value>>
    BY <1>2, <1>3, <2>1, <2>4
  <2>6. Range(<<o.value>>) = {o.value}
    BY DEF Range
  <2>7. Len(<<o.value>>) = 1 /\ Len(<<f.options[w].value>>) = 1
    OBVIOUS
  <2> QED BY <1>1, <2>2, <2>3, <2>5, <2>6, <2>7
<1> QED BY <1>5, <1>6

\* A list answers with the values of the items selected, each once.
LEMMA ListTakes ==
  ASSUME NEW f \in Fields, f.type = "list-multi", NEW w, CanShow(f, w)
  PROVE  LET chosen == ChosenValues(f, w)
         IN /\ Len(ValueOf(f, w)) = Len(chosen)
            /\ Range(ValueOf(f, w)) \subseteq {o.value : o \in Range(f.options)}
            /\ Unambiguous(f.options) => ValueOf(f, w) = chosen
<1>1. PICK chosen : chosen = ChosenValues(f, w)
  OBVIOUS
<1>2. chosen = FlattenSeq(Chosen(f, w))
  BY <1>1, Zenon DEF ChosenValues, Chosen
<1>3. ValueOf(f, w) = FlattenSeq(FoundFor(f, w))
  BY ListAnswers
<1>4. /\ Chosen(f, w) \in Seq(Seq(Wording)) /\ FoundFor(f, w) \in Seq(Seq(Wording))
      /\ Len(Chosen(f, w)) = Len(f.options) /\ Len(FoundFor(f, w)) = Len(f.options)
      /\ DOMAIN f.options = 1 .. Len(f.options)
  BY ChosenIs, FoundForIs, FieldParts
<1>5. ASSUME NEW n \in DOMAIN f.options
      PROVE  /\ Len(FoundFor(f, w)[n]) = Len(Chosen(f, w)[n])
             /\ Range(FoundFor(f, w)[n]) \subseteq {o.value : o \in Range(f.options)}
             /\ Unambiguous(f.options) => FoundFor(f, w)[n] = Chosen(f, w)[n]
  <2>1. Range(<<>>) = {} /\ \A x : Range(<<x>>) = {x} /\ Len(<<x>>) = 1
    BY DEF Range
  <2>2. CASE n \in w
    <3>1. Chosen(f, w)[n] = <<f.options[n].value>>
      BY <2>2, ChosenIs
    <3>2. Len(FoundFor(f, w)[n]) = 1
      BY <2>2, FoundForIs
    <3>3. \E o \in Range(f.options) : FoundFor(f, w)[n] = <<o.value>>
      BY <2>2, FoundForIs
    <3>4. Unambiguous(f.options) => FoundFor(f, w)[n] = <<f.options[n].value>>
      BY <2>2, FoundForIs
    <3> QED BY <2>1, <3>1, <3>2, <3>3, <3>4
  <2>3. CASE n \notin w
    <3>1. Chosen(f, w)[n] = <<>>
      BY <2>3 DEF Chosen
    <3>2. FoundFor(f, w)[n] = <<>>
      BY <2>3, FoundForIs
    <3> QED BY <2>1, <3>1, <3>2
  <2> QED BY <2>2, <2>3
<1>6. Len(ValueOf(f, w)) = Len(chosen)
  <2>1. \A i \in 1 .. Len(FoundFor(f, w)) : Len(FoundFor(f, w)[i]) = Len(Chosen(f, w)[i])
    BY <1>4, <1>5
  <2> QED BY <1>2, <1>3, <1>4, <2>1, FlattenLength, Zenon
<1>7. Range(ValueOf(f, w)) \subseteq {o.value : o \in Range(f.options)}
  <2>1. Range(ValueOf(f, w)) = UNION {Range(FoundFor(f, w)[n]) : n \in DOMAIN f.options}
    BY ListAnswers
  <2> QED BY <1>5, <2>1
<1>8. ASSUME Unambiguous(f.options) PROVE ValueOf(f, w) = chosen
  <2>1. \A i \in 1 .. Len(f.options) : FoundFor(f, w)[i] = Chosen(f, w)[i]
    BY <1>4, <1>5, <1>8
  <2>2. FoundFor(f, w) = Chosen(f, w)
    BY <1>4, <2>1, SeqEqual, Zenon
  <2> QED BY <1>2, <1>3, <2>2
<1> QED BY <1>1, <1>6, <1>7, <1>8

\* Both of them, as the step that takes the form.
LEMMA FormTakes ==
  ASSUME FormInv, TakeForm, field.type \in {"list-single", "list-multi"}
  PROVE  LET chosen == ChosenValues(field, shown)
         IN /\ Len(field'.value) = Len(chosen)
            /\ Range(field'.value) \subseteq {o.value : o \in Range(field.options)}
            /\ Unambiguous(field.options) => field'.value = chosen
<1>1. /\ field \in Fields /\ CanShow(field, shown)
      /\ field'.value = ValueOf(field, shown)
  BY TakenIs
<1>2. CASE field.type = "list-single"
  BY <1>1, <1>2, ComboTakes
<1>3. CASE field.type = "list-multi"
  BY <1>1, <1>3, ListTakes
<1> QED BY <1>2, <1>3

-----------------------------------------------------------------------------

\* Without labels, and without values that were labels or empty, an option fits
\* a value of the field as it did before, and is found.
LEMMA RereadFits ==
  ASSUME NEW f \in Fields, Unambiguous(f.options),
         \A o \in Range(f.options) : {o.label, ""} \cap Range(f.value) \subseteq {o.value}
  PROVE  LET g == FieldToXml(f)
         IN /\ ChosenItems(g) = ChosenItems(f)
            /\ \A n \in DOMAIN f.options :
                 /\ Text(g.options[n]) = f.options[n].value
                 /\ Found(g.options, Text(g.options[n])) = <<f.options[n].value>>
<1>1. PICK g : g = FieldToXml(f)
  OBVIOUS
<1>2. /\ g \in Fields /\ g.value = f.value
      /\ DOMAIN g.options = DOMAIN f.options
      /\ \A n \in DOMAIN f.options :
           g.options[n].label = "" /\ g.options[n].value = f.options[n].value
  BY <1>1, RereadIsField, Zenon
<1>3. \A n \in DOMAIN f.options : f.options[n].value # "" /\ f.options[n] \in Range(f.options)
  <2>1. \A n \in DOMAIN f.options : f.options[n] \in Options
    BY FieldParts
  <2> QED BY <2>1 DEF Options, Range
<1>4. ASSUME NEW n \in DOMAIN f.options, NEW v \in Range(f.value)
      PROVE  Fits(g.options[n], v) <=> Fits(f.options[n], v)
  <2>1. {f.options[n].label, ""} \cap Range(f.value) \subseteq {f.options[n].value}
    BY <1>3
  <2>2. Fits(g.options[n], v) <=> v = f.options[n].value
    BY <1>2, <1>3, <2>1 DEF Fits
  <2>3. Fits(f.options[n], v) <=> v = f.options[n].value
    BY <2>1 DEF Fits
  <2> QED BY <2>2, <2>3
<1>5. ChosenItems(g) = ChosenItems(f)
  <2>1. ChosenItems(g) = {n \in DOMAIN f.options : \E v \in Range(f.value) : Fits(g.options[n], v)}
    BY <1>2, Zenon DEF ChosenItems
  <2>2. ChosenItems(f) = {n \in DOMAIN f.options : \E v \in Range(f.value) : Fits(f.options[n], v)}
    BY Zenon DEF ChosenItems
  <2> QED BY <1>4, <2>1, <2>2
<1>6. ASSUME NEW n \in DOMAIN f.options
      PROVE  /\ Text(g.options[n]) = f.options[n].value
             /\ Found(g.options, Text(g.options[n])) = <<f.options[n].value>>
  <2>1. Text(g.options[n]) = f.options[n].value
    BY <1>2 DEF Text
  <2>2. PICK j \in DOMAIN f.options :
               /\ Fits(g.options[j], Text(g.options[n]))
               /\ Found(g.options, Text(g.options[n])) = <<g.options[j].value>>
    <3>1. g.options \in Seq(Options) /\ n \in DOMAIN g.options
      BY <1>2, FieldParts
    <3> QED BY <1>2, <3>1, FoundForItem
  <2>3. g.options[j].value = f.options[n].value
    BY <1>2, <1>3, <2>1, <2>2 DEF Fits
  <2> QED BY <2>1, <2>2, <2>3
<1> QED BY <1>1, <1>5, <1>6

\* Sequences with the same positions have the same length.
LEMMA SameLength ==
  ASSUME NEW V, NEW s \in Seq(V), NEW t \in Seq(V), DOMAIN s = DOMAIN t
  PROVE  Len(s) = Len(t)
<1>1. DOMAIN s = 1 .. Len(s) /\ DOMAIN t = 1 .. Len(t) /\ Len(s) \in Nat /\ Len(t) \in Nat
  OBVIOUS
<1>2. PICK m \in Nat, n \in Nat : m = Len(s) /\ n = Len(t)
  BY <1>1
<1>3. \A i : i \in 1 .. m <=> i \in 1 .. n
  BY <1>1, <1>2
<1>7. (m # 0 => m \in 1 .. m) /\ (n # 0 => n \in 1 .. n)
  OBVIOUS
<1>4. m # 0 => m \in 1 .. n
  BY <1>3, <1>7, Zenon
<1>5. n # 0 => n \in 1 .. m
  BY <1>3, <1>7, Zenon
<1>6. m = n
  BY <1>4, <1>5
<1> QED BY <1>2, <1>6

\* A field written out and read back answers as it did, when its options are
\* unambiguous and no value is the label of another option.
LEMMA RereadAnswers ==
  ASSUME NEW f \in Fields, Unambiguous(f.options),
         \A o \in Range(f.options) : {o.label, ""} \cap Range(f.value) \subseteq {o.value}
  PROVE  LET g == FieldToXml(f) IN ValueOf(g, Widget(g)) = ValueOf(f, Widget(f))
<1>1. PICK g : g = FieldToXml(f)
  OBVIOUS
<1>2. /\ g \in Fields /\ g.type = f.type /\ g.value = f.value
      /\ DOMAIN g.options = DOMAIN f.options
      /\ \A n \in DOMAIN f.options :
           g.options[n].label = "" /\ g.options[n].value = f.options[n].value
  BY <1>1, RereadIsField, Zenon
<1>3. /\ ChosenItems(g) = ChosenItems(f)
      /\ \A n \in DOMAIN f.options :
           /\ Text(g.options[n]) = f.options[n].value
           /\ Found(g.options, Text(g.options[n])) = <<f.options[n].value>>
  BY <1>1, RereadFits, Zenon
<1>4. f.type \in Types /\ f.options \in Seq(Options) /\ g.options \in Seq(Options)
  BY <1>2, FieldParts
<1>8. Len(g.options) = Len(f.options) /\ (g.options = <<>> <=> f.options = <<>>)
  <2>1. Len(g.options) = Len(f.options)
    BY <1>2, <1>4, SameLength
  <2>2. \A s \in Seq(Options) : s = <<>> <=> Len(s) = 0
    BY EmptySeq
  <2> QED BY <1>4, <2>1, <2>2, Zenon
<1>5. CASE f.type \in {"boolean", "hidden", "text-single", "text-multi"}
  <2>1. g.type = f.type /\ g.value = f.value
    BY <1>2
  <2> QED BY <1>1, <1>5, <2>1 DEF ValueOf, Widget
<1>6. CASE f.type = "list-multi"
  <2>1. PICK w : w = ChosenItems(f)
    OBVIOUS
  <2>2. ValueOf(g, Widget(g)) = FlattenSeq(FoundFor(g, w))
    BY <1>2, <1>3, <1>6, <2>1 DEF ValueOf, Widget, FoundFor
  <2>3. ValueOf(f, Widget(f)) = FlattenSeq(FoundFor(f, w))
    BY <1>6, <2>1 DEF ValueOf, Widget, FoundFor
  <2>4. \A n \in DOMAIN f.options : FoundFor(g, w)[n] = FoundFor(f, w)[n]
    <3>1. ASSUME NEW n \in DOMAIN f.options, n \in w
          PROVE  FoundFor(g, w)[n] = FoundFor(f, w)[n]
      <4>1. FoundFor(f, w)[n] = <<f.options[n].value>>
        BY <3>1, FoundForIs
      <4>2. FoundFor(g, w)[n] = Found(g.options, Text(g.options[n]))
        BY <1>2, <3>1 DEF FoundFor
      <4> QED BY <1>3, <4>1, <4>2
    <3>2. ASSUME NEW n \in DOMAIN f.options, n \notin w
          PROVE  FoundFor(g, w)[n] = FoundFor(f, w)[n]
      BY <1>2, <3>2 DEF FoundFor
    <3> QED BY <3>1, <3>2
  <2>5. /\ FoundFor(g, w) \in Seq(Seq(Wording)) /\ FoundFor(f, w) \in Seq(Seq(Wording))
        /\ Len(FoundFor(g, w)) = Len(g.options) /\ Len(FoundFor(f, w)) = Len(f.options)
    BY <1>2, FoundForIs
  <2>6. Len(g.options) = Len(f.options) /\ DOMAIN f.options = 1 .. Len(f.options)
    <3>1. DOMAIN f.options = 1 .. Len(f.options)
      BY <1>4, LenProperties, Zenon
    <3> QED BY <1>8, <3>1
  <2>7. FoundFor(g, w) = FoundFor(f, w)
    BY <2>4, <2>5, <2>6, SeqEqual, Zenon
  <2> QED BY <1>1, <2>2, <2>3, <2>7
<1>7. CASE f.type = "list-single"
  <2>1. PICK c, d : c = CurrentItem(f) /\ d = CurrentItem(g)
    OBVIOUS
  <2>2. CanShow(f, c) /\ Widget(f) = c /\ Widget(g) = d
    <3>1. Widget(f) = c /\ Widget(g) = d
      BY <1>2, <1>7, <2>1, Zenon DEF Widget
    <3> QED BY <3>1, WidgetShows
  <2>3. ValueOf(g, d) = IF g.options = <<>> THEN <<>> ELSE Found(g.options, Text(g.options[d]))
    BY <1>2, <1>7 DEF ValueOf
  <2>4. CASE f.options = <<>>
    <3>1. g.options = <<>>
      BY <1>8, <2>4
    <3>2. ValueOf(f, c) = <<>>
      BY <1>7, <2>2, <2>4, ComboAnswers
    <3> QED BY <1>1, <2>2, <2>3, <3>1, <3>2
  <2>5. CASE f.options # <<>>
    <3>1. g.options # <<>> /\ c \in DOMAIN f.options /\ ValueOf(f, c) = <<f.options[c].value>>
      <4>1. g.options # <<>>
        BY <1>8, <2>5
      <4> QED BY <1>7, <2>2, <2>5, <4>1, ComboAnswers
    <3>2. d \in DOMAIN f.options /\ f.options[d].value = f.options[c].value
      <4>1. CASE \A n \in DOMAIN f.options : ~Begins(f.value, f.options[n].value)
        <5>1. c = 1
          BY <2>1, <4>1, CurrentItemIs
        <5>2. d = 1
          BY <1>2, <2>1, <4>1, CurrentItemIs
        <5> QED BY <3>1, <5>1, <5>2
      <4>2. CASE \E n \in DOMAIN f.options : Begins(f.value, f.options[n].value)
        <5>1. PICK n \in DOMAIN f.options :
                   /\ Begins(f.value, f.options[n].value)
                   /\ Text(f.options[c]) = Text(f.options[n])
          BY <2>1, <4>2, CurrentItemIs
        <5>2. c = n
          <6>1. Fits(f.options[n], Text(f.options[c]))
            BY <5>1 DEF Fits, Text
          <6> QED BY <3>1, <6>1 DEF Unambiguous
        <5>3. PICK m \in DOMAIN f.options :
                   /\ Begins(f.value, f.options[m].value)
                   /\ d \in DOMAIN f.options
                   /\ Text(g.options[d]) = Text(g.options[m])
          BY <1>2, <2>1, <4>2, CurrentItemIs
        <5>4. f.options[d].value = f.options[m].value
          BY <1>3, <5>3
        <5>5. f.options[m].value = f.options[n].value
          BY <5>1, <5>3 DEF Begins
        <5> QED BY <5>2, <5>3, <5>4, <5>5
      <4> QED BY <4>1, <4>2
    <3> QED BY <1>1, <1>3, <2>2, <2>3, <3>1, <3>2
  <2> QED BY <2>4, <2>5
<1> QED BY <1>4, <1>5, <1>6, <1>7 DEF Types

-----------------------------------------------------------------------------

\* What the inductive invariant says of every behaviour.
THEOREM FormInvariant == FormSpec => []FormInv
<1>1. FormInit => FormInv
  BY DEF FormInit, FormInv, FormTypeOK, Fresh
<1> QED BY <1>1, StepForm, PTL DEF FormSpec

\* Fields have their types and widgets show what they can.
THEOREM FormTypes == FormSpec => []FormTypeOK
<1>1. FormInv => FormTypeOK
  BY DEF FormInv
<1> QED BY <1>1, FormInvariant, PTL

\* A form that nobody edits keeps its values.
THEOREM FormUntouchedIsKept == FormSpec => UntouchedIsKept
<1>1. ASSUME FormInv, [FormNext]_formVars
      PROVE  [TakeForm /\ ~touched /\ Unambiguous(field.options) => Same(field, field'.value)]_formVars
  BY <1>1, TakeKeeps
<1> QED BY <1>1, FormInvariant, PTL DEF FormSpec, UntouchedIsKept

\* What is chosen in a box is what is taken.
THEOREM FormChosenIsTaken == FormSpec => ChosenIsTaken
<1>1. ASSUME FormInv, [FormNext]_formVars
      PROVE  [TakeForm /\ field.type \in {"list-single", "list-multi"} =>
                LET chosen == ChosenValues(field, shown)
                IN /\ Len(field'.value) = Len(chosen)
                   /\ Range(field'.value) \subseteq {o.value : o \in Range(field.options)}
                   /\ Unambiguous(field.options) => field'.value = chosen]_formVars
  BY <1>1, FormTakes
<1> QED BY <1>1, FormInvariant, PTL DEF FormSpec, ChosenIsTaken

\* A form that is written and read again gives the same answer.
THEOREM FormRereadAnswersAlike == FormSpec => RereadAnswersAlike
<1>1. ASSUME FormInv, [FormNext]_formVars
      PROVE  [/\ RereadForm /\ Unambiguous(field.options)
              /\ \A o \in Range(field.options) : {o.label, ""} \cap Range(field.value) \subseteq {o.value}
              => ValueOf(field', Widget(field')) = ValueOf(field, Widget(field))]_formVars
  <2>1. SUFFICES ASSUME RereadForm, Unambiguous(field.options),
                        \A o \in Range(field.options) : {o.label, ""} \cap Range(field.value) \subseteq {o.value}
                 PROVE  ValueOf(field', Widget(field')) = ValueOf(field, Widget(field))
    OBVIOUS
  <2>2. field \in Fields /\ field' = FieldToXml(field)
    BY <1>1, <2>1 DEF RereadForm, FormInv, FormTypeOK
  <2>3. ValueOf(FieldToXml(field), Widget(FieldToXml(field))) = ValueOf(field, Widget(field))
    BY <2>1, <2>2, RereadAnswers
  <2> QED BY <2>2, <2>3, Zenon
<1> QED BY <1>1, FormInvariant, PTL DEF FormSpec, RereadAnswersAlike

-----------------------------------------------------------------------------

\* A step of the composition is one of each component or leaves it alone.
LEMMA StepOfParts ==
  ASSUME [PartsNext]_allVars
  PROVE  /\ [ClientsNext]_clientVars
         /\ [SnapNext]_snapVars
         /\ [FlashNext]_flashVars
         /\ [OptionsNext]_optionVars
         /\ [SharedNext]_sharedVars
         /\ [FormNext]_formVars
         /\ [JidNext]_jidVars
         /\ [CardNext]_card
<1>1. [ClientsNext]_clientVars
  BY Zenon DEF PartsNext, allVars
<1>2. [SnapNext]_snapVars
  BY Zenon DEF PartsNext, allVars
<1>3. [FlashNext]_flashVars
  BY Zenon DEF PartsNext, allVars
<1>4. [OptionsNext]_optionVars
  BY Zenon DEF PartsNext, allVars
<1>5. [SharedNext]_sharedVars
  BY Zenon DEF PartsNext, allVars
<1>6. [FormNext]_formVars
  BY Zenon DEF PartsNext, allVars
<1>7. [JidNext]_jidVars
  BY Zenon DEF PartsNext, allVars
<1>8. [CardNext]_card
  BY Zenon DEF PartsNext, allVars
<1> QED BY <1>1, <1>2, <1>3, <1>4, <1>5, <1>6, <1>7, <1>8

\* In a behaviour of the composition each component behaves as it does alone.
LEMMA EachPart == PartsSpec => /\ ClientsSpec
                              /\ SnapSpec
                              /\ FlashSpec
                              /\ OptionsSpec
                              /\ SharedSpec
                              /\ FormSpec
                              /\ JidSpec
                              /\ CardSpec
<1>1. PartsInit => ClientsInit /\ SnapInit /\ FlashInit /\ OptionsInit
                   /\ SharedInit /\ FormInit /\ JidInit /\ CardInit
  BY DEF PartsInit
<1> QED BY <1>1, StepOfParts, PTL DEF PartsSpec, ClientsSpec, SnapSpec, FlashSpec, OptionsSpec,
                                      SharedSpec, FormSpec, JidSpec, CardSpec

\* The variables of every component have their types (the constructors and
\* operations of icons' clients, windows, options, forms, addresses and vCards).
THEOREM PartsTypes == PartsSpec => []PartsTypeOK
<1>1. JidInv => JidTypeOK
  BY DEF JidInv
<1> QED BY <1>1, EachPart, ClientsTypes, SnapTypes, FlashNeverPasses, OptionsTypes, SharedTypes,
           FormTypes, JidInvariant, CardTypes, PTL DEF PartsTypeOK

\* Addresses and vCards stand for themselves when what was written of them is
\* read again (Jid::full, Jid::set, VCard::toXml, VCard::fromXml).
THEOREM TextsReadBack == PartsSpec => []ReadsBack
BY EachPart, JidReadsBack, CardReads, PTL DEF ReadsBack

\* What is proved of the components alone holds of all of them together.
THEOREM PartsKeepAll ==
  PartsSpec => /\ [](ActivationsPaired /\ ShownAreAlive /\ HiddenMenuRests)
               /\ [](StaleWhileTimed /\ XDataAlive)
               /\ FlushOrAsAsked /\ OptionsSurvive /\ XDataApart
               /\ UntouchedIsKept /\ ChosenIsTaken /\ RereadAnswersAlike
BY EachPart, ClientsPaired, ClientsShownAlive, ClientsMenuRests, SnapStaleWhileTimed, SharedAlive,
   SnapFlushOrAsAsked, OptionsKept, SharedApart, FormUntouchedIsKept, FormChosenIsTaken,
   FormRereadAnswersAlike, PTL
=============================================================================
